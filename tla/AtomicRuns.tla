----------------------------- MODULE AtomicRuns -----------------------------
(***************************************************************************)
(* What the engine promises the next command: it finds the disk as whole   *)
(* runs have left it.  While a run is in progress nothing of it counts.    *)
(* When it is over, writes of its own are added to what stood and nothing  *)
(* is taken away: after a failure only those that have no rollback or      *)
(* whose rollback failed, after a success or a death any of them.          *)
(***************************************************************************)
EXTENDS Naturals

CONSTANTS
    Writers,    \* the callers of run_exclusive
    None

VARIABLES
    store,      \* the writes that stand: [proc, serial, silent]
    owner,      \* the writer whose run is in progress, or None
    stuck,      \* the serials of the writes whose rollback failed
    last        \* how the last run ended

Effect == [proc : Writers, serial : Nat, silent : BOOLEAN]

Init == store = {} /\ owner = None /\ stuck = {} /\ last = "ok"

Take(p) ==
    /\ owner = None
    /\ owner' = p
    /\ UNCHANGED <<store, stuck, last>>

\* A rollback object of the run in progress fails.
Fail ==
    /\ owner # None
    /\ stuck \subseteq stuck'
    /\ UNCHANGED <<store, owner, last>>

\* The run of the owner is over.  What it adds is newer than all that stood.
New == store' \ store

End(how) ==
    /\ owner # None
    /\ store \subseteq store'
    /\ \A e \in New : /\ e \in Effect /\ e.proc = owner
                       /\ \A f \in store : f.serial < e.serial
    /\ owner' = None
    /\ last' = how
    /\ UNCHANGED stuck

Keep   == End("ok")
GiveUp == End("failed") /\ \A e \in New : e.silent \/ e.serial \in stuck
Die    == End("killed")

Next == (\E p \in Writers : Take(p)) \/ Fail \/ Keep \/ GiveUp \/ Die

Spec == Init /\ [][Next]_<<store, owner, stuck, last>>
=============================================================================
