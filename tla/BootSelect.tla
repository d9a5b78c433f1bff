----------------------------- MODULE BootSelect -----------------------------
(***************************************************************************)
(* What upac asks of a bootloader, as the trait Booter and chapter 5.2 of  *)
(* the documentation put it: a persistent boot option, and a one-shot one  *)
(* that is used up by any start, so that a deploy which does not come up   *)
(* is followed by the persistent one.  The deploy store counts on it;      *)
(* BootEntries is how it is done with entries, variables and plugins.      *)
(***************************************************************************)
CONSTANTS
    Digests,   \* the deploys a machine may be started into
    None       \* no one-shot option

VARIABLES
    booted,      \* the deploy that runs
    persistent,  \* the deploy of the persistent boot option
    oneShot      \* the deploy of the one-shot boot option, or None

options == <<booted, persistent, oneShot>>

Init ==
    /\ booted \in Digests
    /\ persistent = booted
    /\ oneShot = None

\* set_one_shot, at the end of a command.
Arm(p) ==
    /\ oneShot' = p
    /\ UNCHANGED <<booted, persistent>>

\* The machine starts, again if need be, until a deploy comes up.
Start ==
    /\ booted' \in {oneShot, persistent} \cap Digests
    /\ oneShot' = None
    /\ UNCHANGED persistent

\* confirm_boot, once the running deploy has proved good.
Confirm ==
    /\ persistent' = booted
    /\ UNCHANGED <<booted, oneShot>>

Next == Start \/ Confirm \/ \E p \in Digests : Arm(p)

Spec == Init /\ [][Next]_options
=============================================================================
