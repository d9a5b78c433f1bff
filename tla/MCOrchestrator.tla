--------------------------- MODULE MCOrchestrator ---------------------------
(***************************************************************************)
(* Instances of Orchestrator for TLC.                                      *)
(***************************************************************************)
EXTENDS Orchestrator, TLC

CONSTANTS w1, w2, r1

\* Two stages that change the disk, the second without a rollback, as merge
\* and swap are; swap takes the slot that merge puts, and both say so: a
\* swap that is repeated finds it gone.
ShortPipeline == <<"merge", "swap">>
NoSlots(pipeline) == [s \in {pipeline[i] : i \in DOMAIN pipeline} |-> {}]
ShortNoSlots == NoSlots(ShortPipeline)
ShortNeeds   == [ShortNoSlots EXCEPT !["swap"] = {"entry"}]
ShortPuts    == [ShortNoSlots EXCEPT !["merge"] = {"entry"}]

\* The pipeline of install.  No stage declares anything.
InstallPipeline ==
    <<"preHooks", "fetching", "preparation", "openTransaction",
      "importPackage", "commitTransaction", "merge", "checkout", "swap",
      "declarativeHooks", "postHooks", "retention">>
InstallNoSlots == NoSlots(InstallPipeline)

Writers2 == Permutations({w1, w2})
=============================================================================
