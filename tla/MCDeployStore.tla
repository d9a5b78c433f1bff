--------------------------- MODULE MCDeployStore ---------------------------
(***************************************************************************)
(* Instances of DeployStore for TLC.                                       *)
(***************************************************************************)
EXTENDS DeployStore, TLC

\* The digests other than the genesis one are interchangeable.
Digests == Permutations(Prefixes \ {Genesis})
              \cup Permutations(Configs \ {GenesisConfig})
=============================================================================
