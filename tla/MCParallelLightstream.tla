------------------------ MODULE MCParallelLightstream ------------------------
(* Instances of ParallelLightstream for TLC. The cfg files give the sizes.  *)
EXTENDS ParallelLightstream
==============================================================================
