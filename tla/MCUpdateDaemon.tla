--------------------------- MODULE MCUpdateDaemon ----------------------------
(* Instances of UpdateDaemon; each configuration file chooses what may go  *)
(* wrong (see README.md).                                                  *)
EXTENDS UpdateRefinement
==============================================================================
