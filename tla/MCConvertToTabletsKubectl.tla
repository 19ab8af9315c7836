---------------------- MODULE MCConvertToTabletsKubectl ----------------------
(* ConvertToTabletsKubectl for TLC. *)
EXTENDS ConvertToTabletsKubectl, TLC

\* Which address a pod has makes no difference to kubectl.
Alike == Permutations(Addresses)
=============================================================================
