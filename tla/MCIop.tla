-------------------------------- MODULE MCIop --------------------------------
(* Instances of IopController for TLC.                                     *)
EXTENDS IopController

CONSTANTS minimal, full, broken, appMinimal, appFull, own

(* broken stands for a nil spec or a profile that does not exist.          *)
MCConvert ==
  [s \in IopSpecs |-> CASE s = minimal -> appMinimal
                       [] s = full    -> appFull
                       [] OTHER       -> Unconvertible]
=============================================================================
