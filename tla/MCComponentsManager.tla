------------------------ MODULE MCComponentsManager ------------------------
(***************************************************************************)
(* ComponentsManager with one bundle of each provider.                     *)
(***************************************************************************)
EXTENDS ComponentsManager, TLC

CONSTANTS b1, b2

Providers == b1 :> "builtin" @@ b2 :> "paddleocr"

Interchangeable == Permutations(Processes)
=============================================================================
