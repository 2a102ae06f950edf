------------------------------- MODULE MCFrontend -------------------------------
(***************************************************************************)
(* Every page for every seeded role with two writes; a till with two       *)
(* products, one of which runs out.                                        *)
(***************************************************************************)
EXTENDS Frontend

CONSTANTS p, q

MCStock    == p :> 2 @@ q :> 1
MCPrice    == p :> 3 @@ q :> 2
MCNewPrice == p :> 4 @@ q :> 1
================================================================================
