-------------------------- MODULE MCMeteringWriter --------------------------
(***************************************************************************)
(* Four records: one attributed to a user and a model, one of the same     *)
(* model without a user, so two of its four keys coincide, one with        *)
(* neither, so all four do, and one that is malformed.                     *)
(***************************************************************************)
EXTENDS MeteringWriter, TLC

CONSTANTS attributed, unattributed, unknown, bad, user, model

MCUserOf  == attributed :> user  @@ unattributed :> All   @@ unknown :> All @@ bad :> user
MCModelOf == attributed :> model @@ unattributed :> model @@ unknown :> All @@ bad :> model
=============================================================================
