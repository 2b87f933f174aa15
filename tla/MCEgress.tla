------------------------------ MODULE MCEgress ------------------------------
(* Small instances of Egress for TLC. *)
EXTENDS Egress, TLC

CONSTANTS fr1, de1, gb1, DE, GB, SE

(* One endpoint in each of three allowed countries. *)
MCCatalog == <<de1, fr1, gb1>>

(* Two are enough where no country is selected. *)
MCCatalogTwo == <<de1, fr1>>

MCCountry == (fr1 :> FR) @@ (de1 :> DE) @@ (gb1 :> GB)

(* A report is applied in the tick it was made or in the next. *)
MCPrompt == {0, 1}
=============================================================================
