----------------------------- MODULE PublicKeys -----------------------------
(***************************************************************************)
(* The public keys the contracts know their users by.                      *)
(***************************************************************************)

CONSTANTS
    User,   \* public keys
    Nobody  \* the empty public key ""

ASSUME PublicKeysAssumption == Nobody \notin User
=============================================================================
