---------------------------- MODULE MCOwnership ----------------------------
(***************************************************************************)
(* Every program of the four tables, each run with every choice of failing *)
(* step, branch and number of rounds; and, on their own, the programs of   *)
(* the functions that do not keep the rules.                               *)
(***************************************************************************)
EXTENDS OwnPkcs, OwnX509, OwnX509v3, OwnAsn1, TLC

AllCode == PkcsCode @@ X509Code @@ V3Code @@ Asn1Code
DepartingCode == X509LeakCode @@ V3LeakCode
=============================================================================
