------------------------------ MODULE MCRemint ------------------------------
(* Remint over a rotation up to the flip of the signer: OLD, OLD with NEW   *)
(* signed by OLD, OLD with NEW signed by NEW.                              *)
EXTENDS Remint
CONSTANTS Old, New
MCVersions == <<[bundle |-> {Old}, active |-> Old],
                [bundle |-> {Old, New}, active |-> Old],
                [bundle |-> {Old, New}, active |-> New]>>
=============================================================================
