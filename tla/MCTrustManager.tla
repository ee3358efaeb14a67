-------------------------- MODULE MCTrustManager --------------------------
(* TrustManager over one rotation: OLD, OLD with NEW, NEW.                 *)
EXTENDS TrustManager
CONSTANTS Old, New
MCCAs == {Old, New}
MCBundles == <<{Old}, {Old, New}, {New}>>
=============================================================================
