--------------------------- MODULE MCEdgeCertStore ---------------------------
(* Two domains, one of them configured, and two concurrent handshakes.     *)
EXTENDS EdgeCertStore

CONSTANTS d1, d2, h1, h2

MCDomains    == {d1, d2}
MCConfigured == {d1}
MCHandshakes == {h1, h2}
=============================================================================
