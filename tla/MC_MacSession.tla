---------------------------- MODULE MC_MacSession ----------------------------
(* Model values for checking MacSession with TLC.                          *)
EXTENDS MacSession

\* A MAC with no tag, a truncated HMAC and a UMAC: three tag lengths.
MCSessionAlgos == {"none", "hmac-sha1-96", "umac-64@openssh.com"}

=============================================================================
