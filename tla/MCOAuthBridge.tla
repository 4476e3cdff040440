--------------------------- MODULE MCOAuthBridge ----------------------------
(***************************************************************************)
(* Small instances of OAuthBridge for TLC.                                 *)
(***************************************************************************)
EXTENDS OAuthBridge

=============================================================================
