---------------------------- MODULE ResponseData ----------------------------
(***************************************************************************)
(* What the schemas of all decoded responses share.                        *)
(***************************************************************************)
CONSTANTS
  None,      \* JSON null, or a field left out
  Invalid    \* CompanionsProtocolError in place of a model
=============================================================================
