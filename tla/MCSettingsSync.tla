---------------------------- MODULE MCSettingsSync ----------------------------
(***************************************************************************)
(* Instances of SettingsSync for TLC.                                      *)
(***************************************************************************)
EXTENDS SettingsSync
=============================================================================
