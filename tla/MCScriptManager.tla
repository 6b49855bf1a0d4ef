-------------------------- MODULE MCScriptManager --------------------------
(* Two scripts, as in a Script.xml that lists access.lua before access.bans.lua. *)
EXTENDS ScriptManager

CONSTANTS access, bans

MCConfig == <<access, bans>>
============================================================================
