---------------------------- MODULE MCPushChannel ---------------------------
(***************************************************************************)
(* Two days of six slots of four hours and the first after; a reminder     *)
(* comes twenty hours later; users sleep through the first slot of a day.  *)
(***************************************************************************)
EXTENDS PushChannelProps
MCQuiet == {0}
=============================================================================
