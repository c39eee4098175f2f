------------------------------- MODULE MCAgent -------------------------------
(***************************************************************************)
(* Two tools, one of them unknown to the server, two calls per answer, two *)
(* rounds and two prompts: a prompt that was given up is followed by       *)
(* another, and a second round follows a first with failed calls.          *)
(***************************************************************************)
EXTENDS Agent

MCTools == {"info", "nosuch"}
MCKnown == {"info"}
==============================================================================
