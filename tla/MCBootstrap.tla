---------------------------- MODULE MCBootstrap -----------------------------
(* Two runs that may install, on top of what an earlier one left at the    *)
(* path (Init), and two hooks around them: enough for a run that is killed *)
(* after another was, one that repairs what they left, and hooks before,   *)
(* between and after.                                                      *)
EXTENDS Bootstrap
=============================================================================
