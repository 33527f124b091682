--------------------------- MODULE ParsedCommands ---------------------------
(***************************************************************************)
(* The ParsedCommand of pkg/api/types.go, which the parser returns and the *)
(* evaluator reads: [pm, packages, unparsed, nonLocal], the last two for   *)
(* HasUnparsedArgs and HasNonLocalUnparsedArgs, and packages a sequence of *)
(* [name, pinned].                                                         *)
(***************************************************************************)
EXTENDS Naturals, Sequences

NoCommand == [pm |-> "none", packages |-> <<>>, unparsed |-> FALSE, nonLocal |-> FALSE]

(* What the evaluator takes for granted: what names another source counts  *)
(* as not read.                                                            *)
IsCommand(cmd) ==
    LET pkgs == cmd.packages IN
    /\ cmd.unparsed \in BOOLEAN /\ cmd.nonLocal \in BOOLEAN
    /\ cmd.nonLocal => cmd.unparsed
    /\ Len(pkgs) \in Nat /\ DOMAIN pkgs = 1..Len(pkgs)
    /\ \A j \in DOMAIN pkgs : pkgs[j].pinned \in BOOLEAN

AreCommands(cmds) ==
    /\ Len(cmds) \in Nat /\ DOMAIN cmds = 1..Len(cmds)
    /\ \A k \in DOMAIN cmds : IsCommand(cmds[k])
=============================================================================
