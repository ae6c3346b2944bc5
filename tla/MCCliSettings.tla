--------------------------- MODULE MCCliSettings ---------------------------
(* MCCliSettings.cfg: two commands of two terminals, each given up to three *)
(* options in a shell with at most one variable, from any configuration     *)
(* file.  MCCliSettingsJoin.cfg: one option for each command.               *)
(* MCCliSettingsAntiBot.cfg: one command with one option and no variable;   *)
(* the counterexample gives it --anti-bot off over a file that says "on".   *)
EXTENDS CliSettings, TLC

Interchangeable == Permutations(Clients)
=============================================================================
