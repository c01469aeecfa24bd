---------------------------- MODULE MCWorktrees ----------------------------
(* Instance of Worktrees for TLC; the .cfg gives every constant its value. *)
EXTENDS Worktrees
=============================================================================
