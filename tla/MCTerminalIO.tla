---------------------------- MODULE MCTerminalIO ----------------------------
(***************************************************************************)
(* A terminal in two parts: "output" of the child through collector,       *)
(* screen and log, and what the user has "typed", under partial and        *)
(* failing writes, failing reads and a log writer that may be preempted.   *)
(***************************************************************************)
EXTENDS TerminalIO

VARIABLE part

Typing == INSTANCE TerminalIO WITH
            MaxOut <- 1, MaxTyped <- 3, ReadErrors <- TRUE, LateWriter <- TRUE

PartInit == /\ part \in {"output", "typed"}
            /\ IF part = "typed" THEN Typing!IOInit ELSE IOInit
PartNext ==
  /\ \/ part = "output" /\ IONext
     \/ part = "typed" /\ Typing!IONext
  /\ UNCHANGED part

PartSpec == PartInit /\ [][PartNext]_<<part, ioVars>>

\* A client that has the current revision has the current screen, unless
\* reading fails: the failure of a pipe changes the status alone.
OutputRevisionNamesScreen == part = "output" => RevisionNamesScreen

\* The log claims no more than it holds, unless reading fails or its writer is
\* preempted (run.rs:90, actor.rs:1518, see README.md).
OutputLogTruthful == part = "output" => LogTruthful
=============================================================================
