-------------------------------- MODULE MCUi --------------------------------
(***************************************************************************)
(* Parts of the terminal UI that share no state, explored one beside the   *)
(* other in one run: `part` says which of them moves.                      *)
(*   "runtime"  two hosts after another, a terminal taken over once.       *)
(*   "attach"   a shell, a Run's terminal and another client.              *)
(*   "commit"   the Git tab's page, file actions and commit messages.      *)
(*   "review"   the other pages, plans and the operations of the host.     *)
(* Two parts also begin further on, in states their first one leads to.    *)
(***************************************************************************)
EXTENDS UiRuntime, UiAttach, UiGit

VARIABLE part

Commits == INSTANCE UiGit WITH
  Pages <- {"Diff"}, Texts <- {1, 2}, Keys <- {"refresh", "file", "commit"}, MaxWire <- 2

uiState == <<part, runtimeVars, attachVars, gitVars>>

\* The user has opened the terminal, and the runtime is idle.
OpenedInit ==
  /\ host = [id |-> 1, up |-> TRUE, epoch |-> 1, owner |-> 1]
  /\ worker = [host |-> 1, client |-> 1, failed |-> FALSE]
  /\ ui = [host |-> 1, client |-> 1, online |-> TRUE, active |-> TerminalOf(host)]
  /\ jobs = << >> /\ replies = << >> /\ buffer = << >> /\ typed = 0 /\ orders = 0
  /\ delivered = << >> /\ lost = {} /\ executed = [host |-> 0, seen |-> 0]

\* The repository has been opened and read, and a commit message is typed.
TypedInit ==
  /\ gitHost = [id |-> 1, ops |-> {}] /\ gitWorker = [host |-> 1, failed |-> FALSE]
  /\ wire = << >> /\ seen = 1 /\ online = TRUE /\ intents = {} /\ polling = {} /\ next = 2
  /\ repo = [Commits!FreshRepo(1) EXCEPT !.context = 1, !.status = TRUE,
                                 !.latest = [@ EXCEPT !["Open"] = 1, !["Status"] = 2]]
  /\ dialog = [NoDialog EXCEPT !.kind = "Message"] /\ cancelled = {} /\ executing = {}
  /\ messages = {} /\ known = {} /\ operation = NoOperation /\ focused = FALSE
  /\ reconnect = FALSE /\ confirmed = {} /\ committed = {}

UiInit ==
  /\ part \in {"runtime", "attach", "commit", "review"}
  /\ \/ RuntimeInit /\ (part # "runtime" => orders = 0)
     \/ part = "runtime" /\ OpenedInit
  /\ AttachInit
  /\ CASE part = "commit" -> Commits!GitInit \/ TypedInit [] OTHER -> GitInit

UiNext ==
  /\ \/ part = "runtime" /\ RuntimeNext /\ UNCHANGED <<attachVars, gitVars>>
     \/ part = "attach" /\ AttachNext /\ UNCHANGED <<runtimeVars, gitVars>>
     \/ part = "commit" /\ Commits!GitNext /\ UNCHANGED <<runtimeVars, attachVars>>
     \/ part = "review" /\ GitNext /\ UNCHANGED <<runtimeVars, attachVars>>
  /\ UNCHANGED part

UiSpec == UiInit /\ [][UiNext]_uiState

\* What the user typed is neither torn nor lost: input does not follow input
\* that was refused behind his back, and a commit message stays until it is
\* committed (runtime.rs:112, git.rs:756).
TypedIsKept == NoSilentGap /\ DraftKept

\* No question that has been settled keeps the keys blocked: neither the one
\* that attaches a Run nor the refreshing of Git changes (runs.rs:735,
\* git.rs:580).
NothingLeftBehind == AttachNotBlocked /\ BusyMatches
=============================================================================
