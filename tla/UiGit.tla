------------------------------- MODULE UiGit -------------------------------
(***************************************************************************)
(* The Git tab of the terminal UI (ui/git.rs): questions to the host with  *)
(* the pages and dialogs that wait for their answers, plans that the user  *)
(* confirms and the UI then executes, the commit message kept as a draft,  *)
(* and the Git operation shown.                                            *)
(*                                                                         *)
(* One repository.  A job, its plan and the operation that executes the    *)
(* plan go by the nonce of the question.  Requests are carried out one     *)
(* after the other, as UiRuntime says; here a host is replaced at once.    *)
(***************************************************************************)
EXTENDS Naturals, Sequences, FiniteSets

CONSTANTS
  Pages,       \* pages that are asked for
  Texts,       \* commit messages
  Keys,        \* groups of keys explored, and whether operations are listed
  IntentLimit, \* questions not answered (16)
  MaxNonce, MaxGitHosts, MaxWire     \* bounds of the exploration

ASSUME PagesAssumption == Pages \subseteq {"Diff", "History", "Files", "Branches", "Remotes"}
ASSUME TextsAssumption == 0 \notin Texts      \* 0 is the empty draft

VARIABLES
  gitHost,   \* [id, ops]: the running host and its operations, [nonce, text, state, owner]
  gitWorker, \* [host, failed]: the host the UI's worker talks to
  wire,      \* requests and then answers, in order
  seen,      \* the host the UI knows
  online,
  repo,      \* [context, status, page, busy, error, latest, draft]
  intents,   \* submitted and jobs: [nonce, purpose, context, text, job]
  polling,   \* jobs with a poll on its way
  next,      \* last nonce
  dialog,    \* [kind, nonce, text]
  cancelled, \* nonces given up with Esc
  executing, \* plans sent for execution
  messages,  \* [nonce, text]: commit plans and the message they were sent with
  known,     \* the operations as listed last
  operation, \* the operation shown, [nonce, text, state, owner]
  focused,   \* its terminal has the keys
  reconnect, \* the repository is opened once connected
  confirmed, \* history: plans the user confirmed and did not give up
  committed  \* history: messages the hosts committed

gitUi == <<seen, online, repo, intents, polling, next, dialog, cancelled, executing,
            messages, known, operation, focused, reconnect>>
gitHistory == <<confirmed, committed>>
gitVars == <<gitHost, gitWorker, wire, gitUi, gitHistory>>

NoDialog == [kind |-> "none", nonce |-> 0, text |-> 0]
NoOperation == [nonce |-> 0, text |-> 0, state |-> "none", owner |-> "none"]
Topics == {"Open", "Status"} \union Pages

FreshRepo(draft) ==
  [context |-> 0, status |-> FALSE, page |-> "Changes", busy |-> 0, error |-> FALSE,
   latest |-> [t \in Topics |-> 0], draft |-> draft]

\* The UI has connected; nothing is read.
GitInit ==
  /\ gitHost = [id |-> 1, ops |-> {}]
  /\ gitWorker = [host |-> 1, failed |-> FALSE]
  /\ wire = << >> /\ seen = 1 /\ online = TRUE
  /\ repo = FreshRepo(0) /\ intents = {} /\ polling = {} /\ next = 0
  /\ dialog = NoDialog /\ cancelled = {} /\ executing = {} /\ messages = {}
  /\ known = {} /\ operation = NoOperation /\ focused = FALSE /\ reconnect = FALSE
  /\ confirmed = {} /\ committed = {}

-----------------------------------------------------------------------------
(* Questions                                                               *)

\* What travels: the host it is for, a commit's text, and once answered the
\* host that did, the job's state or the operations.
Message(tag, nonce, text) ==
  [tag |-> tag, nonce |-> nonce, text |-> text, host |-> seen,
   answer |-> "none", from |-> 0, state |-> "none", ops |-> {}]

HasRoom(is) == Cardinality(is) < IntentLimit /\ next < MaxNonce
Fits(n) == Len(wire) + n <= MaxWire

\* git_request: from the repository view r and the questions is, over w.
Ask(r, is, w, purpose, text) ==
  /\ next' = next + 1
  /\ repo' = [r EXCEPT !.busy = @ + 1,
                       !.page = IF purpose \in Pages THEN purpose ELSE @,
                       !.latest = [t \in Topics |-> IF t = purpose THEN next' ELSE @[t]]]
  /\ intents' = is \union {[nonce |-> next', purpose |-> purpose, text |-> text, job |-> FALSE,
                            context |-> IF purpose = "Open" THEN 0 ELSE r.context]}
  /\ wire' = Append(w, Message("Submit", next', 0))

\* refresh_git: the status, or opening when there is no context.
Refreshes(r) == IF r.context = 0 THEN "Open" ELSE "Status"

Question(purpose, text) ==
  HasRoom(intents) /\ Fits(1) /\ Ask(repo, intents, wire, purpose, text)

-----------------------------------------------------------------------------
(* tick_git                                                                *)

\* The repository in view is opened, or its changes are read again.
AutoRefresh ==
  /\ ~repo.error /\ repo.busy = 0
  /\ repo.context # 0 => repo.page = "Changes" /\ dialog = NoDialog
  /\ Question(Refreshes(repo), 0)
  /\ UNCHANGED <<gitHost, gitWorker, seen, online, polling, dialog, cancelled, executing, messages,
                 known, operation, focused, reconnect, gitHistory>>

\* Jobs without a poll on its way are asked for.
PollJob ==
  /\ online /\ Fits(1)
  /\ \E i \in intents :
       /\ i.job /\ i.nonce \notin polling
       /\ polling' = polling \union {i.nonce}
       /\ wire' = Append(wire, Message("Job", i.nonce, 0))
  /\ UNCHANGED <<gitHost, gitWorker, seen, online, repo, intents, next, dialog, cancelled, executing,
                 messages, known, operation, focused, reconnect, gitHistory>>

Travelling(tag) == \E k \in DOMAIN wire : wire[k].tag = tag

\* The screen of the operation shown, and the list of all: one at a time.
PollOperation(tag) ==
  /\ online /\ Fits(1) /\ ~Travelling(tag)
  /\ tag = "Operations" => "list" \in Keys
  /\ tag = "Snapshot" => operation.state = "Running"
  /\ wire' = Append(wire, Message(tag, operation.nonce, 0))
  /\ UNCHANGED <<gitHost, gitWorker, gitUi, gitHistory>>

-----------------------------------------------------------------------------
(* Keys without a dialog                                                   *)

\* Ctrl+g brings the menu back over the terminal of an operation.
AtMenu == dialog = NoDialog
Untouched == UNCHANGED <<gitHost, gitWorker, seen, online, polling, cancelled, executing, messages,
                         known, operation, focused>>

\* F5: opens again, after connecting when offline.
Reopen ==
  /\ "refresh" \in Keys /\ AtMenu /\ Fits(1)
  /\ IF online
       THEN /\ HasRoom(intents)
            /\ Ask([repo EXCEPT !.error = FALSE], intents, wire, "Open", 0)
            /\ UNCHANGED reconnect
     ELSE /\ repo' = [repo EXCEPT !.error = FALSE] /\ reconnect' = TRUE
          /\ wire' = Append(wire, Message("Connect", 0, 0))
          /\ UNCHANGED <<intents, next>>
  /\ UNCHANGED dialog /\ Untouched /\ UNCHANGED gitHistory

\* A page is asked for.
OpenPage(p) ==
  /\ "page" \in Keys /\ AtMenu /\ repo.context # 0
  /\ p = "Diff" => repo.status
  /\ Question(p, 0)
  /\ UNCHANGED <<dialog, reconnect, gitHistory>> /\ Untouched

\* z: back to the changes.
BackToChanges ==
  /\ "page" \in Keys /\ AtMenu /\ ~focused /\ repo.context # 0 /\ repo.page # "Changes"
  /\ HasRoom(intents) /\ Fits(1)
  /\ Ask([repo EXCEPT !.page = "Changes"], intents, wire, "Status", 0)
  /\ UNCHANGED <<dialog, reconnect, gitHistory>> /\ Untouched

\* A stage or unstage would be refused: one is thought to be on its way.
FileActionPending == executing # {} \/ \E i \in intents : i.purpose = "ExecutePlan"

\* s, u: a file action needs no review.
FileAction ==
  /\ "file" \in Keys /\ AtMenu /\ repo.context # 0 /\ repo.page = "Changes"
  /\ ~FileActionPending /\ repo.status
  /\ Question("ExecutePlan", 0)
  /\ confirmed' = confirmed \union {next'}
  /\ UNCHANGED <<dialog, reconnect, committed>> /\ Untouched

\* f, and Enter on a branch: a plan to review.
ReviewAction ==
  /\ "review" \in Keys /\ AtMenu /\ repo.context # 0 /\ repo.page \in {"Branches", "Remotes"}
  /\ repo.page = "Branches" => repo.status
  /\ Question("ReviewPlan", 0)
  /\ dialog' = [NoDialog EXCEPT !.kind = "Waiting", !.nonce = next']
  /\ UNCHANGED <<reconnect, gitHistory>> /\ Untouched

\* c, n, p, P, o and F6 open a dialog.
OpenDialog(kind) ==
  /\ AtMenu
  /\ \/ kind = "Message" /\ "commit" \in Keys
     \/ kind = "Branch" /\ "review" \in Keys /\ repo.context # 0 /\ repo.page = "Branches"
     \/ kind = "Remote" /\ "review" \in Keys /\ repo.context # 0 /\ repo.page = "Remotes"
     \/ kind = "Operations" /\ "operation" \in Keys
  /\ dialog' = [NoDialog EXCEPT !.kind = kind]
  /\ IF kind = "Operations" THEN Fits(1) /\ wire' = Append(wire, Message("Operations", 0, 0))
     ELSE UNCHANGED wire
  /\ UNCHANGED <<repo, intents, next, reconnect, gitHistory>> /\ Untouched

\* z: leaves the operation's terminal for the changes.
LeaveOperation ==
  /\ focused /\ dialog = NoDialog
  /\ focused' = FALSE
  /\ LET r == [repo EXCEPT !.page = "Changes"] IN
       IF HasRoom(intents) /\ Fits(1) THEN Ask(r, intents, wire, Refreshes(r), 0)
       ELSE repo' = r /\ UNCHANGED <<intents, wire, next>>
  /\ UNCHANGED <<gitHost, gitWorker, seen, online, polling, dialog, cancelled, executing, messages,
                 known, operation, reconnect, gitHistory>>

\* k: the operation of this client is cancelled.
CancelOperation ==
  /\ "operation" \in Keys /\ focused /\ dialog = NoDialog /\ operation.owner = "ui" /\ Fits(1)
  /\ ~Travelling("Cancel")
  /\ wire' = Append(wire, Message("Cancel", operation.nonce, 0))
  /\ UNCHANGED <<gitHost, gitWorker, gitUi, gitHistory>>

-----------------------------------------------------------------------------
(* Keys in a dialog                                                        *)

\* The message is edited: typed, pasted (git_paste), never emptied here.
Edit ==
  /\ dialog.kind = "Message"
  /\ \E t \in Texts \ {repo.draft} : repo' = [repo EXCEPT !.draft = t]
  /\ UNCHANGED <<wire, intents, next, dialog, reconnect, gitHistory>> /\ Untouched

\* F2 on a message, a reviewed commit, a new branch, a pull or a push.
NextPurpose(kind) ==
  CASE kind = "Message" -> "CommitReview" [] kind \in {"CommitReview", "Branch"} -> "ExecutePlan"
    [] kind = "Remote" -> "ReviewPlan"

Proceed ==
  /\ dialog.kind \in {"Message", "CommitReview", "Branch", "Remote"}
  /\ repo.context # 0
  /\ dialog.kind = "Message" => repo.draft # 0
  /\ dialog.kind = "Remote" => repo.status
  /\ LET purpose == NextPurpose(dialog.kind)
         text == IF dialog.kind = "Message" THEN repo.draft ELSE dialog.text
     IN /\ Question(purpose, text)
        /\ dialog' = [kind |-> "Waiting", nonce |-> next', text |-> text]
        /\ confirmed' = IF purpose = "ExecutePlan" THEN confirmed \union {next'} ELSE confirmed
  /\ UNCHANGED <<reconnect, committed>> /\ Untouched

\* execute_git_plan: plan n, of a commit when it has a text.
Execute(n, text, ms, w) ==
  /\ messages' = IF text = 0 THEN ms ELSE ms \union {[nonce |-> n, text |-> repo.draft]}
  /\ wire' = Append(w, Message("Execute", n, text))
  /\ executing' = executing \union {n}

\* F2 on a plan: it is executed.
ConfirmPlan ==
  /\ dialog.kind = "Plan" /\ Fits(1)
  /\ Execute(dialog.nonce, 0, messages, wire)
  /\ confirmed' = confirmed \union {dialog.nonce}
  /\ dialog' = NoDialog
  /\ UNCHANGED <<gitHost, gitWorker, seen, online, repo, intents, polling, next, cancelled,
                 known, operation, focused, reconnect, committed>>

\* F2 or Enter in the list of operations: attached, after another question
\* when another client has it; an unknown outcome is acknowledged.
ActOnOperation ==
  /\ dialog.kind \in {"Operations", "Takeover", "Reconcile"} /\ Fits(1)
  /\ \E op \in known :
       CASE dialog.kind = "Operations" /\ op.state = "Unknown" ->
              dialog' = [NoDialog EXCEPT !.kind = "Reconcile", !.nonce = op.nonce]
              /\ UNCHANGED wire
         [] dialog.kind = "Operations" /\ op.owner = "other" ->
              dialog' = [NoDialog EXCEPT !.kind = "Takeover", !.nonce = op.nonce]
              /\ UNCHANGED wire
         [] OTHER ->
              /\ dialog.kind = "Operations" \/ dialog.nonce = op.nonce
              /\ dialog' = NoDialog
              /\ wire' = Append(wire,
                   Message(CASE dialog.kind = "Reconcile" -> "Reconcile"
                             [] dialog.kind = "Takeover" -> "Takeover"
                             [] OTHER -> "Attached", op.nonce, 0))
  /\ UNCHANGED <<repo, intents, next, reconnect, gitHistory>> /\ Untouched

\* Esc: what is waited for is given up.
Escape ==
  /\ dialog # NoDialog
  /\ dialog' = NoDialog
  /\ IF dialog.kind = "Waiting"
       THEN cancelled' = cancelled \union {dialog.nonce} /\ confirmed' = confirmed \ {dialog.nonce}
     ELSE UNCHANGED <<cancelled, confirmed>>
  /\ UNCHANGED <<gitHost, gitWorker, wire, seen, online, repo, intents, polling, next, executing,
                 messages, known, operation, focused, reconnect, committed>>

-----------------------------------------------------------------------------
(* The worker and the host                                                 *)

Unanswered == {k \in DOMAIN wire : wire[k].answer = "none"}
FirstUnanswered == CHOOSE k \in Unanswered : \A l \in Unanswered : k <= l

AnswerGit(k, w, answer, state, ops) ==
  /\ gitWorker' = w
  /\ wire' = [wire EXCEPT ![k] = [@ EXCEPT !.answer = answer, !.from = w.host, !.state = state,
                                           !.ops = ops]]

AnswerRefused(k, failed) ==
  /\ AnswerGit(k, [gitWorker EXCEPT !.failed = @ \/ failed], "refused", "none", {})
  /\ UNCHANGED <<gitHost, committed>>

\* What was carried out is answered, or the answer does not come in time.
AnswerOrLose(k, state, ops) ==
  \/ AnswerGit(k, gitWorker, "ok", state, ops)
  \/ AnswerGit(k, [gitWorker EXCEPT !.failed = TRUE], "refused", "none", {})

\* The operation as it is after the request of message m.
Operated(m, op) ==
  CASE m.tag \in {"Attached", "Takeover"} /\ op.state = "Running" -> [op EXCEPT !.owner = "ui"]
    [] m.tag = "Reconcile" -> [op EXCEPT !.state = "Acknowledged"]
    [] OTHER -> op

\* A job is done or has failed by the time it is asked for, or it has not
\* ended.  Executing a plan again answers with its operation.
CarryOut(k, m) ==
  LET op == {o \in gitHost.ops : o.nonce = m.nonce}
  IN CASE m.tag = "Submit" -> AnswerOrLose(k, "pending", {}) /\ UNCHANGED gitHost
       [] m.tag = "Job" ->
            /\ \E state \in {"pending", "ready", "failed"} : AnswerOrLose(k, state, {})
            /\ UNCHANGED gitHost
       [] m.tag = "Execute" ->
            LET new == IF op # {} THEN op
                       ELSE {[nonce |-> m.nonce, text |-> m.text, state |-> "Running", owner |-> "none"]}
            IN gitHost' = [gitHost EXCEPT !.ops = @ \union new] /\ AnswerOrLose(k, "none", new)
       [] m.tag = "Operations" ->
            AnswerOrLose(k, "none", gitHost.ops) /\ UNCHANGED gitHost
       [] OTHER ->
            \E o \in op :
              /\ m.tag = "Attached" => o.owner # "other"
              /\ m.tag = "Cancel" => o.owner = "ui"
              /\ gitHost' = [gitHost EXCEPT !.ops = (@ \ {o}) \union {Operated(m, o)}]
              /\ AnswerOrLose(k, "none", {Operated(m, o)})

\* A connection made again needs no earlier one; any other request goes to
\* the host it was made for, or is refused by it.
Serve ==
  /\ Unanswered # {}
  /\ LET k == FirstUnanswered
         m == wire[k]
     IN IF m.tag = "Connect"
          THEN /\ AnswerGit(k, [host |-> gitHost.id, failed |-> FALSE], "ok", "none", {})
               /\ UNCHANGED <<gitHost, committed>>
        ELSE IF m.host # gitWorker.host \/ gitWorker.failed THEN AnswerRefused(k, FALSE)
        ELSE IF gitHost.id # gitWorker.host THEN AnswerRefused(k, TRUE)
        ELSE \/ CarryOut(k, m) /\ UNCHANGED committed
             \/ AnswerRefused(k, FALSE)
  /\ UNCHANGED <<gitUi, confirmed>>

\* An operation ends: well, badly, or nobody knows.
EndOperation ==
  /\ \E o \in gitHost.ops, state \in {"Succeeded", "Failed", "Unknown"} :
       /\ o.state = "Running"
       /\ gitHost' = [gitHost EXCEPT !.ops = (@ \ {o}) \union {[o EXCEPT !.state = state]}]
       /\ committed' = IF state = "Succeeded" /\ o.text # 0 THEN committed \union {o.text}
                       ELSE committed
  /\ UNCHANGED <<gitWorker, wire, gitUi, confirmed>>

\* Another client attaches the operation, or takes it over.
OperationTakenOver ==
  /\ "operation" \in Keys
  /\ \E o \in gitHost.ops :
       /\ o.owner # "other" /\ o.state = "Running"
       /\ gitHost' = [gitHost EXCEPT !.ops = (@ \ {o}) \union {[o EXCEPT !.owner = "other"]}]
  /\ UNCHANGED <<gitWorker, wire, gitUi, gitHistory>>

\* What a later host says of an operation it finds recorded as running.
Orphaned(o) == [o EXCEPT !.state = IF @ = "Running" THEN "Unknown" ELSE @, !.owner = "none"]

HostReplaced ==
  /\ gitHost.id < MaxGitHosts
  /\ gitHost' = [id |-> gitHost.id + 1, ops |-> {Orphaned(o) : o \in gitHost.ops}]
  /\ UNCHANGED <<gitWorker, wire, gitUi, gitHistory>>

-----------------------------------------------------------------------------
(* Answers                                                                 *)

Reply == Head(wire)
Rest == Tail(wire)
Arrived(tags) == wire # << >> /\ Reply.answer # "none" /\ Reply.tag \in tags

\* The question this answers, which the UI may have dropped.
Asked == {i \in intents : i.nonce = Reply.nonce /\ i.job = (Reply.tag = "Job")}
Waiting(n) == dialog.kind = "Waiting" /\ dialog.nonce = n
PollEnds == polling' = IF Reply.tag = "Job" THEN polling \ {Reply.nonce} ELSE polling
Settled(r) == [r EXCEPT !.busy = @ - 1]

\* finish_git_error: the question failed.
Fails(i) ==
  /\ intents' = intents \ {i} /\ cancelled' = cancelled \ {i.nonce}
  /\ repo' = [Settled(repo) EXCEPT !.error = TRUE]
  /\ dialog' = IF ~Waiting(i.nonce) THEN dialog
               ELSE [NoDialog EXCEPT !.kind = IF i.purpose = "CommitReview" THEN "Message" ELSE "none"]

Tags == {"Submit", "Job", "Execute", "Attached", "Takeover", "Snapshot", "Operations", "Cancel",
         "Reconcile"}

\* git_rpc_error: any refusal takes the UI offline; the question, if it is
\* still waited for, has failed.
RequestFails ==
  /\ Arrived(Tags)
  /\ Reply.answer = "refused"
  /\ online' = FALSE /\ wire' = Rest /\ PollEnds
  /\ IF Reply.tag \in {"Submit", "Job"} /\ Asked # {}
       THEN \E i \in Asked : Fails(i)
     ELSE UNCHANGED <<intents, cancelled, repo, dialog>>
  /\ UNCHANGED <<gitHost, gitWorker, seen, next, executing, messages, known, operation, focused,
                 reconnect, gitHistory>>

\* git_host_changed: what belonged to another host is forgotten; the page and
\* the draft stay.
HostChanged == Reply.from # seen

GitConnected ==
  /\ Arrived({"Connect"})
  /\ seen' = Reply.from /\ reconnect' = FALSE
  /\ LET r == IF HostChanged THEN [repo EXCEPT !.context = 0, !.status = FALSE, !.busy = 0,
                                               !.error = TRUE]
              ELSE repo
         is == IF HostChanged THEN {} ELSE intents
     IN IF reconnect /\ HasRoom(is)
          THEN Ask(r, is, Rest, "Open", 0) /\ online' = TRUE
        ELSE /\ repo' = r /\ intents' = is /\ wire' = Rest /\ online' = ~reconnect
             /\ UNCHANGED next
  /\ IF HostChanged
       THEN /\ polling' = {} /\ cancelled' = {} /\ executing' = {} /\ messages' = {} /\ known' = {}
            /\ operation' = IF operation = NoOperation THEN operation
                            ELSE [operation EXCEPT !.state = "Unknown"]
     ELSE UNCHANGED <<polling, cancelled, executing, messages, known, operation>>
  /\ UNCHANGED <<gitHost, gitWorker, dialog, focused, gitHistory>>

\* An answer about a job that is still waited for, whose state is among these.
Answered(states) ==
  Arrived({"Submit", "Job"}) /\ Reply.answer = "ok" /\ Reply.state \in states /\ Asked # {}

\* What the answers about a question leave alone.  (None comes for a question
\* that was dropped: a new connection refuses the requests made before it.)
OthersKept == UNCHANGED <<gitHost, gitWorker, seen, known, operation, focused, reconnect, gitHistory>>

StillPending ==
  /\ Answered({"pending"})
  /\ intents' = {IF i \in Asked THEN [i EXCEPT !.job = TRUE] ELSE i : i \in intents}
  /\ online' = TRUE /\ wire' = Rest /\ PollEnds
  /\ UNCHANGED <<repo, next, dialog, cancelled, executing, messages>> /\ OthersKept

\* A later question of the topic, or another context, came in between.
Stale(i) ==
  \/ i.purpose \in Topics /\ repo.latest[i.purpose] # i.nonce
  \/ i.context # 0 /\ i.context # repo.context

SettledStale(r) == Settled(r)

StaleAnswer ==
  /\ Answered({"ready", "failed"})
  /\ \E i \in Asked : /\ Stale(i)
                      /\ intents' = intents \ {i} /\ cancelled' = cancelled \ {i.nonce}
  /\ repo' = SettledStale(repo)
  /\ online' = TRUE /\ wire' = Rest /\ PollEnds
  /\ UNCHANGED <<next, dialog, executing, messages>> /\ OthersKept

JobFails ==
  /\ Answered({"failed"})
  /\ \E i \in Asked : ~Stale(i) /\ Fails(i)
  /\ online' = TRUE /\ wire' = Rest /\ PollEnds
  /\ UNCHANGED <<next, executing, messages>> /\ OthersKept

GivenUpMutant(i) == FALSE       \* mutant: what Esc gave up goes on
GivenUp(i) == i.nonce \in cancelled

AnswerGivenUp ==
  /\ Answered({"ready"})
  /\ \E i \in Asked : /\ ~Stale(i) /\ GivenUp(i)
                      /\ intents' = intents \ {i} /\ cancelled' = cancelled \ {i.nonce}
  /\ repo' = Settled(repo)
  /\ online' = TRUE /\ wire' = Rest /\ PollEnds
  /\ UNCHANGED <<next, dialog, executing, messages>> /\ OthersKept

\* The question whose result is taken.
Taken(purposes) ==
  {i \in Asked : ~Stale(i) /\ ~GivenUp(i) /\ i.purpose \in purposes}
Fine == [Settled(repo) EXCEPT !.error = FALSE]

\* A result that asks again: an opened repository for its status, a status
\* seen on the page of differences for these.
ReadOn(i, r, more) ==
  IF more = "none" THEN repo' = r /\ intents' = intents \ {i} /\ wire' = Rest /\ online' = TRUE
                        /\ UNCHANGED next
  ELSE IF HasRoom(intents \ {i})
    THEN Ask(r, intents \ {i}, Rest, more, 0) /\ online' = TRUE
  ELSE /\ repo' = r /\ intents' = intents \ {i} /\ wire' = Rest /\ online' = FALSE
       /\ UNCHANGED next

ReadArrives ==
  /\ Answered({"ready"})
  /\ \E i \in Taken(Topics) :
       CASE i.purpose = "Open" ->
              ReadOn(i, [Fine EXCEPT !.context = i.nonce, !.status = FALSE], "Status")
         [] i.purpose = "Status" ->
              ReadOn(i, [Fine EXCEPT !.status = TRUE], IF repo.page = "Diff" THEN "Diff" ELSE "none")
         [] OTHER -> ReadOn(i, Fine, "none")
  /\ PollEnds
  /\ UNCHANGED <<dialog, cancelled, executing, messages>> /\ OthersKept

\* A review or a plan opens its dialog in place of the one that waits for it.
ReviewArrives ==
  /\ Answered({"ready"})
  /\ \E i \in Taken({"CommitReview", "ReviewPlan"}) :
       /\ intents' = intents \ {i}
       /\ dialog' = IF ~Waiting(i.nonce) THEN dialog
                    ELSE IF i.purpose = "ReviewPlan"
                      THEN [kind |-> "Plan", nonce |-> i.nonce, text |-> 0]
                    ELSE [kind |-> "CommitReview", nonce |-> 0, text |-> i.text]
  /\ repo' = Fine /\ online' = TRUE /\ wire' = Rest /\ PollEnds
  /\ UNCHANGED <<next, cancelled, executing, messages>> /\ OthersKept

\* A plan confirmed before it was made is executed at once.
PlanArrives ==
  /\ Answered({"ready"})
  /\ \E i \in Taken({"ExecutePlan"}) :
       /\ intents' = intents \ {i}
       /\ Execute(i.nonce, i.text, messages, Rest)
       /\ dialog' = IF Waiting(i.nonce) THEN NoDialog ELSE dialog
  /\ repo' = Fine /\ online' = TRUE /\ PollEnds
  /\ UNCHANGED <<next, cancelled>> /\ OthersKept

-----------------------------------------------------------------------------
(* Answers about operations                                                *)

SentFor(o) == {m \in messages : m.nonce = o.nonce}
Ended(o) == o.state \in {"Succeeded", "Failed"}

Clears(o, m) == o.state = "Succeeded" /\ m.text = repo.draft

\* note_git_result: the draft of what was committed is cleared.
Note(ops) ==
  LET done == UNION {SentFor(o) : o \in {x \in ops : Ended(x)}}
      clears == \E o \in ops : \E m \in SentFor(o) : Clears(o, m)
  IN messages' = messages \ done /\ repo' = [repo EXCEPT !.draft = IF clears THEN 0 ELSE @]

ToldOf(tags) == Arrived(tags) /\ Reply.answer = "ok"
OthersSame == UNCHANGED <<gitHost, gitWorker, seen, intents, polling, next, dialog, cancelled,
                          reconnect, gitHistory>>

\* An executed plan is attached.
Executed ==
  /\ ToldOf({"Execute"})
  /\ executing' = executing \ {Reply.nonce}
  /\ \E o \in Reply.ops : operation' = o /\ wire' = Append(Rest, Message("Attached", o.nonce, 0))
  /\ online' = TRUE
  /\ UNCHANGED <<repo, messages, known, focused>> /\ OthersSame

Attached ==
  /\ ToldOf({"Attached", "Takeover"})
  /\ \E o \in Reply.ops : operation' = o
  /\ focused' = TRUE /\ online' = TRUE /\ wire' = Rest
  /\ UNCHANGED <<repo, executing, messages, known>> /\ OthersSame

\* A screen is taken of the operation shown; an updated one is noted in any case.
OperationRead ==
  /\ ToldOf({"Snapshot", "Cancel", "Reconcile"})
  /\ \E o \in Reply.ops :
       /\ IF Reply.tag = "Snapshot" /\ operation.nonce # o.nonce THEN UNCHANGED <<repo, messages>>
          ELSE Note({o})
       /\ operation' = IF operation.nonce = o.nonce THEN o ELSE operation
  /\ online' = TRUE /\ wire' = Rest
  /\ UNCHANGED <<executing, known, focused>> /\ OthersSame

OperationsListed ==
  /\ ToldOf({"Operations"})
  /\ known' = Reply.ops /\ Note(Reply.ops)
  /\ online' = TRUE /\ wire' = Rest
  /\ UNCHANGED <<executing, operation, focused>> /\ OthersSame

-----------------------------------------------------------------------------
Key ==
  \/ Reopen \/ \E p \in Pages : OpenPage(p)
  \/ BackToChanges \/ FileAction \/ ReviewAction
  \/ \E kind \in {"Message", "Branch", "Remote", "Operations"} : OpenDialog(kind)
  \/ LeaveOperation \/ CancelOperation
  \/ Edit \/ Proceed \/ ConfirmPlan \/ ActOnOperation \/ Escape

Tick == AutoRefresh \/ PollJob \/ \E tag \in {"Snapshot", "Operations"} : PollOperation(tag)

GitDrain ==
  \/ RequestFails \/ GitConnected \/ StillPending \/ StaleAnswer \/ JobFails
  \/ AnswerGivenUp \/ ReadArrives \/ ReviewArrives \/ PlanArrives
  \/ Executed \/ Attached \/ OperationRead \/ OperationsListed

GitNext ==
  \/ Key \/ Tick \/ GitDrain
  \/ Serve \/ EndOperation \/ OperationTakenOver \/ HostReplaced

GitSpec == GitInit /\ [][GitNext]_gitVars

-----------------------------------------------------------------------------
(* What is promised                                                        *)

\* Every plan on its way to be executed was confirmed by the user and not
\* given up with Esc while it was being made (git.rs:590, "No additional
\* action was started"), whatever arrives late, is refused or is replaced.
ExecutedWasConfirmed ==
  \A k \in DOMAIN wire : wire[k].tag = "Execute" => wire[k].nonce \in confirmed

\* A commit message is cleared only when a commit of just this text succeeded
\* (note_git_result): not one edited since, nor of a commit that failed.
DraftKept == [][repo.draft # 0 /\ repo'.draft = 0 => repo.draft \in committed]_gitVars

\* The repository counts as busy exactly for the questions not answered: a
\* count left over stops the refreshing of its changes for good.
BusyMatches == repo.busy = Cardinality(intents)

\* A file action is refused with "already pending" (git.rs:1010) only while
\* one is.
FileActionNotBlocked ==
  \A n \in executing : \E k \in DOMAIN wire : wire[k].tag = "Execute" /\ wire[k].nonce = n
=============================================================================
