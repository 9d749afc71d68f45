------------------------------- MODULE UiRuns -------------------------------
(***************************************************************************)
(* The tasks and Runs of the terminal UI (ui/runs.rs, ui/run_log.rs): a    *)
(* key submits a request and remembers, as an intent, where the user was;  *)
(* the host answers with a job, the UI polls the job, and its result is    *)
(* applied only where the intent still fits.  Reviews and starts of tasks, *)
(* approvals that start when they are saved, pages of a result, a followed *)
(* log, baselines, and the key that cancels reads.                         *)
(*                                                                         *)
(* The answers come in the order of the requests; jobs end in any order.   *)
(* One project; the lists of tasks and Runs are data, the attachment of    *)
(* Run terminals is in UiAttach.                                          *)
(***************************************************************************)
EXTENDS Naturals, Sequences, FiniteSets, SequencesExt

CONSTANTS
  Runs, Tasks,
  Digests,            \* what a review of a task may find
  Keys,               \* what the user does in this instance
  LogEnd, LastPage,   \* chunks of a log, last page of a result
  Limit, CancelLimit, \* open intents (16 and 32)
  Nothing,
  MaxNonce, MaxEpoch  \* bounds of the exploration

ASSUME LimitsAssumption == Limit \in Nat /\ CancelLimit \in Nat

VARIABLES
  view,      \* [tab, page, run, epoch, menu, dialog]: where the user is
  approval,  \* the start that waits for its approval, or Nothing
  rpc,       \* [intents, wire, nonce]: requests by nonce, unanswered ones
  jobs,      \* of the host, by the nonce of the request that made them
  raw,       \* [page, history]: of the raw result
  shownLog,  \* the log shown, or Nothing
  baseline,  \* [run, pending]
  online,    \* the runtime's connection state
  consent,   \* history: starts the user confirmed and did not walk away from
  acked,     \* history: approvals of this consent the host saved
  started    \* history: starts submitted

historyVars == <<consent, acked, started>>
shownVars == <<raw, shownLog, baseline>>
vars == <<view, approval, rpc, jobs, raw, shownLog, baseline, online, historyVars>>

Intents == DOMAIN rpc.intents
Start(task, digest, id) == [task |-> task, digest |-> digest, id |-> id]
Request(op, about) == [op |-> op, about |-> about]
Reads == {"list", "info", "log", "review", "raw", "compare"}

\* The user is at v and nothing is under way.
AtRest(v) ==
  /\ view = v /\ approval = Nothing
  /\ rpc = [intents |-> << >>, wire |-> << >>, nonce |-> 0] /\ jobs = << >>
  /\ raw = [page |-> Nothing, history |-> << >>] /\ shownLog = Nothing
  /\ baseline = [run |-> Nothing, pending |-> Nothing]
  /\ online = TRUE
  /\ consent = {} /\ acked = {} /\ started = {}

Home == [tab |-> "runs", page |-> "list", run |-> Nothing, epoch |-> 0,
         menu |-> TRUE, dialog |-> Nothing]

Init == AtRest(Home)

-----------------------------------------------------------------------------
(* Requests                                                                *)

\* run_submit: r with an intent for the request, as the user now looks at v;
\* a full queue refuses it.
HasRoom(r, request) ==
  Cardinality(DOMAIN r.intents) < IF request.op = "cancel" THEN CancelLimit ELSE Limit

Intent(v, request) ==
  [request |-> request, run |-> v.run, epoch |-> v.epoch, tab |-> v.tab,
   job |-> 0, polling |-> FALSE, cancelled |-> FALSE]

Submitted(r, v, request) ==
  IF ~HasRoom(r, request) THEN r
  ELSE LET n == r.nonce + 1 IN
       [intents |-> [m \in DOMAIN r.intents \union {n} |->
                       IF m = n THEN Intent(v, request) ELSE r.intents[m]],
        wire |-> Append(r.wire, n), nonce |-> n]

CanSend == rpc.nonce < MaxNonce

\* The user is now at v and asks for this.
Ask(v, request) == view' = v /\ rpc' = Submitted(rpc, v, request) /\ CanSend

Without(r, n) ==
  [r EXCEPT !.intents = [m \in DOMAIN r.intents \ {n} |-> r.intents[m]]]

Updated(r, n, i) == [r EXCEPT !.intents[n] = i]
WithJob(i, j) == [i EXCEPT !.job = j, !.polling = FALSE]

\* Walking away from what was confirmed.
Withdraw == consent' = {} /\ acked' = {} /\ UNCHANGED started

Moved(v) == [v EXCEPT !.epoch = @ + 1]
Showing(v, r, page) == [v EXCEPT !.run = r, !.page = page]
CanMove == view.epoch < MaxEpoch

-----------------------------------------------------------------------------
(* Keys.  At the menu, without a dialog, in the content pane.              *)

AtMenu(key) == key \in Keys /\ view.menu /\ view.dialog = Nothing
InRuns(key) == AtMenu(key) /\ view.tab = "runs"

\* 3 and 4: the tabs of tasks and of Runs.
ChooseTab(tab) ==
  /\ AtMenu("tab") /\ CanMove
  /\ Ask(Moved([view EXCEPT !.tab = tab]), Request("list", Nothing))
  /\ Withdraw
  /\ UNCHANGED <<approval, jobs, shownVars, online>>

\* The other tabs and the focus: invalidate_run_navigation.
NavigateAway ==
  /\ AtMenu("away") /\ CanMove
  /\ view' = Moved([view EXCEPT !.tab = "project"])
  /\ approval' = Nothing /\ Withdraw
  /\ UNCHANGED <<rpc, jobs, shownVars, online>>

\* Enter on a task, r on a Run.
ReviewTask(task) ==
  /\ AtMenu("review") /\ view.tab \in {"tasks", "runs"}
  /\ Ask(view, Request("review", task))
  /\ UNCHANGED <<approval, jobs, shownVars, online, historyVars>>

\* A form, a search, a confirmation...
OpenDialog ==
  /\ AtMenu("form")
  /\ view' = [view EXCEPT !.dialog = Request("form", Nothing)]
  /\ UNCHANGED <<approval, rpc, jobs, shownVars, online, historyVars>>

\* Moving the selection; on a page of text, scrolling it.
ScrollRuns ==
  /\ AtMenu("scroll") /\ view.tab \in {"tasks", "runs"}
  /\ approval' = Nothing /\ Withdraw
  /\ shownLog' = IF shownLog # Nothing /\ view.tab = "runs" /\ view.page # "list"
              THEN [shownLog EXCEPT !.follow = FALSE] ELSE shownLog
  /\ UNCHANGED <<view, rpc, jobs, raw, baseline, online>>

OpenRun(r) ==
  /\ InRuns("open") /\ view.page = "list" /\ CanMove
  /\ Ask(Moved(Showing(view, r, "detail")), Request("info", r))
  /\ Withdraw
  /\ UNCHANGED <<approval, jobs, shownVars, online>>

BackToList ==
  /\ InRuns("open") /\ CanMove
  /\ Ask(Moved(Showing(view, Nothing, "list")), Request("list", Nothing))
  /\ Withdraw
  /\ UNCHANGED <<approval, jobs, shownVars, online>>

\* v: the raw result of the Run.
OpenRaw ==
  /\ InRuns("raw") /\ view.run # Nothing /\ CanMove
  /\ raw' = [page |-> Nothing, history |-> << >>]
  /\ Ask(Moved([view EXCEPT !.page = "raw"]), Request("raw", [run |-> view.run, page |-> 0]))
  /\ Withdraw
  /\ UNCHANGED <<approval, jobs, shownLog, baseline, online>>

PageRequested ==
  \E n \in Intents : LET i == rpc.intents[n] IN
    i.epoch = view.epoch /\ i.run = view.run /\ i.request.op = "raw"

\* ] and [: one page at a time.
TurnPage(page) ==
  /\ InRuns("raw") /\ view.page = "raw" /\ view.run # Nothing /\ raw.page # Nothing
  /\ ~PageRequested
  /\ Ask(view, Request("raw", [run |-> view.run, page |-> page]))
  /\ UNCHANGED <<approval, jobs, shownVars, online, historyVars>>

NextPage == raw.page # Nothing /\ raw.page.page < LastPage /\ TurnPage(raw.page.page + 1)
PreviousPage == raw.history # << >> /\ TurnPage(Last(raw.history))

\* b: pin this Run and compare others with it; P pins or unpins.
Baseline ==
  /\ InRuns("baseline") /\ view.run # Nothing /\ CanSend
  /\ LET r == Submitted(rpc, view, Request("pin", [run |-> view.run, pinned |-> TRUE])) IN
       /\ rpc' = r
       /\ baseline' = IF r = rpc THEN baseline ELSE [baseline EXCEPT !.pending = view.run]
  /\ UNCHANGED <<view, approval, jobs, raw, shownLog, online, historyVars>>

Pin(pinned) ==
  /\ InRuns("baseline") /\ view.run # Nothing
  /\ Ask(view, Request("pin", [run |-> view.run, pinned |-> pinned]))
  /\ UNCHANGED <<approval, jobs, shownVars, online, historyVars>>

Compare ==
  /\ InRuns("baseline") /\ view.run # Nothing /\ baseline.run # Nothing
  /\ Ask([view EXCEPT !.page = "comparison"], Request("compare", [base |-> baseline.run, run |-> view.run]))
  /\ UNCHANGED <<approval, jobs, shownVars, online, historyVars>>

\* l: the log from its beginning, followed.  f stops following and resumes.
ReadLog(l) == Request("log", [run |-> l.run, offset |-> l.next])

OpenLog ==
  /\ InRuns("log") /\ view.run # Nothing /\ CanMove
  /\ shownLog' = [run |-> view.run, next |-> 0, follow |-> TRUE, shown |-> << >>]
  /\ Ask(Moved([view EXCEPT !.page = "log"]), ReadLog(shownLog'))
  /\ Withdraw
  /\ UNCHANGED <<approval, jobs, raw, baseline, online>>

Follow ==
  /\ InRuns("log") /\ view.page = "log" /\ shownLog # Nothing
  /\ shownLog' = [shownLog EXCEPT !.follow = ~@]
  /\ \/ shownLog'.follow /\ Ask(view, ReadLog(shownLog))
     \/ ~shownLog'.follow /\ UNCHANGED <<view, rpc>>
  /\ UNCHANGED <<approval, jobs, raw, baseline, online, historyVars>>

\* x: no result of a pending read is wanted any more.  The jobs already known
\* are cancelled, in any order, as far as the queue has room.
CancelReads ==
  /\ AtMenu("cancel") /\ view.tab \in {"tasks", "runs"} /\ CanMove
  /\ view' = Moved(view)
  /\ LET reads == {n \in Intents : rpc.intents[n].request.op \in Reads}
         known == {n \in reads : rpc.intents[n].job # 0}
         total == Cardinality(known)
         CancelOf(n) == Request("cancel", [job |-> rpc.intents[n].job, of |-> rpc.intents[n].request])
     IN /\ rpc.nonce + total <= MaxNonce
        /\ \E sent \in 0..CancelLimit :
             /\ sent <= total /\ (sent < total => Cardinality(Intents) + sent >= CancelLimit)
             /\ sent > 0 => Cardinality(Intents) + sent <= CancelLimit
             /\ \E of \in Injection(1..sent, known) :
                  rpc' = [intents |->
                            [n \in Intents \union (rpc.nonce + 1)..(rpc.nonce + sent) |->
                               IF n \in Intents
                                 THEN [rpc.intents[n] EXCEPT !.cancelled = @ \/ n \in reads]
                                 ELSE Intent(view', CancelOf(of[n - rpc.nonce]))],
                          wire |-> rpc.wire \o [k \in 1..sent |-> rpc.nonce + k],
                          nonce |-> rpc.nonce + sent]
             /\ shownLog' = IF shownLog # Nothing /\ sent = total
                            THEN [shownLog EXCEPT !.follow = FALSE] ELSE shownLog
  /\ Withdraw
  /\ UNCHANGED <<approval, jobs, raw, baseline, online>>

\* Ctrl+g, and a terminal that takes the screen.
ToggleMenu ==
  /\ "terminal" \in Keys /\ view.dialog = Nothing
  /\ view' = [view EXCEPT !.menu = ~@]
  /\ UNCHANGED <<approval, rpc, jobs, shownVars, online, historyVars>>

\* tick_runs: with nothing pending, the page at hand is refreshed.
Refresh ==
  /\ "refresh" \in Keys /\ online /\ Intents = {} /\ view.dialog = Nothing
  /\ \/ view.tab = "tasks" /\ Ask(view, Request("list", Nothing))
     \/ view.tab = "runs" /\ view.page = "list" /\ Ask(view, Request("list", Nothing))
     \/ /\ view.tab = "runs" /\ view.page # "list" /\ view.run # Nothing
        /\ Ask(view, Request("info", view.run))
  /\ UNCHANGED <<approval, jobs, shownVars, online, historyVars>>

-----------------------------------------------------------------------------
(* Dialogs                                                                 *)

InDialog(kind) == view.dialog # Nothing /\ view.dialog.op = kind

\* F2 on a review starts what was reviewed, after an approval when it needs
\* one; what is refused leaves the dialog open.
ConfirmReview ==
  /\ InDialog("review") /\ CanSend
  /\ LET seen == view.dialog.about
         start == Start(seen.task, seen.digest, rpc.nonce + 1)
         request == IF seen.approved THEN Request("start", start)
                    ELSE Request("approve", [task |-> seen.task, digest |-> seen.digest])
     IN /\ rpc' = Submitted(rpc, view, request)
        /\ approval' = IF seen.approved THEN approval ELSE start
        /\ view' = IF rpc' = rpc THEN view ELSE [view EXCEPT !.dialog = Nothing]
        /\ consent' = consent \union {start}
        /\ acked' = IF seen.approved THEN acked \union {[task |-> seen.task, digest |-> seen.digest]}
                    ELSE acked
        /\ started' = IF seen.approved /\ rpc' # rpc THEN started \union {start} ELSE started
  /\ UNCHANGED <<jobs, shownVars, online>>

SaveForm ==
  /\ InDialog("form") /\ CanSend
  /\ rpc' = Submitted(rpc, view, Request("save", Nothing))
  /\ view' = IF rpc' = rpc THEN view ELSE [view EXCEPT !.dialog = Nothing]
  /\ UNCHANGED <<approval, jobs, shownVars, online, historyVars>>

Escape ==
  /\ view.dialog # Nothing /\ CanMove
  /\ view' = Moved([view EXCEPT !.dialog = Nothing])
  /\ approval' = Nothing /\ Withdraw
  /\ UNCHANGED <<rpc, jobs, shownVars, online>>

-----------------------------------------------------------------------------
(* The host and its answers                                                *)

EndJob(j) ==
  /\ j \in DOMAIN jobs /\ jobs[j] = "pending"
  /\ \E outcome \in {"complete"} \union IF "error" \in Keys THEN {"failed"} ELSE {} :
       jobs' = [jobs EXCEPT ![j] = outcome]
  /\ UNCHANGED <<view, approval, rpc, shownVars, online, historyVars>>

\* tick_runs asks for every known job that is not being asked for.
PollJob(n) ==
  /\ n \in Intents /\ rpc.intents[n].job # 0 /\ ~rpc.intents[n].polling
  /\ rpc' = Updated([rpc EXCEPT !.wire = Append(@, n)], n, [rpc.intents[n] EXCEPT !.polling = TRUE])
  /\ UNCHANGED <<view, approval, jobs, shownVars, online, historyVars>>

AnswerCame(n) == rpc.wire # << >> /\ n = Head(rpc.wire)
Popped == [rpc EXCEPT !.wire = Tail(@)]
Fits(i) == i.epoch = view.epoch /\ i.tab = view.tab
Served(i) == IF i.request.op = "cancel" THEN i.request.about.of ELSE i.request

\* What a refused or failed request of the user's no longer waits for.
GivenUp(i) ==
  /\ baseline' = IF i.request.op = "pin" THEN [baseline EXCEPT !.pending = Nothing] ELSE baseline
  /\ approval' = IF i.request.op = "approve" THEN Nothing ELSE approval

\* Whether jobs, requests, and what an answer leads to (to read the registry,
\* to look at a terminal) may fail.
MayFail == "error" \in Keys

\* run_rpc_error.  The host refuses to cancel what has ended.
RequestFails(n) ==
  /\ AnswerCame(n) /\ n \in Intents
  /\ LET i == rpc.intents[n] IN
       /\ \/ MayFail
          \/ i.request.op = "cancel" /\ i.job = 0 /\ jobs[i.request.about.job] # "pending"
       /\ GivenUp(i)
  /\ rpc' = Without(Popped, n) /\ online' = FALSE
  /\ UNCHANGED <<view, jobs, raw, shownLog, historyVars>>

\* The answer to a request the UI has forgotten with its host.
ForgottenFails(n) ==
  /\ AnswerCame(n) /\ n \notin Intents
  /\ rpc' = Popped /\ online' = FALSE
  /\ UNCHANGED <<view, approval, jobs, shownVars, historyVars>>

\* A pending job: the UI asks again later, or cancels what is not wanted.
StillPending(n, j) ==
  LET i == rpc.intents[n] IN
    IF i.cancelled
      THEN /\ CanSend
           /\ rpc' = Submitted(Without(Popped, n), view, Request("cancel", [job |-> j, of |-> i.request]))
           /\ online' = (rpc'.nonce # rpc.nonce)
      ELSE rpc' = Updated(Popped, n, WithJob(i, j)) /\ online' = TRUE

Accepted(n) ==
  /\ AnswerCame(n) /\ n \in Intents /\ rpc.intents[n].job = 0
  /\ LET i == rpc.intents[n] IN
       \/ /\ i.request.op # "cancel"
          /\ jobs' = jobs @@ (n :> "pending") /\ StillPending(n, n)
       \/ /\ i.request.op = "cancel" /\ jobs[i.request.about.job] = "pending"
          /\ UNCHANGED jobs /\ StillPending(n, i.request.about.job)
       \/ /\ MayFail /\ i.request.op = "start" /\ Fits(i)    \* its terminal cannot be asked for
          /\ jobs' = jobs @@ (n :> "pending") /\ rpc' = Without(Popped, n) /\ online' = FALSE
  /\ UNCHANGED <<view, approval, shownVars, historyVars>>

Polled(n, state) ==
  /\ AnswerCame(n) /\ n \in Intents /\ rpc.intents[n].job # 0
  /\ jobs[rpc.intents[n].job] = state

PollPending(n) ==
  /\ Polled(n, "pending") /\ StillPending(n, rpc.intents[n].job)
  /\ UNCHANGED <<view, approval, jobs, shownVars, historyVars>>

JobFailed(n) ==
  /\ Polled(n, "failed") /\ GivenUp(rpc.intents[n])
  /\ rpc' = Without(Popped, n) /\ online' = TRUE
  /\ UNCHANGED <<view, jobs, raw, shownLog, historyVars>>

-----------------------------------------------------------------------------
(* Results                                                                 *)

Complete(n, op) == Polled(n, "complete") /\ Served(rpc.intents[n]).op = op
Result(n) == Served(rpc.intents[n]).about
Done(n) == Without(Popped, n)

ReviewArrives(n) ==
  /\ Complete(n, "review")
  /\ IF Fits(rpc.intents[n]) /\ view.menu /\ view.dialog = Nothing
       THEN \E digest \in Digests, approved \in BOOLEAN :
              view' = [view EXCEPT !.dialog =
                Request("review", [task |-> Result(n), digest |-> digest, approved |-> approved])]
       ELSE view' = view
  /\ rpc' = Done(n) /\ online' = TRUE
  /\ UNCHANGED <<approval, jobs, shownVars, historyVars>>

\* Mutant: wherever the user is by now.
StartDueMutant(n) ==
  /\ approval # Nothing
  /\ [task |-> approval.task, digest |-> approval.digest] = Result(n)
  /\ view.menu /\ view.dialog = Nothing

\* The start that waits for this approval, if the user is still where he
\* confirmed it.  Every approval consumes the start that waits, unless the
\* registry cannot be read again before (reload).
StartDue(n) ==
  /\ approval # Nothing
  /\ [task |-> approval.task, digest |-> approval.digest] = Result(n)
  /\ Fits(rpc.intents[n]) /\ view.menu /\ view.dialog = Nothing

ApprovedArrives(n) ==
  /\ Complete(n, "approve")
  /\ acked' = acked \union {Result(n)}
  /\ \/ /\ approval' = Nothing
        /\ IF StartDue(n)
             THEN /\ CanSend /\ rpc' = Submitted(Done(n), view, Request("start", approval))
                  /\ online' = (rpc'.nonce # rpc.nonce)
                  /\ started' = IF online' THEN started \union {approval} ELSE started
             ELSE rpc' = Done(n) /\ online' = TRUE /\ UNCHANGED started
     \/ MayFail /\ rpc' = Done(n) /\ online' = FALSE /\ UNCHANGED <<approval, started>>
  /\ UNCHANGED <<view, jobs, shownVars, consent>>

StartedArrives(n) ==
  /\ Complete(n, "start")
  /\ IF Fits(rpc.intents[n])
       THEN \E r \in Runs : view' = Showing([view EXCEPT !.tab = "runs"], r, "detail")
       ELSE view' = view
  /\ rpc' = Done(n) /\ online' \in {TRUE, ~(MayFail /\ Fits(rpc.intents[n]))}
  /\ UNCHANGED <<approval, jobs, shownVars, historyVars>>

\* On the page of a followed log, fresh details of the Run read on.
InfoArrives(n) ==
  /\ Complete(n, "info")
  /\ LET i == rpc.intents[n] IN
     IF /\ Fits(i) /\ i.run = view.run /\ view.page = "log"
        /\ shownLog # Nothing /\ shownLog.follow /\ shownLog.run = Result(n)
       THEN CanSend /\ rpc' = Submitted(Done(n), view, ReadLog(shownLog)) /\ online' = (rpc'.nonce # rpc.nonce)
       ELSE rpc' = Done(n) /\ online' = TRUE
  /\ UNCHANGED <<view, approval, jobs, shownVars, historyVars>>

ContinuesMutant(l, chunk) == l.run = chunk.run    \* mutant: wherever it begins

\* LogView::push refuses a chunk that does not continue what is shown.
Continues(l, chunk) == l.run = chunk.run /\ l.next = chunk.offset

Pushed(l, chunk) ==
  IF chunk.offset < LogEnd
    THEN [l EXCEPT !.next = chunk.offset + 1, !.shown = Append(@, chunk.offset)] ELSE l

LogArrives(n) ==
  /\ Complete(n, "log")
  /\ LET i == rpc.intents[n] chunk == Result(n) IN
     IF ~(Fits(i) /\ i.run = view.run /\ view.page = "log" /\ shownLog # Nothing)
       THEN rpc' = Done(n) /\ online' = TRUE /\ UNCHANGED shownLog
     ELSE IF ~Continues(shownLog, chunk)
       THEN rpc' = Done(n) /\ online' = FALSE /\ UNCHANGED shownLog
     ELSE /\ shownLog' = Pushed(shownLog, chunk)
          /\ IF shownLog'.next < LogEnd /\ shownLog.follow
               THEN /\ CanSend /\ rpc' = Submitted(Done(n), view, ReadLog(shownLog'))
                    /\ online' = (rpc'.nonce # rpc.nonce)
               ELSE rpc' = Done(n) /\ online' = TRUE
  /\ UNCHANGED <<view, approval, jobs, raw, baseline, historyVars>>

\* A page shown; the way back to the first one is kept.
RawShown(page) ==
  [page |-> page,
   history |->
     IF raw.page = Nothing \/ page.page = raw.page.page THEN raw.history
     ELSE IF page.page > raw.page.page THEN Append(raw.history, raw.page.page)
     ELSE IF raw.history # << >> /\ Last(raw.history) = page.page THEN Front(raw.history)
     ELSE raw.history]

RawArrives(n) ==
  /\ Complete(n, "raw")
  /\ raw' = IF Fits(rpc.intents[n]) /\ rpc.intents[n].run = view.run THEN RawShown(Result(n)) ELSE raw
  /\ rpc' = Done(n) /\ online' = TRUE
  /\ UNCHANGED <<view, approval, jobs, shownLog, baseline, historyVars>>

PinnedArrives(n) ==
  /\ Complete(n, "pin")
  /\ baseline' =
       IF baseline.pending # Result(n).run THEN baseline
       ELSE [run |-> IF Result(n).pinned THEN Result(n).run ELSE baseline.run, pending |-> Nothing]
  /\ rpc' = Done(n) /\ online' = TRUE
  /\ UNCHANGED <<view, approval, jobs, raw, shownLog, historyVars>>

\* Lists, comparisons and saved definitions only replace what is drawn.
OtherArrives(n) ==
  /\ \E op \in {"list", "compare", "save"} :
       Complete(n, op) /\ online' \in {TRUE, ~(MayFail /\ op = "save")}
  /\ rpc' = Done(n)
  /\ UNCHANGED <<view, approval, jobs, shownVars, historyVars>>

\* The runtime met another host: run_host_changed.
HostChanged ==
  /\ "restart" \in Keys /\ CanMove
  /\ view' = Moved(view)
  /\ approval' = Nothing /\ rpc' = [rpc EXCEPT !.intents = << >>] /\ jobs' = << >>
  /\ raw' = [raw EXCEPT !.page = Nothing] /\ shownLog' = Nothing
  /\ baseline' = [baseline EXCEPT !.pending = Nothing]
  /\ online' = TRUE /\ Withdraw

-----------------------------------------------------------------------------
Arrives(n) ==
  \/ RequestFails(n) \/ ForgottenFails(n) \/ Accepted(n) \/ PollPending(n) \/ JobFailed(n)
  \/ ReviewArrives(n) \/ ApprovedArrives(n) \/ StartedArrives(n) \/ InfoArrives(n)
  \/ LogArrives(n) \/ RawArrives(n) \/ PinnedArrives(n) \/ OtherArrives(n)

Next ==
  \/ \E tab \in {"tasks", "runs"} : ChooseTab(tab)
  \/ NavigateAway \/ \E t \in Tasks : ReviewTask(t)
  \/ OpenDialog \/ ScrollRuns \/ \E r \in Runs : OpenRun(r)
  \/ BackToList \/ OpenRaw \/ NextPage \/ PreviousPage
  \/ Baseline \/ \E p \in BOOLEAN : Pin(p)
  \/ Compare \/ OpenLog \/ Follow \/ CancelReads \/ ToggleMenu \/ Refresh
  \/ ConfirmReview \/ SaveForm \/ Escape \/ HostChanged
  \/ \E n \in 1..MaxNonce : EndJob(n) \/ PollJob(n) \/ Arrives(n)

Spec == Init /\ [][Next]_vars

-----------------------------------------------------------------------------
(* What is promised                                                        *)

\* A task starts only as the user confirmed it, once, while he has not walked
\* away from the review, and after its approval was saved (runs.rs:517).
StartFollowsConfirmation ==
  [][\A start \in started' \ started :
       /\ start \in consent'
       /\ [task |-> start.task, digest |-> start.digest] \in acked']_vars

\* The way back from a page of a result is the pages before it, one by one,
\* whatever answers were late (runs.rs:1044, 611), but for a page whose
\* reading was cancelled too late.
BackIsThePath ==
  raw.page # Nothing => raw.history = [k \in 1..raw.page.page |-> k - 1]

\* The log on the screen is the log of one Run from its beginning, nothing
\* twice and nothing left out, with several reads under way (run_log.rs:36).
LogIsContiguous ==
  shownLog # Nothing => shownLog.shown = [k \in 1..shownLog.next |-> k - 1]

\* Test late_problem_reply_does_not_replace_a_changed_run_or_pane: a late
\* answer about another Run does not replace what is shown of this one.
LateReplyKeepsRun ==
  view.page = "raw" /\ raw.page # Nothing => raw.page.run = view.run

\* "stale chunk discarded" (run_log.rs:38): a chunk that comes too late is
\* dropped, and nothing else happens to the connection.
StaleChunkOnlyDiscarded ==
  [][\A n \in 1..MaxNonce :
       LogArrives(n) /\ shownLog # Nothing /\ ~Continues(shownLog, Result(n)) => online']_vars

\* What is put together from many replies has no hole and no repetition: the
\* log that is followed, and the pages to go back to (run_log.rs:36,
\* runs.rs:1045).
PiecesFit == LogIsContiguous /\ BackIsThePath
=============================================================================
