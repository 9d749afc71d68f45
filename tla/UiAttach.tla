------------------------------ MODULE UiAttach ------------------------------
(***************************************************************************)
(* How the terminal UI attaches to shells (ui/live.rs) and to the          *)
(* terminals of Runs (ui/runs.rs): it looks at who owns the input, asks    *)
(* before it takes it over, and gives back what it no longer wants when    *)
(* the user has moved on before the answer came.  Another client takes     *)
(* and releases the same terminals at the host (host/actor.rs).            *)
(***************************************************************************)
EXTENDS Naturals, Sequences

CONSTANTS
  Shells, RunTerminals,
  Nothing,
  AskLimit,                \* bounds: of the requests not answered that let the
  MaxOwnerEpoch, MaxMoves  \* user ask more, of input epochs, and of navigation

Sessions == Shells \union RunTerminals

\* Nothing is told apart from every question.
Questions == [kind : {"shell", "run"}, session : Sessions]
             \union [kind : {"other"}, session : {Nothing}]
ASSUME NothingAssumption == Nothing \notin Questions

VARIABLES
  terminal,   \* of the host: [owner, epoch] of every session
  asks, answers,
  moves,      \* RunUi.epoch: how often the user moved
  inflight,   \* [session, moves] of the attachment under way, or Nothing
  question,   \* [kind, session] that is asked about, or Nothing; of another
              \* dialog, Nothing is the session
  active,     \* [session, epoch, owner] of the terminal shown, or Nothing
  menu,       \* whether the controls are shown
  listed,     \* the owners of the shells the UI last saw
  reachable,
  agreed,     \* history: how often the user confirmed to take over a session,
              \* but for the requests the host has carried out
  cut         \* history: whether the attachment under way was cut off: its
              \* follow-up refused, or its question replaced

attachUi == <<moves, inflight, question, active, menu, listed, reachable, cut>>
attachVars == <<terminal, asks, answers, attachUi, agreed>>

Me == "ui"
Other == "other"
Nobody == "nobody"

AttachInit ==
  /\ terminal = [s \in Sessions |-> [owner |-> Nobody, epoch |-> 0]]
  /\ asks = << >> /\ answers = << >>
  /\ moves = 0 /\ inflight = Nothing /\ question = Nothing /\ active = Nothing
  /\ menu = TRUE /\ listed = [s \in Shells |-> Nobody] /\ reachable = TRUE
  /\ agreed = [s \in Sessions |-> 0] /\ cut = FALSE

MayAsk == Len(asks) + Len(answers) < AskLimit

\* One more request: its kind, its session and what it carries.
Send(tag, s, about) == asks' = Append(asks, [tag |-> tag, session |-> s, about |-> about])

Controls == menu /\ question = Nothing
Inflight(s) == [session |-> s, moves |-> moves]

-----------------------------------------------------------------------------
(* Keys                                                                    *)

\* run_attach_review: look at the terminal first, once at a time.  The user's
\* key does it, and the answer to a start, whatever is on the screen then.
AttachRun(s) ==
  /\ s \in RunTerminals /\ MayAsk
  /\ inflight # Inflight(s)
  /\ Send("RunAttachInfo", s, [moves |-> moves])
  /\ inflight' = Inflight(s) /\ cut' = FALSE
  /\ UNCHANGED <<terminal, answers, moves, question, active, menu, listed, reachable, agreed>>

\* review_attach, on what the last list said of the owner.
OpenShell(s) ==
  /\ Controls /\ s \in Shells /\ MayAsk
  /\ IF listed[s] = Other
       THEN question' = [kind |-> "shell", session |-> s] /\ UNCHANGED asks
       ELSE Send("Attached", s, [takeover |-> FALSE]) /\ UNCHANGED question
  /\ UNCHANGED <<terminal, answers, moves, inflight, active, menu, listed, reachable, agreed, cut>>

ConfirmTakeover ==
  /\ question # Nothing /\ question.kind # "other" /\ MayAsk
  /\ agreed' = [agreed EXCEPT ![question.session] = @ + 1]
  /\ \/ /\ question.kind = "shell"
        /\ Send("Attached", question.session, [takeover |-> TRUE]) /\ UNCHANGED <<inflight, cut>>
     \/ /\ question.kind = "run"
        /\ Send("RunAttached", question.session, [takeover |-> TRUE, moves |-> moves])
        /\ inflight' = Inflight(question.session) /\ cut' = FALSE
  /\ question' = Nothing
  /\ UNCHANGED <<terminal, answers, moves, active, menu, listed, reachable>>

\* Dialogs of the Runs (handle_run_dialog) also forget the attachment.
EscapeQuestion ==
  /\ question # Nothing /\ question' = Nothing
  /\ \/ question.kind # "run" /\ UNCHANGED <<moves, inflight>>
     \/ question.kind # "shell" /\ moves < MaxMoves /\ moves' = moves + 1 /\ inflight' = Nothing
  /\ UNCHANGED <<terminal, asks, answers, active, menu, listed, reachable, agreed, cut>>

AskedFor(s) == question = [kind |-> "run", session |-> s] /\ inflight = Inflight(s)

\* Any other dialog takes the place of what is asked: the answer to the plan
\* of a close, for one.
AnotherDialog ==
  /\ question' = [kind |-> "other", session |-> Nothing]
  /\ cut' = (cut \/ \E s \in Sessions : AskedFor(s))
  /\ UNCHANGED <<terminal, asks, answers, moves, inflight, active, menu, listed, reachable, agreed>>

\* Other tabs and projects forget the attachment; other pages only move on.
Move ==
  /\ Controls /\ moves < MaxMoves /\ moves' = moves + 1
  /\ inflight' \in {Nothing, inflight}
  /\ UNCHANGED <<terminal, asks, answers, question, active, menu, listed, reachable, agreed, cut>>

\* Ctrl+g.
ToggleMenu ==
  /\ question = Nothing /\ active # Nothing /\ menu' = ~menu
  /\ UNCHANGED <<terminal, asks, answers, moves, inflight, question, active, listed, reachable, agreed, cut>>

\* The periodic list and snapshot.
Poll ==
  /\ reachable /\ MayAsk /\ \A k \in DOMAIN asks : asks[k].tag # "List"
  /\ \A k \in DOMAIN answers : answers[k].tag # "List"
  /\ Send("List", Nothing, Nothing)
  /\ UNCHANGED <<terminal, answers, attachUi, agreed>>

-----------------------------------------------------------------------------
(* The host                                                                *)

\* Attach: the owner changes, and with it the epoch, unless it is ours.
MayAttach(t, takeover) == t.owner # Other \/ takeover
AfterAttach(t) == IF t.owner = Me THEN t ELSE [owner |-> Me, epoch |-> t.epoch + 1]

ReplyTo(job, ok, value) ==
  /\ asks' = Tail(asks)
  /\ answers' = Append(answers, [tag |-> job.tag, session |-> job.session, about |-> job.about,
                                 ok |-> ok, value |-> value])

ServeTerminal ==
  /\ asks # << >>
  /\ LET job == Head(asks) IN
     \/ job.tag = "List" /\ ReplyTo(job, TRUE, terminal) /\ UNCHANGED <<terminal, agreed>>
     \/ /\ job.tag = "RunAttachInfo"
        /\ ReplyTo(job, TRUE, terminal[job.session]) /\ UNCHANGED <<terminal, agreed>>
     \/ /\ job.tag \in {"Attached", "RunAttached"}
        /\ MayAttach(terminal[job.session], job.about.takeover)
        /\ AfterAttach(terminal[job.session]).epoch <= MaxOwnerEpoch
        /\ terminal' = [terminal EXCEPT ![job.session] = AfterAttach(@)]
        /\ agreed' = IF job.about.takeover THEN [agreed EXCEPT ![job.session] = @ - 1] ELSE agreed
        /\ ReplyTo(job, TRUE, terminal'[job.session])
     \/ /\ job.tag \in {"Attached", "RunAttached"}
        /\ ~MayAttach(terminal[job.session], job.about.takeover)
        /\ ReplyTo(job, FALSE, Nothing) /\ UNCHANGED <<terminal, agreed>>
     \/ /\ job.tag = "Detach" /\ terminal[job.session] = [owner |-> Me, epoch |-> job.about.epoch]
        /\ job.about.epoch < MaxOwnerEpoch
        /\ terminal' = [terminal EXCEPT ![job.session] = [owner |-> Nobody, epoch |-> @.epoch + 1]]
        /\ ReplyTo(job, TRUE, Nothing) /\ UNCHANGED agreed
     \/ /\ job.tag = "Detach" /\ terminal[job.session] # [owner |-> Me, epoch |-> job.about.epoch]
        /\ ReplyTo(job, FALSE, Nothing) /\ UNCHANGED <<terminal, agreed>>
  /\ UNCHANGED attachUi

\* The other client attaches, with a takeover, or detaches.
OtherAttaches(s) ==
  /\ terminal[s].owner # Other /\ terminal[s].epoch < MaxOwnerEpoch
  /\ terminal' = [terminal EXCEPT ![s] = [owner |-> Other, epoch |-> @.epoch + 1]]
  /\ UNCHANGED <<asks, answers, attachUi, agreed>>

OtherDetaches(s) ==
  /\ terminal[s].owner = Other /\ terminal[s].epoch < MaxOwnerEpoch
  /\ terminal' = [terminal EXCEPT ![s] = [owner |-> Nobody, epoch |-> @.epoch + 1]]
  /\ UNCHANGED <<asks, answers, attachUi, agreed>>

-----------------------------------------------------------------------------
(* Answers.  A request that an answer leads to is refused when the queue is *)
(* full: tick takes the UI offline, and what was noted before stays.       *)

NextAnswer(tag) == answers # << >> /\ Head(answers).tag = tag /\ answers' = Tail(answers)

Listed ==
  /\ NextAnswer("List") /\ reachable' = TRUE
  /\ LET now == Head(answers).value IN
       /\ listed' = [s \in Shells |-> now[s].owner]
       /\ active' = IF active = Nothing THEN active
                    ELSE [active EXCEPT !.epoch = now[active.session].epoch,
                                        !.owner = now[active.session].owner]
  /\ UNCHANGED <<terminal, asks, moves, inflight, question, menu, agreed, cut>>

\* Mutant: there was nobody to take it from.
AttachSeenMutant(s) == Send("RunAttached", s, [takeover |-> TRUE, moves |-> moves])

\* run_attach, on what the review has seen: the host decides who owns it now.
AttachSeen(s) == Send("RunAttached", s, [takeover |-> FALSE, moves |-> moves])

\* Another owner is asked about first.  A refused attachment stays noted.
Reviewed ==
  /\ NextAnswer("RunAttachInfo") /\ Head(answers).ok
  /\ LET reply == Head(answers) s == reply.session IN
     IF reply.about.moves # moves
       THEN reachable' = TRUE /\ UNCHANGED <<asks, inflight, question, cut>>
     ELSE IF reply.value.owner = Other
       THEN /\ question' = [kind |-> "run", session |-> s] /\ reachable' = TRUE
            /\ UNCHANGED <<asks, inflight, cut>>
     ELSE /\ UNCHANGED question
          /\ \/ AttachSeen(s) /\ inflight' = Inflight(s) /\ reachable' = TRUE /\ cut' = FALSE
             \/ /\ reachable' = FALSE /\ UNCHANGED <<asks, inflight>>
                /\ cut' = (cut \/ inflight = Inflight(s))
  /\ UNCHANGED <<terminal, moves, active, menu, listed, agreed>>

Activate(reply) ==
  active' = [session |-> reply.session, epoch |-> reply.value.epoch, owner |-> reply.value.owner]
Show(reply) == Activate(reply) /\ menu' = (question # Nothing)

\* Its screen and its definition are asked for before the controls go.
ShellShown ==
  /\ NextAnswer("Attached") /\ Head(answers).ok
  /\ \/ Show(Head(answers)) /\ reachable' = TRUE
     \/ Activate(Head(answers)) /\ UNCHANGED menu /\ reachable' = FALSE
  /\ UNCHANGED <<terminal, asks, moves, inflight, question, listed, agreed, cut>>

\* An attachment nobody waits for any more is given back.
RunShown ==
  /\ NextAnswer("RunAttached") /\ Head(answers).ok
  /\ LET reply == Head(answers) IN
       /\ inflight' = IF inflight = [session |-> reply.session, moves |-> reply.about.moves]
                        THEN Nothing ELSE inflight
       /\ IF reply.about.moves # moves
            THEN /\ \/ /\ Send("Detach", reply.session, [epoch |-> reply.value.epoch])
                       /\ reachable' = TRUE
                    \/ UNCHANGED asks /\ reachable' = FALSE
                 /\ UNCHANGED <<active, menu>>
            ELSE Show(reply) /\ reachable' = TRUE /\ UNCHANGED asks
  /\ UNCHANGED <<terminal, moves, question, listed, agreed, cut>>

AfterFailureMutant(tag) == inflight      \* mutant: only answers end it

\* run_rpc_error: what failed is not under way any more.
AfterFailure(tag) == IF tag \in {"RunAttached", "RunAttachInfo"} THEN Nothing ELSE inflight

Failed ==
  /\ answers # << >> /\ answers' = Tail(answers) /\ ~Head(answers).ok
  /\ inflight' = AfterFailure(Head(answers).tag) /\ reachable' = FALSE
  /\ UNCHANGED <<terminal, asks, moves, question, active, menu, listed, agreed, cut>>

Acknowledged ==
  /\ NextAnswer("Detach") /\ Head(answers).ok /\ reachable' = TRUE
  /\ UNCHANGED <<terminal, asks, moves, inflight, question, active, menu, listed, agreed, cut>>

AttachNext ==
  \/ \E s \in Sessions : AttachRun(s) \/ OpenShell(s) \/ OtherAttaches(s) \/ OtherDetaches(s)
  \/ ConfirmTakeover \/ EscapeQuestion \/ AnotherDialog \/ Move \/ ToggleMenu \/ Poll \/ ServeTerminal
  \/ Listed \/ Reviewed \/ ShellShown \/ RunShown \/ Failed \/ Acknowledged

AttachSpec == AttachInit /\ [][AttachNext]_attachVars

-----------------------------------------------------------------------------
(* What is promised                                                        *)

\* Input goes over from another client only when the user has confirmed it
\* (workspace-guide.md:79), whatever changed hands since the UI looked.
TakeoverWasConfirmed ==
  [][\A s \in Sessions :
       terminal[s].owner = Other /\ terminal'[s].owner = Me => agreed[s] > 0]_attachVars

\* The key that attaches a Run is ignored only while an answer is under way
\* or a question is open (runs.rs:735), not for the rest of the visit: unless
\* the attachment was cut off, by a full queue that refused the request its
\* answer led to (runs.rs:369) or by another dialog over its question.
AttachNotBlocked ==
  inflight # Nothing /\ inflight.moves = moves =>
    \/ cut
    \/ question # Nothing /\ question.kind = "run" /\ question.session = inflight.session
    \/ \E k \in DOMAIN asks :
         asks[k].tag \in {"RunAttachInfo", "RunAttached"} /\ asks[k].session = inflight.session
    \/ \E k \in DOMAIN answers :
         answers[k].tag \in {"RunAttachInfo", "RunAttached"} /\ answers[k].session = inflight.session

\* "... must take over explicitly, and the screen before it becomes read-only"
\* (workspace-guide.md:79): the terminal on the screen stays writable until
\* another client takes it over.
AttachmentKept ==
  [][\A s \in Sessions :
       /\ terminal[s].owner = Me /\ terminal'[s].owner = Nobody
       => active = Nothing \/ active.session # s]_attachVars
=============================================================================
