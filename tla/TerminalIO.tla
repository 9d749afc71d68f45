---------------------------- MODULE TerminalIO ----------------------------
(***************************************************************************)
(* One terminal between its child, its clients and the captured log of a   *)
(* run: the collector thread and the screen it keeps behind a lock         *)
(* (terminal.rs), the tick of the actor that freezes the last screen or    *)
(* cuts the collection off (host/actor.rs), and the thread that writes the *)
(* log (run.rs, RunOutputSink).  Output is a sequence of chunks, each      *)
(* known by its number; user input is a sequence of numbered bytes.        *)
(*                                                                         *)
(* An operator named ...Mutant is a plausible defect of the definition     *)
(* after it; no action uses it, the properties are tested against it.      *)
(***************************************************************************)
EXTENDS Naturals, Sequences, FiniteSets

CONSTANTS MaxOut,      \* bound on the chunks the child writes
          MaxTyped,    \* bound on the bytes the user types
          MaxGen,      \* bound on the revisions made by the user
          MaxInput,    \* MAX_PENDING_INPUT
          MaxReplies,  \* MAX_PENDING_REPLIES
          QueueRoom,   \* capacity of the log channel
          LogLimit,    \* LOG_LIMIT
          ReadErrors,  \* whether reading the PTY or a pipe may fail
          LateWriter   \* whether the log writer is preempted between a timeout and its check

VARIABLES child,     \* what the child wrote, and who is left to write
          screen,    \* the engine behind the lock
          pending,   \* input not yet written to the PTY
          typed,     \* user bytes accepted, and how far they arrived
          collector, \* the collector thread
          stop,      \* tells the collector to end
          tick,      \* where the actor is in its tick
          frozen,    \* the last screen, once collected
          sink,      \* flags of the log sink
          queue,     \* chunks on their way to the log writer
          log,       \* the writer thread, its file and its descriptor
          cache      \* what a client has on its display

engineVars == <<screen, pending, typed>>
logVars == <<sink, queue, log>>
ioVars == <<child, screen, pending, typed, collector, stop, tick, frozen, sink, queue, log, cache>>

NoView == [gen |-> 0, view |-> 0]
View(e) == [shown |-> e.shown, scrolled |-> e.scrolled, closed |-> e.closed,
            error |-> e.error, limited |-> e.limited]
Snapshot(e) == [gen |-> e.gen, view |-> View(e)]

IOInit ==
    /\ child = [piped |-> FALSE, out |-> 0, open |-> TRUE, exited |-> FALSE]
         \/ child = [piped |-> TRUE, out |-> 0, open |-> TRUE, exited |-> FALSE]
    /\ screen = [gen |-> 1, taken |-> 0, shown |-> 0, synced |-> FALSE, scrolled |-> FALSE,
                 closed |-> FALSE, error |-> FALSE, limited |-> FALSE]
    /\ pending = [items |-> <<>>, offset |-> 0, bytes |-> 0]
    /\ typed = [accepted |-> 0, arrived |-> 0, garbled |-> FALSE]
    /\ collector = [at |-> "top", hand |-> 0, read |-> 0]
    /\ stop = FALSE /\ tick = "idle" /\ frozen = NoView /\ cache = NoView
    /\ sink = [stopped |-> FALSE, limited |-> FALSE, partial |-> FALSE, finished |-> FALSE]
    /\ queue = <<>>
    /\ log = [at |-> "recv", hand |-> 0, file |-> <<>>, state |-> "recording"]
-----------------------------------------------------------------------------
(* The child and what it leaves behind. *)
ChildWrites ==
    /\ child.open /\ child.out < MaxOut
    /\ child' = [child EXCEPT !.out = @ + 1]
    /\ UNCHANGED <<engineVars, collector, stop, tick, frozen, logVars, cache>>

ChildExits ==
    /\ ~child.exited /\ child' = [child EXCEPT !.exited = TRUE]
    /\ UNCHANGED <<engineVars, collector, stop, tick, frozen, logVars, cache>>

\* The last process that holds the slave, or the pipe, ends.
LastWriterEnds ==
    /\ child.exited /\ child.open /\ child' = [child EXCEPT !.open = FALSE]
    /\ UNCHANGED <<engineVars, collector, stop, tick, frozen, logVars, cache>>
-----------------------------------------------------------------------------
(* The engine. *)
Changed(e) == [e EXCEPT !.gen = @ + 1]
Finished(e) == Changed([e EXCEPT !.shown = e.taken, !.synced = FALSE, !.closed = TRUE])

\* A reply to the child is queued only while the queue has room to spare for
\* the user.
Answered(reply) == reply /\ pending.bytes + 1 <= MaxReplies

\* One chunk: it may begin or end a synchronized update, be filtered away,
\* ask for a reply, or overflow a limit.
Process(n) ==
    \E sync, visible, over, reply \in BOOLEAN :
      /\ reply => visible
      /\ LET limited == screen.limited \/ over \/ (reply /\ ~Answered(reply))
             drawn == [screen EXCEPT !.taken = n, !.synced = sync, !.limited = limited,
                                     !.shown = IF sync THEN @ ELSE n]
         IN screen' = IF visible THEN Changed(drawn)
                      ELSE IF limited # screen.limited THEN Changed([screen EXCEPT !.limited = TRUE])
                      ELSE screen
      /\ pending' = IF Answered(reply)
                    THEN [pending EXCEPT !.items = Append(@, [first |-> 0, size |-> 1]), !.bytes = @ + 1]
                    ELSE pending

\* One bounded write to the PTY: some bytes of the first packet.
Flushed(k) ==
    LET front == Head(pending.items)
        done == pending.offset + k = front.size
        wanted == front.first + pending.offset
    IN /\ pending.offset + k <= front.size
       /\ pending' = [items |-> IF done THEN Tail(pending.items) ELSE pending.items,
                      offset |-> IF done THEN 0 ELSE pending.offset + k,
                      bytes |-> pending.bytes - k]
       /\ typed' = IF front.first = 0 THEN typed
                   ELSE [typed EXCEPT !.arrived = wanted + k - 1,
                                      !.garbled = @ \/ wanted # typed.arrived + 1]
EmptyPending == [items |-> <<>>, offset |-> 0, bytes |-> 0]

\* tick of the engine, at the top of the loop of a PTY collector.
EngineTickMutant(flushed, failed) ==
    LET e == IF flushed THEN [screen EXCEPT !.synced = FALSE, !.shown = screen.taken] ELSE screen
        after == [e EXCEPT !.error = @ \/ failed]
    IN screen' = IF after.error # screen.error THEN Changed(after) ELSE after
EngineTick(flushed, failed) ==
    LET e == IF flushed THEN [screen EXCEPT !.synced = FALSE, !.shown = screen.taken] ELSE screen
        after == [e EXCEPT !.error = @ \/ failed]
    IN screen' = IF flushed \/ after.error # screen.error THEN Changed(after) ELSE after
-----------------------------------------------------------------------------
(* The collector thread. *)
CollectorStops ==
    /\ collector.at = "top" /\ stop
    /\ collector' = [collector EXCEPT !.at = IF child.piped THEN "closing" ELSE "done"]
    /\ UNCHANGED <<child, engineVars, stop, tick, frozen, logVars, cache>>

\* A write that fails drops what is queued, one of no bytes keeps it; both
\* leave an error behind.
CollectorTicks ==
    /\ collector.at = "top" /\ ~stop
    /\ collector' = [collector EXCEPT !.at = "poll"]
    /\ IF child.piped THEN UNCHANGED engineVars
       ELSE \E flushed \in {FALSE, screen.synced} :
              \/ /\ EngineTick(flushed, FALSE) /\ UNCHANGED <<pending, typed>>
              \/ /\ pending.items # <<>>
                 /\ \/ EngineTick(flushed, FALSE) /\ \E k \in 1..Head(pending.items).size : Flushed(k)
                    \/ EngineTick(flushed, TRUE) /\ pending' = EmptyPending /\ UNCHANGED typed
                    \/ EngineTick(flushed, TRUE) /\ UNCHANGED <<pending, typed>>
    /\ UNCHANGED <<child, stop, tick, frozen, logVars, cache>>

CollectorIdles ==
    /\ collector.at = "poll" /\ collector' = [collector EXCEPT !.at = "top"]
    /\ UNCHANGED <<child, engineVars, stop, tick, frozen, logVars, cache>>

CollectorReads ==
    /\ collector.at = "poll" /\ collector.read < child.out
    /\ collector' = [at |-> "offer", hand |-> collector.read + 1, read |-> collector.read + 1]
    /\ UNCHANGED <<child, engineVars, stop, tick, frozen, logVars, cache>>

CollectorEof ==
    /\ collector.at = "poll" /\ collector.read = child.out /\ ~child.open
    /\ IF child.piped
       THEN collector' = [collector EXCEPT !.at = "closing"] /\ UNCHANGED screen
       ELSE collector' = [collector EXCEPT !.at = "done"] /\ screen' = Finished(screen)
    /\ UNCHANGED <<child, pending, typed, stop, tick, frozen, logVars, cache>>

\* When the poll fails, or the last open pipe, all collection ends; when one
\* pipe fails the other is read on, and what the first carries is never read:
\* it is skipped here, and again whenever there is more of it.
CollectorFails ==
    /\ ReadErrors /\ collector.at = "poll"
    /\ IF child.piped
       THEN /\ screen' = [screen EXCEPT !.error = TRUE]
            /\ \/ collector' = [collector EXCEPT !.at = "closing"]
               \/ \E n \in collector.read..child.out :
                    collector' = [collector EXCEPT !.at = "top", !.read = n]
       ELSE collector' = [collector EXCEPT !.at = "done"]
            /\ screen' = Finished([screen EXCEPT !.error = TRUE])
    /\ UNCHANGED <<child, pending, typed, stop, tick, frozen, logVars, cache>>

CollectorCloses ==
    /\ collector.at = "closing" /\ collector' = [collector EXCEPT !.at = "done"]
    /\ screen' = Finished(screen)
    /\ UNCHANGED <<child, pending, typed, stop, tick, frozen, logVars, cache>>

\* push: first the stopped flag, then the bounded channel; it never waits.
OfferChunk ==
    /\ collector.at = "offer"
    /\ collector' = [collector EXCEPT !.at = IF sink.stopped THEN "process" ELSE "send"]
    /\ UNCHANGED <<child, engineVars, stop, tick, frozen, logVars, cache>>

LostMutant(s) == [s EXCEPT !.limited = TRUE]
Lost(s) == [s EXCEPT !.limited = TRUE, !.stopped = TRUE]
SendChunk ==
    /\ collector.at = "send"
    /\ collector' = [collector EXCEPT !.at = "process"]
    /\ IF log.at # "ended" /\ Len(queue) < QueueRoom
       THEN queue' = Append(queue, collector.hand) /\ UNCHANGED sink
       ELSE sink' = Lost(sink) /\ UNCHANGED queue
    /\ UNCHANGED <<child, engineVars, stop, tick, frozen, log, cache>>

\* A PTY collector looks at stop again under the lock, a pipe collector not.
ProcessChunk ==
    /\ collector.at = "process"
    /\ IF stop /\ ~child.piped
       THEN collector' = [collector EXCEPT !.at = "done", !.hand = 0] /\ UNCHANGED <<screen, pending>>
       ELSE collector' = [collector EXCEPT !.at = "top", !.hand = 0] /\ Process(collector.hand)
    /\ UNCHANGED <<child, typed, stop, tick, frozen, logVars, cache>>
-----------------------------------------------------------------------------
(* The actor: requests of clients, and the tick that ends a terminal. *)
AcceptsInputMutant(n) ==
    /\ ~child.piped /\ ~child.exited /\ ~screen.closed
    /\ pending.bytes + n <= MaxInput
AcceptsInput(n) ==
    /\ ~child.piped /\ ~child.exited /\ ~screen.closed /\ ~screen.error
    /\ pending.bytes + n <= MaxInput

Input(n) ==
    /\ tick = "idle" /\ typed.accepted + n <= MaxTyped
    /\ AcceptsInput(n)
    /\ pending' = [pending EXCEPT !.items = Append(@, [first |-> typed.accepted + 1, size |-> n]),
                                  !.bytes = @ + n]
    /\ typed' = [typed EXCEPT !.accepted = @ + n]
    /\ screen' = IF screen.scrolled THEN Changed([screen EXCEPT !.scrolled = FALSE]) ELSE screen
    /\ UNCHANGED <<child, collector, stop, tick, frozen, logVars, cache>>

\* A scroll, a search hit or a resize: another view of the same output.
Scroll ==
    /\ tick = "idle" /\ screen.gen < MaxGen
    /\ screen' = Changed([screen EXCEPT !.scrolled = ~@])
    /\ UNCHANGED <<child, pending, typed, collector, stop, tick, frozen, logVars, cache>>

\* Snapshot{since}: nothing is sent to a client that has this revision.
Current == IF frozen # NoView THEN frozen ELSE Snapshot(screen)
Fetch ==
    /\ tick \in {"idle", "ended"} /\ Current.gen # cache.gen
    /\ cache' = Current
    /\ UNCHANGED <<child, engineVars, collector, stop, tick, frozen, logVars>>

\* tick asks for the status of the terminal first, ...
TickStatus ==
    /\ tick = "idle" /\ frozen = NoView /\ child.exited
    /\ sink' = [sink EXCEPT !.partial = @ \/ screen.error]
    /\ tick' = "exit"
    /\ UNCHANGED <<child, engineVars, collector, stop, frozen, queue, log, cache>>

\* ... then whether the output has ended or the two seconds are over, ...
TickExit(late) ==
    /\ tick = "exit" /\ tick' = IF screen.closed \/ late THEN "cutoff" ELSE "idle"
    /\ UNCHANGED <<child, engineVars, collector, stop, frozen, logVars, cache>>

\* ... and cuts the collection off unless it has ended by now.
TickCutoff ==
    /\ tick = "cutoff" /\ tick' = "freeze"
    /\ IF screen.closed THEN UNCHANGED <<sink, stop, screen, pending>>
       ELSE /\ sink' = [sink EXCEPT !.partial = TRUE] /\ stop' = TRUE
            /\ pending' = EmptyPending
            /\ screen' = Finished([screen EXCEPT !.limited = TRUE])
    /\ UNCHANGED <<child, typed, collector, frozen, queue, log, cache>>

TickFreeze ==
    /\ tick = "freeze" /\ tick' = "frozen" /\ frozen' = Snapshot(screen)
    /\ UNCHANGED <<child, engineVars, collector, stop, logVars, cache>>

\* The leader is reaped, the terminal dropped and the run finished.
FinishRun ==
    /\ tick = "frozen" /\ tick' = "ended" /\ stop' = TRUE
    /\ sink' = [sink EXCEPT !.stopped = TRUE, !.finished = TRUE,
                            !.partial = @ \/ frozen.view.limited]
    /\ UNCHANGED <<child, engineVars, collector, frozen, queue, log, cache>>
-----------------------------------------------------------------------------
(* The log writer. *)
WriterTakes ==
    /\ log.at = "recv" /\ queue # <<>>
    /\ queue' = Tail(queue) /\ log' = [log EXCEPT !.at = "write", !.hand = Head(queue)]
    /\ UNCHANGED <<child, engineVars, collector, stop, tick, frozen, sink, cache>>

\* A full log or a failed write keeps what is there and drops the rest.
WriterWrites(ok) ==
    /\ log.at = "write"
    /\ LET writable == log.state \in {"recording", "limited"}
           fits == Len(log.file) < LogLimit
       IN log' = [log EXCEPT !.at = "recv", !.hand = 0,
                    !.file = IF writable /\ fits /\ ok THEN Append(@, log.hand) ELSE @,
                    !.state = IF ~writable THEN @
                              ELSE IF ~ok THEN "write_failed"
                              ELSE IF fits THEN @ ELSE "limited"]
    /\ UNCHANGED <<child, engineVars, collector, stop, tick, frozen, sink, queue, cache>>

\* The wait for a chunk times out; only then does the writer look whether the
\* run is finished, much later when it is preempted in between.
AfterTimeout == IF sink.finished THEN "sync" ELSE "recv"
WriterTimesOut ==
    /\ log.at = "recv" /\ queue = <<>>
    /\ log' = [log EXCEPT !.at = IF LateWriter THEN "empty" ELSE AfterTimeout]
    /\ UNCHANGED <<child, engineVars, collector, stop, tick, frozen, sink, queue, cache>>
WriterChecks ==
    /\ log.at = "empty"
    /\ log' = [log EXCEPT !.at = AfterTimeout]
    /\ UNCHANGED <<child, engineVars, collector, stop, tick, frozen, sink, queue, cache>>
WriterSyncs(ok) ==
    /\ log.at = "sync"
    /\ log' = [log EXCEPT !.at = "ended",
                 !.state = IF ~ok /\ @ # "write_failed" THEN "write_failed"
                           ELSE IF @ = "recording" THEN "complete" ELSE @]
    /\ UNCHANGED <<child, engineVars, collector, stop, tick, frozen, sink, queue, cache>>

\* What clients are told of the log.
Descriptor ==
    IF log.state \in {"recording", "complete"}
    THEN IF sink.limited THEN "limited" ELSE IF sink.partial THEN "partial" ELSE log.state
    ELSE log.state
-----------------------------------------------------------------------------
CollectorStep ==
    \/ CollectorStops \/ CollectorTicks \/ CollectorIdles \/ CollectorReads
    \/ CollectorEof \/ CollectorFails \/ CollectorCloses
    \/ OfferChunk \/ SendChunk \/ ProcessChunk
ActorStep ==
    \/ \E n \in 1..2 : Input(n)
    \/ Scroll \/ Fetch \/ TickStatus \/ TickCutoff \/ TickFreeze \/ FinishRun
    \/ \E late \in BOOLEAN : TickExit(late)
WriterStep ==
    \/ WriterTakes \/ WriterTimesOut \/ WriterChecks
    \/ \E ok \in BOOLEAN : WriterWrites(ok) \/ WriterSyncs(ok)

IONext == ChildWrites \/ ChildExits \/ LastWriterEnds \/ CollectorStep \/ ActorStep \/ WriterStep
IOSpec == IOInit /\ [][IONext]_ioVars
-----------------------------------------------------------------------------
\* A client that holds the revision of the terminal displays what the terminal
\* shows: no output, scroll or error is hidden behind an unchanged revision
\* (actor.rs:524-543, terminal.rs Engine::changed).
RevisionNamesScreen == cache.gen = Current.gen => cache.view = Current.view

\* What the user typed reaches the child without a gap, in the order it was
\* accepted, through partial and failed writes (terminal.rs Engine::flush).
TypedInOrder == ~typed.garbled

\* The log is a contiguous prefix of the output, and one that is called
\* complete holds all of it (run.rs RunOutputSink; actor.rs:1585-1590).
LogTruthful ==
    /\ \A i \in DOMAIN log.file : log.file[i] = i
    /\ Descriptor = "complete" => Len(log.file) = child.out
=============================================================================
