----------------------------- MODULE ScreenProofs -----------------------------
(***************************************************************************)
(* What the user is shown of a run: by its terminal (TerminalIO) and by    *)
(* the Runs tab of the UI (UiRuns).                                        *)
(*                                                                         *)
(* What a terminal shows, types and logs, for every capacity and however   *)
(* much is written and typed.  The three properties are about different    *)
(* parts and have invariants of their own: what the bytes queued for the   *)
(* PTY continue (TypingInv), where each chunk is between the collector and *)
(* the log (PrefixInv) and how the collection and its log end (EndSound,   *)
(* WriterSound), and that no view changes without its revision (ViewInv).  *)
(*                                                                         *)
(* The Runs tab, for any Runs, tasks, keys and limits: a start is one the  *)
(* user confirmed and did not walk away from, and what is put together     *)
(* from many replies fits.  An answer is applied by the intent of its      *)
(* request, so the invariants speak of the intents of this visit, and the  *)
(* lemmas of how each step changes the intents: some are forgotten, the    *)
(* ones kept say the same, and new ones say what was asked (Asked).        *)
(***************************************************************************)
EXTENDS MCTerminalIO, UiRuns, Integers, TLAPS

CollectorPlaces == {"top", "poll", "offer", "send", "process", "closing", "done"}
LogPlaces == {"recv", "write", "empty", "sync", "ended"}
LogStates == {"recording", "limited", "write_failed", "complete"}

Packet == [first : Nat, size : Nat]
ScreenType == [gen : Nat, taken : Nat, shown : Nat, synced : BOOLEAN, scrolled : BOOLEAN,
               closed : BOOLEAN, error : BOOLEAN, limited : BOOLEAN]
PendingType == [items : Seq(Packet), offset : Nat, bytes : Int]
TypedType == [accepted : Nat, arrived : Nat, garbled : BOOLEAN]

\* The engine and its input; then the collector and the log.
EngineTypeOK == screen \in ScreenType /\ pending \in PendingType /\ typed \in TypedType
FlowTypeOK ==
    /\ child \in [piped : BOOLEAN, out : Nat, open : BOOLEAN, exited : BOOLEAN]
    /\ collector \in [at : CollectorPlaces, hand : Nat, read : Nat]
    /\ sink \in [stopped : BOOLEAN, limited : BOOLEAN, partial : BOOLEAN, finished : BOOLEAN]
    /\ queue \in Seq(Nat)
    /\ log \in [at : LogPlaces, hand : Nat, file : Seq(Nat), state : LogStates]
IOTypeOK == EngineTypeOK /\ FlowTypeOK
-----------------------------------------------------------------------------
\* The user's packets are those that do not answer the child.
FromUser(packet) == packet.first # 0
UserBytes(packet) == IF FromUser(packet) THEN packet.size ELSE 0

\* start[i] is the first user byte that has not been written before packet i:
\* the packets continue what arrived, without a gap, and where input is still
\* accepted they reach to the last byte accepted.
CarriesOn(items, offset, arrived, start) ==
    /\ start \in [1..(Len(items) + 1) -> Nat]
    /\ start[1] + (IF items # <<>> /\ FromUser(items[1]) THEN offset ELSE 0) = arrived + 1
    /\ \A i \in 1..Len(items) : /\ start[i + 1] = start[i] + UserBytes(items[i])
                                /\ FromUser(items[i]) => items[i].first = start[i]

Accepting == ~screen.closed /\ ~screen.error

TypingInv ==
    /\ ~typed.garbled
    /\ pending.items = <<>> => pending.offset = 0
    /\ \E start \in [1..(Len(pending.items) + 1) -> Nat] :
          /\ CarriesOn(pending.items, pending.offset, typed.arrived, start)
          /\ Accepting => start[Len(pending.items) + 1] = typed.accepted + 1
-----------------------------------------------------------------------------
\* Everything the child wrote has been read, and nobody is left to write more.
AllRead ==
    /\ collector.at \in {"closing", "done"}
    /\ collector.read = child.out /\ ~child.open

\* Chunks read: in the file, in the writer's hand, in the queue, and in the
\* collector's hand on their way there.
InWriter == IF log.at = "write" THEN 1 ELSE 0
InCollector == IF collector.at \in {"offer", "send"} THEN 1 ELSE 0
Passed == Len(log.file) + InWriter + Len(queue)

\* No pipe fails, so that all there is to read is read in its order.
NothingSkipped == ~(ReadErrors /\ child.piped)

\* The log while it is recorded: the next chunks are the next of the file.
PrefixInv ==
    /\ collector.at \in {"offer", "send"} => collector.hand = collector.read
    /\ sink.limited => sink.stopped /\ collector.at # "send"
    /\ log.state = "limited" => ~(Len(log.file) < LogLimit)
    /\ \A i \in 1..Len(log.file) : log.file[i] = i
    /\ log.state = "recording" =>
          /\ log.at = "write" => log.hand = Len(log.file) + 1
          /\ collector.at = "send" \/ ~sink.stopped => Passed + InCollector = collector.read
    /\ log.state = "recording" => \A i \in 1..Len(queue) : queue[i] = Len(log.file) + InWriter + i

\* A collection ends when all is read, or it is cut off and called partial.
EndSound ==
    /\ sink.stopped => sink.limited \/ sink.finished
    /\ collector.at = "closing" => AllRead \/ stop
    /\ stop \/ screen.closed => sink.partial \/ AllRead
    /\ tick \in {"freeze", "frozen", "ended"} => screen.closed
    /\ sink.finished => sink.stopped /\ (sink.partial \/ AllRead)

\* The writer ends after the run, and then the log has all that was read.
WriterSound ==
    /\ log.at # "empty"
    /\ log.at \in {"sync", "ended"} => sink.finished
    /\ log.state = "complete" => log.at = "ended"
    /\ ~sink.limited /\ ~sink.partial =>
          /\ log.state = "recording" /\ sink.stopped => Passed = collector.read
          /\ log.at = "sync" => queue = <<>>
          /\ log.state = "complete" => AllRead /\ Len(log.file) = child.out
-----------------------------------------------------------------------------
\* A client has an older view, or the one of its revision; the last screen is
\* frozen once.
ViewInv ==
    /\ frozen = NoView => /\ cache.gen \in Nat /\ cache.gen <= screen.gen
                          /\ cache.gen = screen.gen => cache.view = View(screen)
    /\ frozen # NoView /\ cache.gen = frozen.gen => cache.view = frozen.view
    /\ screen.gen > 0
    /\ tick \in {"exit", "cutoff", "freeze"} => frozen = NoView
-----------------------------------------------------------------------------
(* The engine.                                                             *)

Failed(e) == [e EXCEPT !.error = TRUE]
Limited(e) == [e EXCEPT !.limited = TRUE]
Flushes(e) == [e EXCEPT !.synced = FALSE, !.shown = e.taken]
Unscrolled(e) == [e EXCEPT !.scrolled = FALSE]
Rescrolled(e) == [e EXCEPT !.scrolled = ~@]
Drawn(e, n, sync, limited) ==
    [e EXCEPT !.taken = n, !.synced = sync, !.limited = limited, !.shown = IF sync THEN @ ELSE n]

\* Of two engines, one after the other: nothing that ended begins again, and
\* what a client sees changes only together with the revision.
Follows(e, after) ==
    /\ after \in ScreenType
    /\ e.closed => after.closed
    /\ e.error => after.error
Revised(e, after) ==
    after.gen > e.gen \/ (after.gen = e.gen /\ View(after) = View(e))

LEMMA Touches ==
    ASSUME NEW e \in ScreenType, NEW n \in Nat, NEW sync \in BOOLEAN, NEW limited \in BOOLEAN
    PROVE  \A after \in {Failed(e), Limited(e), Flushes(e), Unscrolled(e), Rescrolled(e),
                         Drawn(e, n, sync, limited)} :
              /\ after \in ScreenType /\ after.gen = e.gen /\ after.closed = e.closed
              /\ e.error => after.error
<1>1. /\ Failed(e) \in ScreenType /\ Failed(e).gen = e.gen /\ Failed(e).closed = e.closed
      /\ Failed(e).error
  BY DEF Failed, ScreenType
<1>2. /\ Limited(e) \in ScreenType /\ Limited(e).gen = e.gen /\ Limited(e).closed = e.closed
      /\ Limited(e).error = e.error
  BY DEF Limited, ScreenType
<1>3. /\ Flushes(e) \in ScreenType /\ Flushes(e).gen = e.gen /\ Flushes(e).closed = e.closed
      /\ Flushes(e).error = e.error
  BY DEF Flushes, ScreenType
<1>4. /\ Unscrolled(e) \in ScreenType /\ Unscrolled(e).gen = e.gen
      /\ Unscrolled(e).closed = e.closed /\ Unscrolled(e).error = e.error
  BY DEF Unscrolled, ScreenType
<1>5. /\ Rescrolled(e) \in ScreenType /\ Rescrolled(e).gen = e.gen
      /\ Rescrolled(e).closed = e.closed /\ Rescrolled(e).error = e.error
  BY DEF Rescrolled, ScreenType
<1>6. /\ Drawn(e, n, sync, limited) \in ScreenType /\ Drawn(e, n, sync, limited).gen = e.gen
      /\ Drawn(e, n, sync, limited).closed = e.closed
      /\ Drawn(e, n, sync, limited).error = e.error
  BY DEF Drawn, ScreenType
<1> QED BY <1>1, <1>2, <1>3, <1>4, <1>5, <1>6

LEMMA ChangedFollows ==
    ASSUME NEW e \in ScreenType, NEW after \in ScreenType, after.gen = e.gen,
           e.closed => after.closed, e.error => after.error
    PROVE  Follows(e, Changed(after)) /\ Revised(e, Changed(after))
<1>1. /\ Changed(after) \in ScreenType /\ Changed(after).gen = after.gen + 1
      /\ Changed(after).closed = after.closed /\ Changed(after).error = after.error
  BY DEF Changed, ScreenType
<1>2. e.gen \in Nat
  BY DEF ScreenType
<1> QED BY <1>1, <1>2 DEF Follows, Revised

LEMMA FinishedFollows ==
    ASSUME NEW e \in ScreenType, NEW after \in ScreenType, after.gen = e.gen,
           e.error => after.error
    PROVE  /\ Follows(e, Finished(after)) /\ Revised(e, Finished(after))
           /\ Finished(after).closed
<1> DEFINE ended == [after EXCEPT !.shown = after.taken, !.synced = FALSE, !.closed = TRUE]
<1>1. ended \in ScreenType /\ ended.gen = after.gen /\ ended.closed /\ ended.error = after.error
  BY DEF ScreenType
<1>2. Finished(after) = Changed(ended)
  BY DEF Finished
<1> HIDE DEF ended
<1>3. Changed(ended).closed = ended.closed
  BY <1>1 DEF Changed, ScreenType
<1> QED BY <1>1, <1>2, <1>3, ChangedFollows

LEMMA Unrevised ==
    ASSUME NEW e \in ScreenType PROVE Follows(e, e) /\ Revised(e, e)
BY DEF Follows, Revised

LEMMA TickFollows ==
    ASSUME screen \in ScreenType, NEW flushed \in BOOLEAN, NEW failed \in BOOLEAN,
           EngineTick(flushed, failed)
    PROVE  Follows(screen, screen') /\ Revised(screen, screen')
<1> DEFINE e == IF flushed THEN Flushes(screen) ELSE screen
           after == [e EXCEPT !.error = @ \/ failed]
<1>1. screen' = IF flushed \/ after.error # screen.error THEN Changed(after) ELSE after
  BY DEF EngineTick, Flushes
<1>2. /\ e \in ScreenType /\ e.gen = screen.gen /\ e.closed = screen.closed
      /\ screen.error = e.error
  BY DEF Flushes, ScreenType
<1>3. e = IF flushed THEN Flushes(screen) ELSE screen
  OBVIOUS
<1> HIDE DEF e
<1>4. /\ after \in ScreenType /\ after.gen = screen.gen /\ after.closed = screen.closed
      /\ screen.error => after.error
      /\ ~failed => after = e
  <2>1. CASE failed
    <3>1. after = [e EXCEPT !.error = TRUE]
      BY <1>2, <2>1 DEF ScreenType
    <3>2. [e EXCEPT !.error = TRUE] \in ScreenType
      BY <1>2 DEF ScreenType
    <3> QED BY <1>2, <2>1, <3>1, <3>2 DEF ScreenType
  <2>2. CASE ~failed
    <3>1. after = [e EXCEPT !.error = e.error]
      BY <1>2, <2>2 DEF ScreenType
    <3>2. after = e
      BY <1>2, <3>1 DEF ScreenType
    <3> QED BY <1>2, <3>2
  <2> QED BY <2>1, <2>2
<1>5. CASE flushed \/ after.error # screen.error
  <2>1. screen' = Changed(after)
    BY <1>1, <1>5
  <2> QED BY <1>4, <2>1, ChangedFollows
<1>6. CASE ~flushed /\ after.error = screen.error
  <2>1. screen' = after /\ e = screen
    BY <1>1, <1>3, <1>6
  <2>2. after = screen
    <3>1. CASE ~failed
      BY <1>4, <2>1, <3>1
    <3>2. CASE failed
      <4>1. after = [screen EXCEPT !.error = screen.error]
        <5>1. after.error = (screen.error \/ failed)
          BY <2>1 DEF ScreenType
        <5>2. after = [screen EXCEPT !.error = (screen.error \/ failed)]
          BY <2>1
        <5> QED BY <1>6, <5>1, <5>2
      <4> QED BY <4>1 DEF ScreenType
    <3> QED BY <3>1, <3>2
  <2> QED BY <2>1, <2>2, Unrevised
<1> QED BY <1>5, <1>6

LEMMA ProcessFollows ==
    ASSUME screen \in ScreenType, NEW n \in Nat, Process(n)
    PROVE  Follows(screen, screen') /\ Revised(screen, screen')
<1>1. PICK sync \in BOOLEAN, visible \in BOOLEAN, over \in BOOLEAN, reply \in BOOLEAN :
         LET limited == screen.limited \/ over \/ (reply /\ ~Answered(reply))
         IN screen' = IF visible THEN Changed(Drawn(screen, n, sync, limited))
                      ELSE IF limited # screen.limited THEN Changed(Limited(screen))
                      ELSE screen
  BY DEF Process, Drawn, Limited
<1> DEFINE limited == screen.limited \/ over \/ (reply /\ ~Answered(reply))
<1>2. limited \in BOOLEAN
  OBVIOUS
<1> HIDE DEF limited
<1>3. \/ screen' = Changed(Drawn(screen, n, sync, limited))
      \/ screen' = Changed(Limited(screen))
      \/ screen' = screen
  BY <1>1 DEF limited
<1>4. CASE screen' = Changed(Drawn(screen, n, sync, limited))
  BY <1>2, <1>4, Touches, ChangedFollows
<1>5. CASE screen' = Changed(Limited(screen))
  BY <1>2, <1>5, Touches, ChangedFollows
<1> QED BY <1>3, <1>4, <1>5, Unrevised

LEMMA ScreenStep ==
    ASSUME screen \in ScreenType, collector.hand \in Nat, [IONext]_ioVars
    PROVE  /\ Follows(screen, screen')
           /\ ~ReadErrors => Revised(screen, screen')
<1> DEFINE Fine == Follows(screen, screen') /\ (~ReadErrors => Revised(screen, screen'))
<1>0. UNCHANGED screen => Fine
  BY Unrevised
<1>1. CASE ChildWrites \/ ChildExits \/ LastWriterEnds \/ WriterStep \/ UNCHANGED ioVars
  BY <1>0, <1>1
  DEF ChildWrites, ChildExits, LastWriterEnds, WriterStep, WriterTakes, WriterTimesOut, WriterChecks,
      WriterWrites, WriterSyncs, ioVars, engineVars
<1>2. CASE CollectorTicks
  <2>1. \/ UNCHANGED screen
        \/ \E flushed \in {FALSE, screen.synced}, failed \in BOOLEAN : EngineTick(flushed, failed)
    BY <1>2 DEF CollectorTicks, engineVars
  <2>2. {FALSE, screen.synced} \subseteq BOOLEAN
    BY DEF ScreenType
  <2> QED BY <1>0, <2>1, <2>2, TickFollows
<1>3. CASE CollectorEof \/ CollectorCloses
  <2>1. UNCHANGED screen \/ screen' = Finished(screen)
    BY <1>3 DEF CollectorEof, CollectorCloses
  <2> QED BY <1>0, <2>1, FinishedFollows
<1>4. CASE CollectorFails
  <2>1. ReadErrors /\ (screen' = Failed(screen) \/ screen' = Finished(Failed(screen)))
    BY <1>4 DEF CollectorFails, Failed
  <2>2. /\ Failed(screen) \in ScreenType /\ Failed(screen).gen = screen.gen
        /\ Failed(screen).closed = screen.closed /\ (screen.error => Failed(screen).error)
    BY Touches
  <2> QED BY <2>1, <2>2, FinishedFollows DEF Follows
<1>5. CASE ProcessChunk
  BY <1>0, <1>5, ProcessFollows DEF ProcessChunk
<1>6. CASE CollectorStops \/ CollectorIdles \/ CollectorReads \/ OfferChunk \/ SendChunk
  BY <1>0, <1>6
  DEF CollectorStops, CollectorIdles, CollectorReads, OfferChunk, SendChunk, engineVars
<1>7. CASE Scroll \/ \E n \in 1..2 : Input(n)
  <2>1. \/ UNCHANGED screen
        \/ screen' = Changed(Unscrolled(screen)) \/ screen' = Changed(Rescrolled(screen))
    BY <1>7 DEF Scroll, Input, Unscrolled, Rescrolled
  <2>2. /\ Unscrolled(screen) \in ScreenType /\ Unscrolled(screen).gen = screen.gen
        /\ Unscrolled(screen).closed = screen.closed /\ (screen.error => Unscrolled(screen).error)
        /\ Rescrolled(screen) \in ScreenType /\ Rescrolled(screen).gen = screen.gen
        /\ Rescrolled(screen).closed = screen.closed /\ (screen.error => Rescrolled(screen).error)
    BY Touches
  <2>3. /\ Follows(screen, Changed(Unscrolled(screen))) /\ Revised(screen, Changed(Unscrolled(screen)))
        /\ Follows(screen, Changed(Rescrolled(screen))) /\ Revised(screen, Changed(Rescrolled(screen)))
    BY <2>2, ChangedFollows
  <2> QED BY <1>0, <2>1, <2>3
<1>8. CASE TickCutoff
  <2>1. UNCHANGED screen \/ screen' = Finished(Limited(screen))
    BY <1>8 DEF TickCutoff, Limited
  <2>2. /\ Limited(screen) \in ScreenType /\ Limited(screen).gen = screen.gen
        /\ screen.error => Limited(screen).error
    BY Touches
  <2> QED BY <1>0, <2>1, <2>2, FinishedFollows
<1>9. CASE Fetch \/ TickStatus \/ TickFreeze \/ FinishRun \/ \E late \in BOOLEAN : TickExit(late)
  BY <1>0, <1>9 DEF Fetch, TickStatus, TickFreeze, FinishRun, TickExit, engineVars
<1> QED
  BY <1>1, <1>2, <1>3, <1>4, <1>5, <1>6, <1>7, <1>8, <1>9 DEF IONext, CollectorStep, ActorStep
-----------------------------------------------------------------------------
(* The types.                                                              *)

LEMMA EmptyTyped == EmptyPending \in PendingType
BY DEF EmptyPending, PendingType

\* What a write to the PTY does.
LEMMA FlushedTyped ==
    ASSUME pending \in PendingType, typed \in TypedType, pending.items # <<>>,
           NEW k \in 1..Head(pending.items).size, Flushed(k)
    PROVE  pending' \in PendingType /\ typed' \in TypedType
<1> DEFINE front == Head(pending.items)
<1>1. /\ pending.items \in Seq(Packet) /\ pending.offset \in Nat /\ pending.bytes \in Int
      /\ front \in Packet /\ Tail(pending.items) \in Seq(Packet)
  BY DEF PendingType
<1>2. front.first \in Nat /\ front.size \in Nat /\ k \in Nat /\ k >= 1
  BY <1>1 DEF Packet
<1>3. /\ pending' = [items |-> IF pending.offset + k = front.size THEN Tail(pending.items) ELSE pending.items,
                     offset |-> IF pending.offset + k = front.size THEN 0 ELSE pending.offset + k,
                     bytes |-> pending.bytes - k]
      /\ typed' = IF front.first = 0 THEN typed
                  ELSE [typed EXCEPT !.arrived = front.first + pending.offset + k - 1,
                                     !.garbled = @ \/ front.first + pending.offset # typed.arrived + 1]
  BY DEF Flushed
<1> HIDE DEF front
<1>4. pending' \in PendingType
  BY <1>1, <1>2, <1>3 DEF PendingType
<1>5. front.first + pending.offset + k - 1 \in Nat
  BY <1>1, <1>2
<1>6. typed' \in TypedType
  BY <1>3, <1>5 DEF TypedType
<1> QED BY <1>4, <1>6

LEMMA PendingTyped ==
    ASSUME NEW waiting \in PendingType, NEW items \in Seq(Packet), NEW bytes \in Int
    PROVE  [waiting EXCEPT !.items = items, !.bytes = bytes] \in PendingType
BY DEF PendingType

Queued(packet, n) == [pending EXCEPT !.items = Append(@, packet), !.bytes = @ + n]

LEMMA QueuedTyped ==
    ASSUME pending \in PendingType, NEW packet \in Packet, NEW n \in Nat
    PROVE  Queued(packet, n) \in PendingType
<1> DEFINE items == Append(pending.items, packet)
           bytes == pending.bytes + n
<1>1. items \in Seq(Packet) /\ bytes \in Int
  BY DEF PendingType
<1>2. Queued(packet, n) = [pending EXCEPT !.items = items, !.bytes = bytes]
  BY DEF Queued
<1> HIDE DEF items, bytes
<1>3. [pending EXCEPT !.items = items, !.bytes = bytes] \in PendingType
  BY <1>1, PendingTyped
<1> QED BY <1>2, <1>3

LEMMA EngineTypeStep ==
    ASSUME EngineTypeOK, collector.hand \in Nat, [IONext]_ioVars PROVE EngineTypeOK'
<1>0. screen \in ScreenType /\ pending \in PendingType /\ typed \in TypedType
  BY DEF EngineTypeOK
<1>1. screen' \in ScreenType
  BY <1>0, ScreenStep DEF Follows
<1> SUFFICES pending' \in PendingType /\ typed' \in TypedType
  BY <1>1 DEF EngineTypeOK
<1>2. CASE UNCHANGED <<pending, typed>>
  BY <1>0, <1>2
<1>3. CASE CollectorTicks
  <2>1. CASE pending.items # <<>> /\ \E k \in 1..Head(pending.items).size : Flushed(k)
    BY <1>0, <2>1, FlushedTyped
  <2>2. CASE pending' = EmptyPending /\ UNCHANGED typed
    BY <1>0, <2>2, EmptyTyped
  <2> QED BY <1>2, <1>3, <2>1, <2>2 DEF CollectorTicks, engineVars
<1>4. CASE ProcessChunk
  <2>1. [first |-> 0, size |-> 1] \in Packet
    BY DEF Packet
  <2>2. Queued([first |-> 0, size |-> 1], 1) \in PendingType
    BY <1>0, <2>1, QueuedTyped
  <2>3. /\ typed' = typed
        /\ \/ pending' = pending
           \/ pending' = Queued([first |-> 0, size |-> 1], 1)
    BY <1>4 DEF ProcessChunk, Process, Queued
  <2> QED BY <1>0, <2>2, <2>3
<1>5. ASSUME NEW n \in 1..2, Input(n) PROVE pending' \in PendingType /\ typed' \in TypedType
  <2>1. [first |-> typed.accepted + 1, size |-> n] \in Packet
    BY <1>0 DEF Packet, TypedType
  <2>2. Queued([first |-> typed.accepted + 1, size |-> n], n) \in PendingType
    BY <1>0, <2>1, QueuedTyped
  <2>4. pending' \in PendingType
    BY <1>5, <2>2 DEF Input, Queued
  <2>3. typed' \in TypedType
    BY <1>0, <1>5 DEF Input, TypedType
  <2> QED BY <2>3, <2>4
<1>6. CASE TickCutoff
  BY <1>0, <1>6, EmptyTyped DEF TickCutoff
<1>7. CollectorStep => CollectorTicks \/ ProcessChunk \/ UNCHANGED <<pending, typed>>
  BY DEF CollectorStep, CollectorStops, CollectorIdles, CollectorReads, CollectorEof, CollectorFails,
         CollectorCloses, OfferChunk, SendChunk, engineVars
<1>8. ActorStep => (\E n \in 1..2 : Input(n)) \/ TickCutoff \/ UNCHANGED <<pending, typed>>
  BY DEF ActorStep, Scroll, Fetch, TickStatus, TickFreeze, FinishRun, TickExit, engineVars
<1>9. CASE ChildWrites \/ ChildExits \/ LastWriterEnds \/ WriterStep \/ UNCHANGED ioVars
  BY <1>2, <1>9
  DEF ChildWrites, ChildExits, LastWriterEnds, WriterStep, WriterTakes, WriterTimesOut, WriterChecks,
      WriterWrites, WriterSyncs, ioVars, engineVars
<1> QED BY <1>2, <1>3, <1>4, <1>5, <1>6, <1>7, <1>8, <1>9 DEF IONext

LEMMA FlowTypeStep ==
    ASSUME FlowTypeOK, [IONext]_ioVars PROVE FlowTypeOK'
<1>0. /\ child \in [piped : BOOLEAN, out : Nat, open : BOOLEAN, exited : BOOLEAN]
      /\ collector \in [at : CollectorPlaces, hand : Nat, read : Nat]
      /\ sink \in [stopped : BOOLEAN, limited : BOOLEAN, partial : BOOLEAN, finished : BOOLEAN]
      /\ queue \in Seq(Nat)
      /\ log \in [at : LogPlaces, hand : Nat, file : Seq(Nat), state : LogStates]
  BY DEF FlowTypeOK
<1>1. CASE UNCHANGED <<child, collector, sink, queue, log>>
  BY <1>0, <1>1 DEF FlowTypeOK
<1>2. CASE ChildWrites \/ ChildExits \/ LastWriterEnds
  <2>1. UNCHANGED <<collector, sink, queue, log>>
    BY <1>2 DEF ChildWrites, ChildExits, LastWriterEnds, logVars
  <2>2. \/ child' = [child EXCEPT !.out = @ + 1] \/ child' = [child EXCEPT !.exited = TRUE]
        \/ child' = [child EXCEPT !.open = FALSE]
    BY <1>2 DEF ChildWrites, ChildExits, LastWriterEnds
  <2>3. child' \in [piped : BOOLEAN, out : Nat, open : BOOLEAN, exited : BOOLEAN]
    <3>1. CASE child' = [child EXCEPT !.out = @ + 1]
      <4>1. [child EXCEPT !.out = @ + 1] \in [piped : BOOLEAN, out : Nat, open : BOOLEAN, exited : BOOLEAN]
        <5>1. child \in [piped : BOOLEAN, out : Nat, open : BOOLEAN, exited : BOOLEAN] /\ child.out + 1 \in Nat
          BY <1>0
        <5>2. ASSUME NEW out \in Nat
              PROVE  [child EXCEPT !.out = out] \in [piped : BOOLEAN, out : Nat, open : BOOLEAN, exited : BOOLEAN]
          BY <5>1
        <5> QED BY <5>1, <5>2
      <4> QED BY <3>1, <4>1
    <3>2. CASE child' = [child EXCEPT !.exited = TRUE]
      BY <1>0, <3>2
    <3>3. CASE child' = [child EXCEPT !.open = FALSE]
      BY <1>0, <3>3
    <3> QED BY <2>2, <3>1, <3>2, <3>3
  <2> QED BY <1>0, <2>1, <2>3 DEF FlowTypeOK
<1>3. CASE CollectorStep
  <2>1. UNCHANGED <<child, log>>
    BY <1>3 DEF CollectorStep, CollectorStops, CollectorTicks, CollectorIdles, CollectorReads, CollectorEof,
                CollectorFails, CollectorCloses, OfferChunk, SendChunk, ProcessChunk, logVars
  <2>2. collector' \in [at : CollectorPlaces, hand : Nat, read : Nat]
    <3>1. CASE CollectorReads
      BY <1>0, <3>1 DEF CollectorReads, CollectorPlaces
    <3>0. ASSUME CollectorFails
          PROVE  \/ collector' = [collector EXCEPT !.at = "closing"]
                 \/ collector' = [collector EXCEPT !.at = "done"]
                 \/ \E n \in collector.read..child.out : collector' = [collector EXCEPT !.at = "top", !.read = n]
      BY <3>0 DEF CollectorFails
    <3>2. \/ CollectorReads \/ CollectorFails
          \/ \E at \in CollectorPlaces : \/ collector' = [collector EXCEPT !.at = at]
                                        \/ collector' = [collector EXCEPT !.at = at, !.hand = 0]
      BY <1>3
      DEF CollectorPlaces, CollectorStep, CollectorStops, CollectorTicks, CollectorIdles,
          CollectorEof, CollectorCloses, OfferChunk, SendChunk, ProcessChunk
    <3>3. ASSUME NEW at \in CollectorPlaces
          PROVE  /\ [collector EXCEPT !.at = at] \in [at : CollectorPlaces, hand : Nat, read : Nat]
                 /\ [collector EXCEPT !.at = at, !.hand = 0] \in [at : CollectorPlaces, hand : Nat, read : Nat]
      BY <1>0
    <3>4. ASSUME NEW n \in collector.read..child.out
          PROVE  [collector EXCEPT !.at = "top", !.read = n] \in [at : CollectorPlaces, hand : Nat, read : Nat]
      <4>1. n \in Nat
        BY <1>0
      <4> QED BY <1>0, <4>1 DEF CollectorPlaces
    <3>5. "closing" \in CollectorPlaces /\ "done" \in CollectorPlaces
      BY DEF CollectorPlaces
    <3>6. CASE CollectorFails
      BY <3>0, <3>3, <3>4, <3>5, <3>6
    <3> QED BY <3>1, <3>2, <3>3, <3>6
  <2>3. CASE UNCHANGED <<sink, queue>>
    BY <1>0, <2>1, <2>2, <2>3 DEF FlowTypeOK
  <2>4. CASE SendChunk
    <3>1. collector.hand \in Nat
      BY <1>0
    <3>2. queue' \in Seq(Nat)
      <4>1. Append(queue, collector.hand) \in Seq(Nat)
        BY <1>0, <3>1
      <4> QED BY <1>0, <2>4, <4>1 DEF SendChunk
    <3>3. sink' \in [stopped : BOOLEAN, limited : BOOLEAN, partial : BOOLEAN, finished : BOOLEAN]
      BY <1>0, <2>4 DEF SendChunk, Lost
    <3> QED BY <1>0, <2>1, <2>2, <3>2, <3>3 DEF FlowTypeOK
  <2> QED
    BY <1>3, <2>3, <2>4
    DEF CollectorStep, CollectorStops, CollectorTicks, CollectorIdles, CollectorReads, CollectorEof,
        CollectorFails, CollectorCloses, OfferChunk, ProcessChunk, logVars
<1>4. CASE ActorStep
  <2>1. UNCHANGED <<child, collector, queue, log>>
    BY <1>4 DEF ActorStep, Input, Scroll, Fetch, TickStatus, TickExit, TickCutoff, TickFreeze, FinishRun,
                logVars
  <2>2. \E partial, stopped, finished \in BOOLEAN :
           \/ sink' = sink
           \/ sink' = [sink EXCEPT !.partial = partial]
           \/ sink' = [sink EXCEPT !.stopped = stopped, !.finished = finished, !.partial = partial]
    <3>1. (sink.partial \/ screen.error) \in BOOLEAN /\ (sink.partial \/ frozen.view.limited) \in BOOLEAN
      OBVIOUS
    <3> QED
      BY <1>4, <3>1 DEF ActorStep, Input, Scroll, Fetch, TickStatus, TickExit, TickCutoff, TickFreeze,
                        FinishRun, logVars
  <2>3. sink' \in [stopped : BOOLEAN, limited : BOOLEAN, partial : BOOLEAN, finished : BOOLEAN]
    BY <1>0, <2>2
  <2> QED BY <1>0, <2>1, <2>3 DEF FlowTypeOK
<1>5. CASE WriterStep
  <2>1. UNCHANGED <<child, collector, sink>>
    BY <1>5 DEF WriterStep, WriterTakes, WriterTimesOut, WriterChecks, WriterWrites, WriterSyncs
  <2>2. CASE WriterTakes
    <3>1. Head(queue) \in Nat /\ Tail(queue) \in Seq(Nat)
      BY <1>0, <2>2 DEF WriterTakes
    <3>2. log' \in [at : LogPlaces, hand : Nat, file : Seq(Nat), state : LogStates]
      BY <1>0, <2>2, <3>1 DEF WriterTakes, LogPlaces
    <3> QED BY <1>0, <2>1, <2>2, <3>1, <3>2 DEF FlowTypeOK, WriterTakes
  <2>3. ASSUME NEW ok \in BOOLEAN, WriterWrites(ok) PROVE FlowTypeOK'
    <3>1. Append(log.file, log.hand) \in Seq(Nat) /\ log.file \in Seq(Nat)
      BY <1>0
    <3>2. log' \in [at : LogPlaces, hand : Nat, file : Seq(Nat), state : LogStates]
      BY <1>0, <2>3, <3>1 DEF WriterWrites, LogPlaces, LogStates
    <3> QED BY <1>0, <2>1, <2>3, <3>2 DEF FlowTypeOK, WriterWrites
  <2>4. CASE WriterTimesOut \/ WriterChecks \/ \E ok \in BOOLEAN : WriterSyncs(ok)
    <3>1. log' \in [at : LogPlaces, hand : Nat, file : Seq(Nat), state : LogStates]
      BY <1>0, <2>4 DEF WriterTimesOut, WriterChecks, WriterSyncs, AfterTimeout, LogPlaces, LogStates
    <3>2. queue' = queue
      BY <2>4 DEF WriterTimesOut, WriterChecks, WriterSyncs
    <3> QED BY <1>0, <2>1, <3>1, <3>2 DEF FlowTypeOK
  <2> QED BY <1>5, <2>2, <2>3, <2>4 DEF WriterStep
<1>6. CASE UNCHANGED ioVars
  BY <1>1, <1>6 DEF ioVars, logVars
<1> QED BY <1>2, <1>3, <1>4, <1>5, <1>6 DEF IONext

LEMMA IOTypeInit == IOInit => IOTypeOK
<1> SUFFICES ASSUME IOInit PROVE IOTypeOK
  OBVIOUS
<1>1. <<>> \in Seq(Packet) /\ <<>> \in Seq(Nat)
  OBVIOUS
<1>2. screen \in ScreenType /\ typed \in TypedType
  BY DEF IOInit, ScreenType, TypedType
<1>3. pending \in PendingType
  BY <1>1 DEF IOInit, PendingType
<1>4. child \in [piped : BOOLEAN, out : Nat, open : BOOLEAN, exited : BOOLEAN]
  <2>1. CASE child = [piped |-> FALSE, out |-> 0, open |-> TRUE, exited |-> FALSE]
    BY <2>1
  <2>2. CASE child = [piped |-> TRUE, out |-> 0, open |-> TRUE, exited |-> FALSE]
    BY <2>2
  <2> QED BY <2>1, <2>2 DEF IOInit
<1>5. collector \in [at : CollectorPlaces, hand : Nat, read : Nat]
  BY DEF IOInit, CollectorPlaces
<1>6. sink \in [stopped : BOOLEAN, limited : BOOLEAN, partial : BOOLEAN, finished : BOOLEAN]
  BY DEF IOInit
<1>7. queue \in Seq(Nat) /\ log \in [at : LogPlaces, hand : Nat, file : Seq(Nat), state : LogStates]
  BY <1>1 DEF IOInit, LogPlaces, LogStates
<1> QED BY <1>2, <1>3, <1>4, <1>5, <1>6, <1>7 DEF IOTypeOK, EngineTypeOK, FlowTypeOK

LEMMA IOTypeStep == IOTypeOK /\ [IONext]_ioVars => IOTypeOK'
<1> SUFFICES ASSUME IOTypeOK, [IONext]_ioVars PROVE IOTypeOK'
  OBVIOUS
<1>1. EngineTypeOK /\ FlowTypeOK /\ collector.hand \in Nat
  BY DEF IOTypeOK, FlowTypeOK
<1> QED BY <1>1, EngineTypeStep, FlowTypeStep DEF IOTypeOK
-----------------------------------------------------------------------------
(* Views.                                                                  *)

LEMMA FrozenIsSomething ==
    ASSUME screen.gen > 0, screen.gen \in Nat PROVE Snapshot(screen) # NoView
<1>1. Snapshot(screen).gen = screen.gen /\ NoView.gen = 0
  BY DEF Snapshot, NoView
<1> QED BY <1>1

LEMMA ViewInit == IOInit => ViewInv
<1> SUFFICES ASSUME IOInit PROVE ViewInv
  OBVIOUS
<1>1. screen.gen = 1 /\ cache = NoView /\ frozen = NoView /\ tick = "idle"
  BY DEF IOInit
<1>2. NoView.gen = 0
  BY DEF NoView
<1> QED BY <1>1, <1>2 DEF ViewInv

LEMMA ViewStep ==
    ASSUME ~ReadErrors, IOTypeOK, ViewInv, [IONext]_ioVars PROVE ViewInv'
<1>1. /\ screen \in ScreenType /\ collector.hand \in Nat
      /\ Follows(screen, screen') /\ Revised(screen, screen')
  BY ScreenStep DEF IOTypeOK, EngineTypeOK, FlowTypeOK
<1>2. screen.gen \in Nat /\ screen'.gen \in Nat /\ screen.gen <= screen'.gen
  BY <1>1 DEF Follows, Revised, ScreenType
<1>3. screen'.gen = screen.gen => View(screen') = View(screen)
  BY <1>1, <1>2 DEF Revised
<1>4. CASE Fetch
  <2>1. UNCHANGED <<screen, frozen, tick>> /\ cache' = Current
    BY <1>4 DEF Fetch, engineVars
  <2>2. CASE frozen = NoView
    <3>1. cache'.gen = screen.gen /\ cache'.view = View(screen)
      BY <2>1, <2>2 DEF Current, Snapshot
    <3> QED BY <1>2, <2>1, <2>2, <3>1 DEF ViewInv, View
  <2>3. CASE frozen # NoView
    BY <2>1, <2>3 DEF Current, ViewInv
  <2> QED BY <2>2, <2>3
<1>5. CASE TickFreeze
  <2>1. /\ UNCHANGED <<screen, cache>> /\ frozen' = Snapshot(screen) /\ tick' = "frozen"
        /\ frozen = NoView
    BY <1>5 DEF TickFreeze, engineVars, ViewInv
  <2>2. frozen' # NoView
    BY <1>2, <2>1, FrozenIsSomething DEF ViewInv
  <2>3. frozen'.gen = screen.gen /\ frozen'.view = View(screen)
    BY <2>1 DEF Snapshot
  <2> QED BY <2>1, <2>2, <2>3 DEF ViewInv
<1>6. CASE UNCHANGED <<frozen, cache>> /\ (tick' \in {"exit", "cutoff", "freeze"} => frozen = NoView)
  <2>1. frozen = NoView => /\ cache.gen \in Nat /\ cache.gen <= screen.gen
                           /\ cache.gen = screen.gen => cache.view = View(screen)
    BY DEF ViewInv
  <2>2. frozen = NoView => /\ cache.gen <= screen'.gen
                           /\ cache.gen = screen'.gen => cache.view = View(screen')
    BY <1>2, <1>3, <2>1
  <2>3. View(screen)' = View(screen')
    BY DEF View
  <2>4. screen'.gen > 0
    BY <1>2 DEF ViewInv
  <2> QED BY <1>6, <2>1, <2>2, <2>3, <2>4 DEF ViewInv
<1>7. tick \in {"exit", "cutoff", "freeze"} => frozen = NoView
  BY DEF ViewInv
<1>8. \/ Fetch \/ TickFreeze
      \/ UNCHANGED <<frozen, cache>> /\ (tick' \in {"exit", "cutoff", "freeze"} => frozen = NoView)
  <2>1. CASE ChildWrites \/ ChildExits \/ LastWriterEnds \/ WriterStep \/ CollectorStep
    <3>1. UNCHANGED <<tick, frozen, cache>>
      BY <2>1
      DEF ChildWrites, ChildExits, LastWriterEnds, WriterStep, WriterTakes, WriterTimesOut, WriterChecks,
          WriterWrites, WriterSyncs, CollectorStep, CollectorStops, CollectorTicks, CollectorIdles,
          CollectorReads, CollectorEof, CollectorFails, CollectorCloses, OfferChunk, SendChunk, ProcessChunk
    <3> QED BY <1>7, <3>1
  <2>2. CASE ActorStep
    BY <1>7, <2>2 DEF ActorStep, Input, Scroll, TickStatus, TickExit, TickCutoff, FinishRun
  <2>3. CASE UNCHANGED ioVars
    BY <1>7, <2>3 DEF ioVars
  <2> QED BY <2>1, <2>2, <2>3 DEF IONext
<1> QED BY <1>4, <1>5, <1>6, <1>8

LEMMA ViewSuffices == ViewInv => RevisionNamesScreen
<1> SUFFICES ASSUME ViewInv, cache.gen = Current.gen PROVE cache.view = Current.view
  BY DEF RevisionNamesScreen
<1>1. CASE frozen = NoView
  <2>1. Current.gen = screen.gen /\ Current.view = View(screen)
    BY <1>1 DEF Current, Snapshot
  <2> QED BY <1>1, <2>1 DEF ViewInv
<1>2. CASE frozen # NoView
  BY <1>2 DEF Current, ViewInv
<1> QED BY <1>1, <1>2

\* Where reading does not fail, a client that holds the revision of a terminal
\* displays what the terminal shows, while its collector runs and once the
\* last screen is frozen (actor.rs:524-543, terminal.rs Engine::changed).
THEOREM ViewsAlwaysNamed == ~ReadErrors => (PartSpec => []OutputRevisionNamesScreen)
<1> DEFINE Inv == part = "output" => IOTypeOK /\ ViewInv
<1> SUFFICES ASSUME ~ReadErrors PROVE PartSpec => []OutputRevisionNamesScreen
  OBVIOUS
<1>1. PartInit => Inv
  BY IOTypeInit, ViewInit DEF PartInit
<1>2. Inv /\ [PartNext]_<<part, ioVars>> => Inv'
  <2> SUFFICES ASSUME Inv, [PartNext]_<<part, ioVars>>, part' = "output" PROVE (IOTypeOK /\ ViewInv)'
    OBVIOUS
  <2>1. part = "output" /\ [IONext]_ioVars
    BY DEF PartNext
  <2> QED BY <2>1, IOTypeStep, ViewStep
<1>3. Inv => OutputRevisionNamesScreen
  BY ViewSuffices DEF OutputRevisionNamesScreen
<1> QED BY <1>1, <1>2, <1>3, PTL DEF PartSpec
-----------------------------------------------------------------------------
(* Typing.                                                                 *)

\* A packet joins the queue: a reply, or the bytes after those accepted.
Joins(packet, items, offset, arrived, start) ==
    /\ items \in Seq(Packet) /\ packet \in Packet /\ offset \in Nat /\ arrived \in Nat
    /\ CarriesOn(items, offset, arrived, start)
    /\ items = <<>> => offset = 0
    /\ FromUser(packet) => packet.first = start[Len(items) + 1]
Joined(packet, items, offset, arrived, start) ==
    \E longer \in [1..(Len(Append(items, packet)) + 1) -> Nat] :
       /\ CarriesOn(Append(items, packet), offset, arrived, longer)
       /\ longer[Len(Append(items, packet)) + 1] = start[Len(items) + 1] + UserBytes(packet)

LEMMA AppendContinues ==
    ASSUME NEW packet, NEW items, NEW offset, NEW arrived, NEW start,
           Joins(packet, items, offset, arrived, start)
    PROVE  Joined(packet, items, offset, arrived, start)
<1>0. /\ items \in Seq(Packet) /\ packet \in Packet /\ offset \in Nat /\ arrived \in Nat
      /\ CarriesOn(items, offset, arrived, start)
      /\ items = <<>> => offset = 0
      /\ FromUser(packet) => packet.first = start[Len(items) + 1]
  BY DEF Joins
<1> DEFINE n == Len(items)
           more == Append(items, packet)
           longer == [i \in 1..(n + 2) |-> IF i <= n + 1 THEN start[i] ELSE start[n + 1] + UserBytes(packet)]
<1>1. /\ n \in Nat /\ more \in Seq(Packet) /\ Len(more) = n + 1 /\ more[n + 1] = packet
      /\ more # <<>>
      /\ \A i \in 1..n : more[i] = items[i]
  BY <1>0
<1>2. UserBytes(packet) \in Nat
  BY <1>0 DEF UserBytes, Packet
<1>3. start \in [1..(n + 1) -> Nat]
  BY <1>0 DEF CarriesOn
<1>4. longer \in [1..(n + 2) -> Nat]
  BY <1>1, <1>2, <1>3
<1>5. /\ \A i \in 1..(n + 1) : longer[i] = start[i]
      /\ longer[n + 2] = start[n + 1] + UserBytes(packet)
  BY <1>1
<1>6. /\ start[1] + (IF items # <<>> /\ FromUser(items[1]) THEN offset ELSE 0) = arrived + 1
      /\ \A i \in 1..n : /\ start[i + 1] = start[i] + UserBytes(items[i])
                         /\ FromUser(items[i]) => items[i].first = start[i]
  BY <1>0 DEF CarriesOn
<1>9. items # <<>> => n >= 1
  BY <1>0
<1> HIDE DEF more, longer, n
<1>7. longer[1] + (IF more # <<>> /\ FromUser(more[1]) THEN offset ELSE 0) = arrived + 1
  <2>1. longer[1] = start[1] /\ start[1] \in Nat
    BY <1>1, <1>3, <1>5
  <2>2. CASE items = <<>>
    BY <1>0, <1>6, <2>1, <2>2
  <2>3. CASE items # <<>>
    <3>1. more[1] = items[1]
      BY <1>1, <1>9, <2>3
    <3> QED BY <1>1, <1>6, <2>1, <2>3, <3>1
  <2> QED BY <2>2, <2>3
<1>8. ASSUME NEW i \in 1..(n + 1)
      PROVE  /\ longer[i + 1] = longer[i] + UserBytes(more[i])
             /\ FromUser(more[i]) => more[i].first = longer[i]
  <2>1. CASE i = n + 1
    <3>1. longer[i + 1] = longer[n + 2]
      BY <1>1, <2>1
    <3> QED BY <1>0, <1>1, <1>5, <2>1, <3>1 DEF n
  <2>2. CASE i # n + 1
    <3>1. i \in 1..n /\ i \in 1..(n + 1) /\ i + 1 \in 1..(n + 1)
      BY <1>1, <2>2
    <3> QED BY <1>1, <1>5, <1>6, <3>1
  <2> QED BY <2>1, <2>2
<1>10. Len(more) + 1 = n + 2
  BY <1>1
<1>11. CarriesOn(more, offset, arrived, longer)
  BY <1>1, <1>4, <1>7, <1>8, <1>10 DEF CarriesOn
<1>12. longer \in [1..(Len(more) + 1) -> Nat] /\ longer[Len(more) + 1] = start[n + 1] + UserBytes(packet)
  BY <1>4, <1>5, <1>10
<1> QED BY <1>11, <1>12 DEF Joined, more, n

\* The first packet is written to its end, and nothing of the next one.
LEMMA TailContinues ==
    ASSUME NEW items \in Seq(Packet), items # <<>>, NEW start, NEW before \in Nat, NEW arrived \in Nat,
           NEW offset \in Nat,
           CarriesOn(items, offset, before, start), start[2] = arrived + 1
    PROVE  \E rest \in [1..(Len(Tail(items)) + 1) -> Nat] :
              /\ CarriesOn(Tail(items), 0, arrived, rest)
              /\ rest[Len(Tail(items)) + 1] = start[Len(items) + 1]
<1> DEFINE n == Len(items)
           left == Tail(items)
           rest == [i \in 1..n |-> start[i + 1]]
<1>1. /\ n \in Nat /\ n >= 1 /\ left \in Seq(Packet) /\ Len(left) + 1 = n
      /\ \A i \in 1..Len(left) : left[i] = items[i + 1]
  OBVIOUS
<1>2. /\ start \in [1..(n + 1) -> Nat]
      /\ \A i \in 1..n : /\ start[i + 1] = start[i] + UserBytes(items[i])
                         /\ FromUser(items[i]) => items[i].first = start[i]
  BY DEF CarriesOn
<1>3. /\ rest \in [1..n -> Nat]
      /\ \A i \in 1..n : rest[i] = start[i + 1]
  BY <1>1, <1>2
<1> HIDE DEF left, rest, n
<1>4. rest[1] = arrived + 1 /\ rest[1] \in Nat /\ rest[n] = start[n + 1]
  <2>1. 1 \in 1..n /\ n \in 1..n
    BY <1>1
  <2>2. rest[1] = start[1 + 1]
    BY <1>3, <2>1
  <2> QED BY <1>3, <2>1, <2>2
<1>5. ASSUME NEW i \in 1..Len(left)
      PROVE  /\ rest[i + 1] = rest[i] + UserBytes(left[i])
             /\ FromUser(left[i]) => left[i].first = rest[i]
  <2>1. i \in 1..n /\ i + 1 \in 1..n /\ i + 1 + 1 = i + 2
    BY <1>1
  <2> QED BY <1>1, <1>2, <1>3, <2>1
<1>6. CarriesOn(left, 0, arrived, rest)
  <2>1. rest \in [1..(Len(left) + 1) -> Nat]
    BY <1>1, <1>3
  <2>2. rest[1] + (IF left # <<>> /\ FromUser(left[1]) THEN 0 ELSE 0) = arrived + 1
    BY <1>4
  <2> QED BY <1>5, <2>1, <2>2 DEF CarriesOn
<1> QED BY <1>1, <1>3, <1>4, <1>6 DEF left, n

\* A reply of the terminal, or nothing, is added; the user types nothing.
LEMMA TypingReply ==
    ASSUME pending \in PendingType, typed \in TypedType, TypingInv, typed' = typed,
           pending' = pending \/ pending' = Queued([first |-> 0, size |-> 1], 1),
           Accepting' => Accepting
    PROVE  TypingInv'
<1> DEFINE reply == [first |-> 0, size |-> 1]
<1>1. reply \in Packet /\ ~FromUser(reply) /\ UserBytes(reply) = 0
  BY DEF Packet, FromUser, UserBytes
<1> HIDE DEF reply
<1>2. CASE pending' = pending
  BY <1>2 DEF TypingInv
<1>3. CASE pending' = Queued(reply, 1)
  <2>1. PICK start \in [1..(Len(pending.items) + 1) -> Nat] :
           /\ CarriesOn(pending.items, pending.offset, typed.arrived, start)
           /\ Accepting => start[Len(pending.items) + 1] = typed.accepted + 1
    BY DEF TypingInv
  <2>2. /\ pending.items \in Seq(Packet) /\ pending.offset \in Nat
        /\ typed.arrived \in Nat /\ typed.accepted \in Nat
    BY DEF PendingType, TypedType
  <2>3. pending.items = <<>> => pending.offset = 0
    BY DEF TypingInv
  <2>4. PICK longer \in [1..(Len(Append(pending.items, reply)) + 1) -> Nat] :
           /\ CarriesOn(Append(pending.items, reply), pending.offset, typed.arrived, longer)
           /\ longer[Len(Append(pending.items, reply)) + 1]
                = start[Len(pending.items) + 1] + UserBytes(reply)
    <3>1. /\ CarriesOn(pending.items, pending.offset, typed.arrived, start)
          /\ FromUser(reply) => reply.first = start[Len(pending.items) + 1]
      BY <1>1, <2>1
    <3>2. Joins(reply, pending.items, pending.offset, typed.arrived, start)
      BY <1>1, <2>2, <2>3, <3>1 DEF Joins
    <3>3. Joined(reply, pending.items, pending.offset, typed.arrived, start)
      BY <3>2, AppendContinues
    <3> QED BY <3>3 DEF Joined
  <2>5. /\ pending'.items = Append(pending.items, reply) /\ pending'.offset = pending.offset
        /\ pending'.items # <<>>
    <3>1. pending'.items = Append(pending.items, reply) /\ pending'.offset = pending.offset
      BY <1>3 DEF Queued, PendingType
    <3>2. Append(pending.items, reply) # <<>>
      <4>1. \A s \in Seq(Packet) : Append(s, reply) # <<>>
        OBVIOUS
      <4> QED BY <2>2, <4>1
    <3> QED BY <3>1, <3>2
  <2>6. start[Len(pending.items) + 1] \in Nat
    <3>1. Len(pending.items) \in Nat
      BY <2>2
    <3>2. Len(pending.items) + 1 \in 1..(Len(pending.items) + 1)
      BY <3>1
    <3> QED BY <2>1, <3>2
  <2>7. Accepting' => longer[Len(pending'.items) + 1] = typed'.accepted + 1
    BY <1>1, <2>1, <2>4, <2>5, <2>6
  <2>8. longer \in [1..(Len(pending'.items) + 1) -> Nat]
    BY <2>4, <2>5
  <2>9. CarriesOn(pending'.items, pending'.offset, typed'.arrived, longer)
    BY <2>4, <2>5
  <2> QED BY <2>5, <2>7, <2>8, <2>9 DEF TypingInv
<1> QED BY <1>2, <1>3 DEF reply

LEMMA TypingInput ==
    ASSUME pending \in PendingType, typed \in TypedType, TypingInv, NEW n \in 1..2, Input(n)
    PROVE  TypingInv'
<1> DEFINE packet == [first |-> typed.accepted + 1, size |-> n]
<1>1. /\ pending.items \in Seq(Packet) /\ pending.offset \in Nat
      /\ typed.arrived \in Nat /\ typed.accepted \in Nat
  BY DEF PendingType, TypedType
<1>2. packet \in Packet /\ packet.first = typed.accepted + 1 /\ UserBytes(packet) = n
  BY <1>1 DEF Packet, UserBytes, FromUser
<1>3. pending' = Queued(packet, n) /\ typed' = [typed EXCEPT !.accepted = @ + n] /\ Accepting
  BY DEF Input, Queued, AcceptsInput, Accepting
<1>4. PICK start \in [1..(Len(pending.items) + 1) -> Nat] :
         /\ CarriesOn(pending.items, pending.offset, typed.arrived, start)
         /\ Accepting => start[Len(pending.items) + 1] = typed.accepted + 1
  BY DEF TypingInv
<1> HIDE DEF packet
<1>5. pending.items = <<>> => pending.offset = 0
  BY DEF TypingInv
<1>6. PICK longer \in [1..(Len(Append(pending.items, packet)) + 1) -> Nat] :
         /\ CarriesOn(Append(pending.items, packet), pending.offset, typed.arrived, longer)
         /\ longer[Len(Append(pending.items, packet)) + 1]
              = start[Len(pending.items) + 1] + UserBytes(packet)
  <2>1. /\ CarriesOn(pending.items, pending.offset, typed.arrived, start)
        /\ FromUser(packet) => packet.first = start[Len(pending.items) + 1]
    BY <1>2, <1>3, <1>4
  <2>2. Joins(packet, pending.items, pending.offset, typed.arrived, start)
    BY <1>1, <1>2, <1>5, <2>1 DEF Joins
  <2>3. Joined(packet, pending.items, pending.offset, typed.arrived, start)
    BY <2>2, AppendContinues
  <2> QED BY <2>3 DEF Joined
<1>7. /\ pending'.items = Append(pending.items, packet) /\ pending'.offset = pending.offset
      /\ pending'.items # <<>>
  BY <1>1, <1>3 DEF Queued, PendingType
<1>8. typed'.accepted = typed.accepted + n /\ typed'.arrived = typed.arrived /\ typed'.garbled = typed.garbled
  BY <1>3 DEF TypedType
<1>9. longer[Len(pending'.items) + 1] = typed'.accepted + 1
  BY <1>1, <1>2, <1>3, <1>4, <1>6, <1>7, <1>8
<1>10. longer \in [1..(Len(pending'.items) + 1) -> Nat]
  BY <1>6, <1>7
<1>11. CarriesOn(pending'.items, pending'.offset, typed'.arrived, longer)
  BY <1>6, <1>7, <1>8
<1> QED BY <1>7, <1>8, <1>9, <1>10, <1>11 DEF TypingInv

\* What is dropped was not written, and nothing more is accepted.
LEMMA TypingDropped ==
    ASSUME typed \in TypedType, TypingInv, pending' = EmptyPending, typed' = typed, ~Accepting'
    PROVE  TypingInv'
<1> DEFINE start == [i \in 1..1 |-> typed.arrived + 1]
<1>1. /\ pending'.items = <<>> /\ pending'.offset = 0 /\ Len(pending'.items) = 0
  BY DEF EmptyPending
<1>2. typed.arrived \in Nat
  BY DEF TypedType
<1>3. start \in [1..(Len(pending'.items) + 1) -> Nat] /\ start[1] = typed.arrived + 1
  BY <1>1, <1>2
<1> HIDE DEF start
<1>4. start[1] + (IF pending'.items # <<>> /\ FromUser(pending'.items[1]) THEN pending'.offset ELSE 0)
        = typed'.arrived + 1
  BY <1>1, <1>2, <1>3
<1>5. CarriesOn(pending'.items, pending'.offset, typed'.arrived, start)
  BY <1>1, <1>3, <1>4 DEF CarriesOn
<1> QED BY <1>1, <1>3, <1>5 DEF TypingInv

LEMMA TypingFlushed ==
    ASSUME pending \in PendingType, typed \in TypedType, TypingInv, pending.items # <<>>,
           NEW k \in 1..Head(pending.items).size, Flushed(k),
           Accepting' => Accepting
    PROVE  TypingInv'
<1> DEFINE front == Head(pending.items)
           items == pending.items
           offset == pending.offset
           n == Len(pending.items)
<1>1. /\ items \in Seq(Packet) /\ offset \in Nat /\ typed.arrived \in Nat /\ typed.accepted \in Nat
      /\ front \in Packet /\ front = items[1] /\ n \in Nat /\ n >= 1
  BY DEF PendingType, TypedType
<1>2. front.first \in Nat /\ front.size \in Nat /\ k \in Nat /\ k >= 1
  BY <1>1 DEF Packet
<1>3. /\ offset + k <= front.size
      /\ pending' = [items |-> IF offset + k = front.size THEN Tail(items) ELSE items,
                     offset |-> IF offset + k = front.size THEN 0 ELSE offset + k,
                     bytes |-> pending.bytes - k]
      /\ typed' = IF front.first = 0 THEN typed
                  ELSE [typed EXCEPT !.arrived = front.first + offset + k - 1,
                                     !.garbled = @ \/ front.first + offset # typed.arrived + 1]
  BY DEF Flushed
<1>4. PICK start \in [1..(n + 1) -> Nat] :
         /\ CarriesOn(items, offset, typed.arrived, start)
         /\ Accepting => start[n + 1] = typed.accepted + 1
  BY DEF TypingInv
<1>5. items # <<>> /\ ~typed.garbled
  BY DEF TypingInv
<1> HIDE DEF front, items, offset, n
<1>6. /\ start[1] \in Nat /\ start[2] \in Nat /\ start[2] = start[1] + UserBytes(front)
      /\ FromUser(front) => front.first = start[1]
      /\ start[1] + (IF FromUser(front) THEN offset ELSE 0) = typed.arrived + 1
  <2>1. 1 \in 1..n /\ 1 \in 1..(n + 1) /\ 2 \in 1..(n + 1) /\ 1 + 1 = 2
    BY <1>1
  <2>2. Len(items) = n
    BY DEF items, n
  <2> QED BY <1>1, <1>4, <1>5, <2>1, <2>2 DEF CarriesOn
<1>7. typed'.accepted = typed.accepted /\ ~typed'.garbled
  <2>1. CASE front.first = 0
    BY <1>3, <1>5, <2>1
  <2>2. CASE front.first # 0
    <3>1. front.first + offset = typed.arrived + 1
      BY <1>6, <2>2 DEF FromUser
    <3> QED BY <1>3, <1>5, <2>2, <3>1 DEF TypedType
  <2> QED BY <2>1, <2>2
<1>8. typed'.arrived = IF FromUser(front) THEN start[1] + offset + k - 1 ELSE typed.arrived
  BY <1>3, <1>6 DEF FromUser, TypedType
<1>9. typed'.arrived \in Nat
  BY <1>1, <1>2, <1>6, <1>8
<1>10. CASE offset + k = front.size
  <2>1. pending'.items = Tail(items) /\ pending'.offset = 0
    BY <1>3, <1>10
  <2>2. start[2] = typed'.arrived + 1
    <3>1. CASE FromUser(front)
      <4>1. UserBytes(front) = front.size
        BY <3>1 DEF UserBytes
      <4> QED BY <1>1, <1>2, <1>6, <1>8, <1>10, <3>1, <4>1
    <3>2. CASE ~FromUser(front)
      <4>1. UserBytes(front) = 0
        BY <3>2 DEF UserBytes
      <4> QED BY <1>1, <1>6, <1>8, <3>2, <4>1
    <3> QED BY <3>1, <3>2
  <2>3. PICK rest \in [1..(Len(Tail(items)) + 1) -> Nat] :
           /\ CarriesOn(Tail(items), 0, typed'.arrived, rest)
           /\ rest[Len(Tail(items)) + 1] = start[Len(items) + 1]
    BY <1>1, <1>4, <1>5, <1>9, <2>2, TailContinues
  <2>4. Accepting' => rest[Len(pending'.items) + 1] = typed'.accepted + 1
    BY <1>4, <1>7, <2>1, <2>3 DEF n, items
  <2> QED BY <1>7, <2>1, <2>3, <2>4 DEF TypingInv
<1>11. CASE offset + k # front.size
  <2>1. pending'.items = items /\ pending'.offset = offset + k
    BY <1>3, <1>11
  <2>2. start[1] + (IF items # <<>> /\ FromUser(items[1]) THEN offset + k ELSE 0) = typed'.arrived + 1
    BY <1>1, <1>2, <1>5, <1>6, <1>8
  <2>3. CarriesOn(pending'.items, pending'.offset, typed'.arrived, start)
    BY <1>4, <2>1, <2>2 DEF CarriesOn
  <2>4. start \in [1..(Len(pending'.items) + 1) -> Nat]
    BY <1>4, <2>1 DEF n, items
  <2>5. Accepting' => start[Len(pending'.items) + 1] = typed'.accepted + 1
    BY <1>4, <1>7, <2>1 DEF n, items
  <2> QED BY <1>5, <1>7, <2>1, <2>3, <2>4, <2>5 DEF TypingInv
<1> QED BY <1>10, <1>11

LEMMA TypingInit == IOInit => TypingInv
<1> SUFFICES ASSUME IOInit PROVE TypingInv
  OBVIOUS
<1> DEFINE start == [i \in 1..1 |-> 1]
<1>1. /\ pending.items = <<>> /\ pending.offset = 0 /\ Len(pending.items) = 0
      /\ typed.arrived = 0 /\ typed.accepted = 0 /\ ~typed.garbled
  BY DEF IOInit
<1>2. start \in [1..(Len(pending.items) + 1) -> Nat] /\ start[1] = 1
  BY <1>1
<1> HIDE DEF start
<1>3. CarriesOn(pending.items, pending.offset, typed.arrived, start)
  BY <1>1, <1>2 DEF CarriesOn
<1> QED BY <1>1, <1>2, <1>3 DEF TypingInv

LEMMA TypingStep ==
    ASSUME EngineTypeOK, collector.hand \in Nat, TypingInv, [IONext]_ioVars PROVE TypingInv'
<1>0. screen \in ScreenType /\ pending \in PendingType /\ typed \in TypedType
  BY DEF EngineTypeOK
<1>1. Accepting' => Accepting
  BY <1>0, ScreenStep DEF Accepting, Follows
<1>2. CASE UNCHANGED <<pending, typed>>
  BY <1>0, <1>1, <1>2, TypingReply
<1>3. CASE CollectorTicks
  <2>1. CASE pending.items # <<>> /\ \E k \in 1..Head(pending.items).size : Flushed(k)
    BY <1>0, <1>1, <2>1, TypingFlushed
  <2>2. ASSUME NEW flushed \in {FALSE, screen.synced}, EngineTick(flushed, TRUE),
               pending' = EmptyPending, typed' = typed
        PROVE  TypingInv'
    <3>1. screen'.error
      <4> DEFINE e == IF flushed THEN [screen EXCEPT !.synced = FALSE, !.shown = screen.taken] ELSE screen
                 after == [e EXCEPT !.error = @ \/ TRUE]
      <4>1. screen' = IF flushed \/ after.error # screen.error THEN Changed(after) ELSE after
        BY <2>2 DEF EngineTick
      <4>2. e \in ScreenType
        BY <1>0 DEF ScreenType
      <4> HIDE DEF e
      <4>3. after \in ScreenType /\ after.error
        BY <4>2 DEF ScreenType
      <4> HIDE DEF after
      <4>4. Changed(after).error
        BY <4>3 DEF Changed, ScreenType
      <4> QED BY <4>1, <4>3, <4>4
    <3> QED BY <1>0, <2>2, <3>1, TypingDropped DEF Accepting
  <2> QED BY <1>2, <1>3, <2>1, <2>2 DEF CollectorTicks, engineVars
<1>4. CASE ProcessChunk
  <2>1. /\ typed' = typed
        /\ pending' = pending \/ pending' = Queued([first |-> 0, size |-> 1], 1)
    BY <1>4 DEF ProcessChunk, Process, Queued
  <2> QED BY <1>0, <1>1, <2>1, TypingReply
<1>5. ASSUME NEW n \in 1..2, Input(n) PROVE TypingInv'
  BY <1>0, <1>5, TypingInput
<1>6. CASE TickCutoff
  <2>1. CASE UNCHANGED pending
    BY <1>2, <1>6, <2>1 DEF TickCutoff
  <2>2. CASE pending' = EmptyPending /\ typed' = typed /\ screen' = Finished(Limited(screen))
    <3>1. Limited(screen) \in ScreenType /\ Limited(screen).gen = screen.gen
          /\ (screen.error => Limited(screen).error)
      BY <1>0, Touches
    <3>2. screen'.closed
      BY <1>0, <2>2, <3>1, FinishedFollows
    <3> QED BY <1>0, <2>2, <3>2, TypingDropped DEF Accepting
  <2> QED BY <1>6, <2>1, <2>2 DEF TickCutoff, Limited
<1>7. CollectorStep => CollectorTicks \/ ProcessChunk \/ UNCHANGED <<pending, typed>>
  BY DEF CollectorStep, CollectorStops, CollectorIdles, CollectorReads, CollectorEof, CollectorFails,
         CollectorCloses, OfferChunk, SendChunk, engineVars
<1>8. ActorStep => (\E n \in 1..2 : Input(n)) \/ TickCutoff \/ UNCHANGED <<pending, typed>>
  BY DEF ActorStep, Scroll, Fetch, TickStatus, TickFreeze, FinishRun, TickExit, engineVars
<1>9. CASE ChildWrites \/ ChildExits \/ LastWriterEnds \/ WriterStep \/ UNCHANGED ioVars
  BY <1>2, <1>9
  DEF ChildWrites, ChildExits, LastWriterEnds, WriterStep, WriterTakes, WriterTimesOut, WriterChecks,
      WriterWrites, WriterSyncs, ioVars, engineVars
<1> QED BY <1>2, <1>3, <1>4, <1>5, <1>6, <1>7, <1>8, <1>9 DEF IONext

\* Whatever is written to the PTY at a time, answered in between or dropped on
\* an error, the user's bytes reach the child in the order they were accepted
\* and without a gap (terminal.rs Engine::flush, input).
THEOREM TypedAlwaysInOrder == IOSpec => []TypedInOrder
<1>1. IOInit => IOTypeOK /\ TypingInv
  BY IOTypeInit, TypingInit
<1>2. IOTypeOK /\ TypingInv /\ [IONext]_ioVars => (IOTypeOK /\ TypingInv)'
  BY IOTypeStep, TypingStep DEF IOTypeOK, FlowTypeOK
<1>3. TypingInv => TypedInOrder
  BY DEF TypingInv, TypedInOrder
<1> QED BY <1>1, <1>2, <1>3, PTL DEF IOSpec
-----------------------------------------------------------------------------
(* The log.                                                                *)

LEMMA FlowFacts ==
    ASSUME FlowTypeOK
    PROVE  /\ queue \in Seq(Nat) /\ Len(queue) \in Nat
           /\ log.file \in Seq(Nat) /\ Len(log.file) \in Nat /\ log.hand \in Nat
           /\ log.state \in LogStates
           /\ collector.read \in Nat /\ collector.hand \in Nat /\ collector.at \in CollectorPlaces
           /\ sink.stopped \in BOOLEAN /\ sink.limited \in BOOLEAN
           /\ sink.partial \in BOOLEAN /\ sink.finished \in BOOLEAN
           /\ child.out \in Nat
           /\ InWriter \in Nat /\ InCollector \in Nat
BY DEF FlowTypeOK, InWriter, InCollector

LEMMA PrefixInit == IOInit => PrefixInv
<1> SUFFICES ASSUME IOInit PROVE PrefixInv
  OBVIOUS
<1>1. /\ collector.at = "top" /\ collector.read = 0 /\ ~sink.limited
      /\ log.at = "recv" /\ log.state = "recording"
      /\ log.file = <<>> /\ queue = <<>>
  BY DEF IOInit
<1>2. Len(log.file) = 0 /\ Len(queue) = 0
  BY <1>1
<1>3. Passed + InCollector = collector.read
  BY <1>1, <1>2 DEF Passed, InCollector, InWriter
<1> QED BY <1>1, <1>2, <1>3 DEF PrefixInv

\* Steps that neither move a chunk nor start to.
LEMMA PrefixQuiet ==
    ASSUME FlowTypeOK, PrefixInv, queue' = queue,
           log'.file = log.file, log'.hand = log.hand,
           log'.at = "write" <=> log.at = "write",
           log'.state \in {"recording", "limited"} => log'.state = log.state,
           collector'.read = collector.read,
           \/ collector' = collector
           \/ {collector.at, collector'.at} \cap {"offer", "send"} = {},
           sink'.limited = sink.limited, sink.stopped => sink'.stopped
    PROVE  PrefixInv'
<1>1. InWriter' = InWriter /\ InCollector' = InCollector /\ Passed' = Passed
  BY DEF InWriter, InCollector, Passed
<1>2. collector'.at \in {"offer", "send"} => collector' = collector
  OBVIOUS
<1>3. /\ collector'.at \in {"offer", "send"} => collector'.hand = collector'.read
      /\ sink'.limited => sink'.stopped /\ collector'.at # "send"
      /\ log'.state = "limited" => ~(Len(log'.file) < LogLimit)
      /\ \A i \in 1..Len(log'.file) : log'.file[i] = i
  BY <1>2 DEF PrefixInv
<1>4. log'.state = "recording" =>
          /\ log'.at = "write" => log'.hand = Len(log'.file) + 1
          /\ collector'.at = "send" \/ ~sink'.stopped => Passed' + InCollector' = collector'.read
  BY <1>1, <1>2 DEF PrefixInv
<1>5. log'.state = "recording" => \A i \in 1..Len(queue') : queue'[i] = Len(log'.file) + InWriter' + i
  BY <1>1 DEF PrefixInv
<1> QED BY <1>3, <1>4, <1>5 DEF PrefixInv

LEMMA PrefixReads == ASSUME FlowTypeOK, PrefixInv, CollectorReads PROVE PrefixInv'
<1>1. /\ UNCHANGED <<sink, queue, log>> /\ collector.at = "poll"
      /\ collector'.at = "offer" /\ collector'.read = collector.read + 1
      /\ collector'.hand = collector.read + 1
  BY DEF CollectorReads, logVars
<1>2. InWriter' = InWriter /\ Passed' = Passed /\ InCollector = 0 /\ InCollector' = 1
  BY <1>1 DEF InWriter, InCollector, Passed
<1>3. Passed \in Nat /\ collector.read \in Nat
  BY FlowFacts DEF Passed
<1>4. log'.state = "recording" /\ ~sink'.stopped => Passed' + InCollector' = collector'.read
  BY <1>1, <1>2, <1>3 DEF PrefixInv
<1> QED BY <1>1, <1>2, <1>4 DEF PrefixInv

LEMMA PrefixOffers == ASSUME FlowTypeOK, PrefixInv, OfferChunk PROVE PrefixInv'
<1>1. /\ UNCHANGED <<sink, queue, log>> /\ collector.at = "offer"
      /\ collector'.at = IF sink.stopped THEN "process" ELSE "send"
      /\ collector'.read = collector.read /\ collector'.hand = collector.hand
  BY DEF OfferChunk, logVars, FlowTypeOK
<1>2. InWriter' = InWriter /\ Passed' = Passed /\ (~sink.stopped => InCollector' = InCollector)
  BY <1>1 DEF InWriter, InCollector, Passed
<1> QED BY <1>1, <1>2 DEF PrefixInv

LEMMA NextPlace ==
    ASSUME NEW a \in Nat, NEW b \in Nat, NEW c \in Nat
    PROVE  /\ a + b + (c + 1) = a + b + c + 1 /\ a + b + c \in Nat
           /\ a + 0 + (c + 1) = a + 1 + c
OBVIOUS

LEMMA PrefixSends == ASSUME FlowTypeOK, PrefixInv, SendChunk PROVE PrefixInv'
<1>1. /\ log' = log /\ collector.at = "send" /\ collector'.at = "process"
      /\ collector'.read = collector.read /\ collector.hand = collector.read
  BY DEF SendChunk, FlowTypeOK, PrefixInv
<1>2. InWriter' = InWriter /\ InCollector = 1 /\ InCollector' = 0
  BY <1>1 DEF InWriter, InCollector
<1>3. CASE queue' = Append(queue, collector.hand) /\ sink' = sink
  <2>1. /\ Len(queue') = Len(queue) + 1 /\ queue'[Len(queue) + 1] = collector.read
        /\ \A i \in 1..Len(queue) : queue'[i] = queue[i]
    BY <1>1, <1>3, FlowFacts
  <2>2. Passed' = Passed + 1 /\ Passed \in Nat
    <3>1. Len(queue) \in Nat /\ Len(log.file) \in Nat /\ InWriter \in Nat
      BY FlowFacts
    <3>2. Passed' = Len(log.file) + InWriter + Len(queue')
      BY <1>1, <1>2 DEF Passed
    <3>3. Passed' = Len(log.file) + InWriter + (Len(queue) + 1)
      BY <2>1, <3>2
    <3>4. Passed' = Len(log.file) + InWriter + Len(queue) + 1 /\ Len(log.file) + InWriter + Len(queue) \in Nat
      BY <3>1, <3>3, NextPlace
    <3>5. Passed = Len(log.file) + InWriter + Len(queue)
      BY DEF Passed
    <3> QED BY <3>4, <3>5
  <2>3. log.state = "recording" => Passed + 1 = collector.read
    BY <1>1, <1>2 DEF PrefixInv
  <2>4. log.state = "recording" => \A i \in 1..Len(queue') : queue'[i] = Len(log.file) + InWriter + i
    <3> SUFFICES ASSUME log.state = "recording", NEW i \in 1..Len(queue')
                 PROVE  queue'[i] = Len(log.file) + InWriter + i
      OBVIOUS
    <3>1. CASE i \in 1..Len(queue)
      BY <2>1, <3>1 DEF PrefixInv
    <3>2. CASE i = Len(queue) + 1
      <4>1. Len(log.file) + InWriter + (Len(queue) + 1) = Passed + 1
        <5>1. Len(queue) \in Nat /\ Len(log.file) \in Nat /\ InWriter \in Nat
          BY FlowFacts
        <5>2. Len(log.file) + InWriter + (Len(queue) + 1) = Len(log.file) + InWriter + Len(queue) + 1
          BY <5>1, NextPlace
        <5> QED BY <5>2 DEF Passed
      <4>2. queue'[i] = collector.read
        BY <2>1, <3>2
      <4> QED BY <2>3, <3>2, <4>1, <4>2
    <3> QED BY <2>1, <3>1, <3>2, FlowFacts
  <2>5. Passed' + InCollector' = Passed + 1
    BY <1>2, <2>2
  <2>6. log'.state = "recording" => \A i \in 1..Len(queue') : queue'[i] = Len(log'.file) + InWriter' + i
    BY <1>1, <1>2, <2>4
  <2> QED BY <1>1, <1>3, <2>3, <2>5, <2>6 DEF PrefixInv
<1>4. CASE queue' = queue /\ sink' = Lost(sink)
  <2>1. sink'.limited /\ sink'.stopped
    BY <1>4 DEF Lost, FlowTypeOK
  <2> QED BY <1>1, <1>2, <1>4, <2>1 DEF PrefixInv
<1> QED BY <1>3, <1>4 DEF SendChunk

LEMMA PrefixTakes == ASSUME FlowTypeOK, PrefixInv, WriterTakes PROVE PrefixInv'
<1>1. /\ collector' = collector /\ sink' = sink /\ queue # <<>> /\ queue' = Tail(queue)
      /\ log.at = "recv" /\ log'.at = "write" /\ log'.hand = Head(queue)
      /\ log'.file = log.file /\ log'.state = log.state
  BY DEF WriterTakes, FlowTypeOK
<1>2. InWriter = 0 /\ InWriter' = 1 /\ InCollector' = InCollector
  BY <1>1 DEF InWriter, InCollector
<1>3. Len(log.file) \in Nat /\ Len(queue) \in Nat /\ queue \in Seq(Nat)
  BY FlowFacts
<1>4. /\ Len(queue) >= 1 /\ Head(queue) = queue[1] /\ Len(queue') = Len(queue) - 1
      /\ \A i \in 1..Len(queue') : queue'[i] = queue[i + 1]
  BY <1>1, <1>3
<1>5. Passed' = Passed
  <2>1. Passed = Len(log.file) + 0 + Len(queue) /\ Passed' = Len(log.file) + 1 + Len(queue')
    BY <1>1, <1>2 DEF Passed
  <2> QED BY <1>3, <1>4, <2>1
<1>6. ASSUME log.state = "recording"
      PROVE  /\ log'.hand = Len(log'.file) + 1
             /\ \A i \in 1..Len(queue') : queue'[i] = Len(log'.file) + InWriter' + i
  <2>1. \A i \in 1..Len(queue) : queue[i] = Len(log.file) + 0 + i
    BY <1>2, <1>6 DEF PrefixInv
  <2>2. queue[1] = Len(log.file) + 1
    BY <1>3, <1>4, <2>1
  <2>3. ASSUME NEW i \in 1..Len(queue') PROVE queue'[i] = Len(log.file) + 1 + i
    <3>1. i \in Nat /\ i + 1 \in 1..Len(queue)
      BY <1>3, <1>4
    <3>2. queue[i + 1] = Len(log.file) + 0 + (i + 1)
      BY <2>1, <3>1
    <3>3. Len(log.file) + 0 + (i + 1) = Len(log.file) + 1 + i
      <4>1. Len(log.file) \in Nat /\ i \in Nat
        BY <1>3, <3>1
      <4>2. \A a, b \in Nat : a + 0 + (b + 1) = a + 1 + b
        OBVIOUS
      <4> QED BY <4>1, <4>2
    <3> QED BY <1>4, <3>2, <3>3
  <2> QED BY <1>1, <1>2, <1>4, <2>2, <2>3
<1>7. log'.state = "recording" /\ (collector'.at = "send" \/ ~sink'.stopped)
        => Passed' + InCollector' = collector'.read
  BY <1>1, <1>2, <1>5 DEF PrefixInv
<1> QED BY <1>1, <1>6, <1>7 DEF PrefixInv

LEMMA PrefixWrites == ASSUME FlowTypeOK, PrefixInv, NEW ok \in BOOLEAN, WriterWrites(ok) PROVE PrefixInv'
<1>1. /\ collector' = collector /\ sink' = sink /\ queue' = queue
      /\ log.at = "write" /\ log'.at = "recv"
  BY DEF WriterWrites, FlowTypeOK
<1>2. InWriter = 1 /\ InWriter' = 0 /\ InCollector' = InCollector
  BY <1>1 DEF InWriter, InCollector
<1>3. Len(log.file) \in Nat /\ Len(queue) \in Nat /\ log.file \in Seq(Nat) /\ log.hand \in Nat
      /\ collector.read \in Nat /\ InCollector \in Nat
  BY FlowFacts
<1>4. CASE log.state = "recording" /\ Len(log.file) < LogLimit /\ ok
  <2>1. log'.file = Append(log.file, log.hand) /\ log'.state = "recording"
    BY <1>4 DEF WriterWrites, FlowTypeOK
  <2>2. log.hand = Len(log.file) + 1
    BY <1>1, <1>4 DEF PrefixInv
  <2>3. /\ Len(log'.file) = Len(log.file) + 1 /\ log'.file[Len(log.file) + 1] = Len(log.file) + 1
        /\ \A i \in 1..Len(log.file) : log'.file[i] = log.file[i]
    BY <1>3, <2>1, <2>2
  <2>4. \A i \in 1..Len(log'.file) : log'.file[i] = i
    <3> SUFFICES ASSUME NEW i \in 1..Len(log'.file) PROVE log'.file[i] = i
      OBVIOUS
    <3>1. i \in 1..Len(log.file) \/ i = Len(log.file) + 1
      BY <1>3, <2>3
    <3>2. \A k \in 1..Len(log.file) : log.file[k] = k
      BY DEF PrefixInv
    <3> QED BY <2>3, <3>1, <3>2
  <2>5. Passed' = Passed
    <3>1. Passed = Len(log.file) + 1 + Len(queue) /\ Passed' = Len(log'.file) + 0 + Len(queue)
      BY <1>1, <1>2 DEF Passed
    <3> QED BY <1>3, <2>3, <3>1
  <2>6. \A i \in 1..Len(queue') : queue'[i] = Len(log'.file) + InWriter' + i
    <3>1. \A i \in 1..Len(queue) : queue[i] = Len(log.file) + 1 + i
      BY <1>2, <1>4 DEF PrefixInv
    <3> QED BY <1>1, <1>2, <1>3, <2>3, <3>1
  <2>7. collector'.at = "send" \/ ~sink'.stopped => Passed' + InCollector' = collector'.read
    BY <1>1, <1>2, <1>4, <2>5 DEF PrefixInv
  <2> QED BY <1>1, <2>1, <2>4, <2>6, <2>7 DEF PrefixInv
<1>5. CASE ~(log.state = "recording" /\ Len(log.file) < LogLimit /\ ok)
  <2>1. log'.file = log.file
    BY <1>5 DEF WriterWrites, FlowTypeOK, PrefixInv
  <2>2. /\ log'.state # "recording"
        /\ log'.state = "limited" => ~(Len(log.file) < LogLimit)
    BY <1>5 DEF WriterWrites, FlowTypeOK, PrefixInv
  <2> QED BY <1>1, <2>1, <2>2 DEF PrefixInv
<1> QED BY <1>4, <1>5

\* A terminal keeps being a PTY or a pair of pipes.
LEMMA PipedStays == ASSUME FlowTypeOK, [IONext]_ioVars PROVE child'.piped = child.piped
<1>1. ChildWrites \/ ChildExits \/ LastWriterEnds \/ UNCHANGED child
  BY DEF IONext, CollectorStep, CollectorStops, CollectorTicks,
      CollectorIdles, CollectorReads, CollectorEof, CollectorFails, CollectorCloses, OfferChunk, SendChunk,
      ProcessChunk, ActorStep, Input, Scroll, Fetch, TickStatus, TickExit, TickCutoff, TickFreeze, FinishRun,
      WriterStep, WriterTakes, WriterTimesOut, WriterChecks, WriterWrites, WriterSyncs, ioVars
<1> QED BY <1>1 DEF ChildWrites, ChildExits, LastWriterEnds, FlowTypeOK

LEMMA PrefixStep == ASSUME NothingSkipped, FlowTypeOK, PrefixInv, [IONext]_ioVars PROVE PrefixInv'
<1>1. CASE UNCHANGED <<collector, sink, queue, log>>
  BY <1>1, PrefixQuiet
<1>2. CASE TickStatus \/ TickCutoff \/ FinishRun
  <2>1. /\ UNCHANGED <<collector, queue, log>>
        /\ sink'.limited = sink.limited /\ (sink.stopped => sink'.stopped)
    BY <1>2 DEF TickStatus, TickCutoff, FinishRun, FlowTypeOK
  <2> QED BY <2>1, PrefixQuiet
<1>3. CASE \/ CollectorStops \/ CollectorTicks \/ CollectorIdles \/ CollectorEof \/ CollectorFails
           \/ CollectorCloses \/ ProcessChunk
  <2>1. /\ UNCHANGED <<sink, queue, log>> /\ collector'.read = collector.read
        /\ collector.at \notin {"offer", "send"} /\ collector'.at \notin {"offer", "send"}
    BY <1>3 DEF CollectorStops, CollectorTicks, CollectorIdles, CollectorEof, CollectorFails,
                CollectorCloses, ProcessChunk, logVars, FlowTypeOK, NothingSkipped
  <2> QED BY <2>1, PrefixQuiet
<1>4. CASE WriterTimesOut \/ WriterChecks \/ \E ok \in BOOLEAN : WriterSyncs(ok)
  <2>1. /\ UNCHANGED <<collector, sink, queue>>
        /\ log'.file = log.file /\ log'.hand = log.hand
        /\ log.at # "write" /\ log'.at # "write"
        /\ log'.state \in {"recording", "limited"} => log'.state = log.state
    BY <1>4 DEF WriterTimesOut, WriterChecks, WriterSyncs, AfterTimeout, FlowTypeOK
  <2> QED BY <2>1, PrefixQuiet
<1>5. CASE ChildWrites \/ ChildExits \/ LastWriterEnds \/ UNCHANGED ioVars
  BY <1>1, <1>5 DEF ChildWrites, ChildExits, LastWriterEnds, ioVars, logVars
<1>6. CASE CollectorStep
  BY <1>3, <1>6, PrefixReads, PrefixOffers, PrefixSends DEF CollectorStep
<1>7. CASE WriterStep
  BY <1>4, <1>7, PrefixTakes, PrefixWrites DEF WriterStep
<1>8. CASE ActorStep
  BY <1>1, <1>2, <1>8 DEF ActorStep, Input, Scroll, Fetch, TickExit, TickFreeze, logVars
<1> QED BY <1>5, <1>6, <1>7, <1>8 DEF IONext

LEMMA EndInit == IOInit => EndSound
<1> SUFFICES ASSUME IOInit PROVE EndSound
  OBVIOUS
<1>1. ~sink.stopped /\ ~sink.finished /\ collector.at = "top" /\ ~stop /\ ~screen.closed /\ tick = "idle"
  BY DEF IOInit
<1> QED BY <1>1 DEF EndSound

\* What was read to its end stays so.
LEMMA AllReadStays == ASSUME FlowTypeOK, AllRead, [IONext]_ioVars PROVE AllRead'
<1>1. collector.at \in {"closing", "done"} /\ collector.read = child.out /\ ~child.open
  BY DEF AllRead
<1>2. UNCHANGED child \/ (child'.out = child.out /\ ~child'.open)
  BY <1>1 DEF IONext, ChildWrites, ChildExits, LastWriterEnds, CollectorStep, CollectorStops, CollectorTicks,
      CollectorIdles, CollectorReads, CollectorEof, CollectorFails, CollectorCloses, OfferChunk, SendChunk,
      ProcessChunk, ActorStep, Input, Scroll, Fetch, TickStatus, TickExit, TickCutoff, TickFreeze, FinishRun,
      WriterStep, WriterTakes, WriterTimesOut, WriterChecks, WriterWrites, WriterSyncs, ioVars, FlowTypeOK
<1>3. UNCHANGED collector \/ (collector'.at = "done" /\ collector'.read = collector.read)
  BY <1>1 DEF IONext, ChildWrites, ChildExits, LastWriterEnds, CollectorStep, CollectorStops, CollectorTicks,
      CollectorIdles, CollectorReads, CollectorEof, CollectorFails, CollectorCloses, OfferChunk, SendChunk,
      ProcessChunk, ActorStep, Input, Scroll, Fetch, TickStatus, TickExit, TickCutoff, TickFreeze, FinishRun,
      WriterStep, WriterTakes, WriterTimesOut, WriterChecks, WriterWrites, WriterSyncs, ioVars, FlowTypeOK
<1> QED BY <1>1, <1>2, <1>3 DEF AllRead

\* Only the collector at its end, and the actor that cuts it off, close a screen.
LEMMA ClosedBy ==
    ASSUME screen \in ScreenType, [IONext]_ioVars, screen'.closed
    PROVE  screen.closed \/ CollectorEof \/ CollectorFails \/ CollectorCloses \/ TickCutoff
<1> DEFINE Fine == screen'.closed = screen.closed
<1>1. CASE CollectorTicks
  <2>1. ASSUME NEW flushed \in {FALSE, screen.synced}, NEW failed \in BOOLEAN, EngineTick(flushed, failed)
        PROVE  Fine
    <3> DEFINE e == IF flushed THEN [screen EXCEPT !.synced = FALSE, !.shown = screen.taken] ELSE screen
               after == [e EXCEPT !.error = @ \/ failed]
    <3>1. screen' = IF flushed \/ after.error # screen.error THEN Changed(after) ELSE after
      BY <2>1 DEF EngineTick
    <3>2. e \in ScreenType /\ e.closed = screen.closed
      BY DEF ScreenType
    <3> HIDE DEF e
    <3>3. after \in ScreenType /\ after.closed = e.closed
      BY <3>2 DEF ScreenType
    <3> HIDE DEF after
    <3>4. Changed(after).closed = after.closed
      BY <3>3 DEF Changed, ScreenType
    <3> QED BY <3>1, <3>2, <3>3, <3>4
  <2> QED BY <1>1, <2>1 DEF CollectorTicks, engineVars
<1>2. CASE ProcessChunk
  <2>1. ASSUME NEW n, Process(n) PROVE Fine
    <3>1. PICK sync \in BOOLEAN, limited \in BOOLEAN :
             \/ screen' = Changed(Drawn(screen, n, sync, limited))
             \/ screen' = Changed(Limited(screen))
             \/ screen' = screen
      <4>1. PICK sync \in BOOLEAN, visible \in BOOLEAN, over \in BOOLEAN, reply \in BOOLEAN :
               LET limited == screen.limited \/ over \/ (reply /\ ~Answered(reply))
               IN screen' = IF visible THEN Changed(Drawn(screen, n, sync, limited))
                            ELSE IF limited # screen.limited THEN Changed(Limited(screen))
                            ELSE screen
        BY <2>1 DEF Process, Drawn, Limited
      <4> DEFINE limited == screen.limited \/ over \/ (reply /\ ~Answered(reply))
      <4>2. limited \in BOOLEAN
        OBVIOUS
      <4> HIDE DEF limited
      <4>3. \/ screen' = Changed(Drawn(screen, n, sync, limited))
            \/ screen' = Changed(Limited(screen))
            \/ screen' = screen
        BY <4>1 DEF limited
      <4> QED BY <4>2, <4>3
    <3>2. Changed(Drawn(screen, n, sync, limited)).closed = screen.closed
      BY DEF Changed, Drawn, ScreenType
    <3>3. Changed(Limited(screen)).closed = screen.closed
      BY DEF Changed, Limited, ScreenType
    <3> QED BY <3>1, <3>2, <3>3
  <2> QED BY <1>2, <2>1 DEF ProcessChunk
<1>3. CASE Scroll \/ \E n \in 1..2 : Input(n)
  BY <1>3 DEF Scroll, Input, Changed, ScreenType
<1>4. CASE \/ CollectorStops \/ CollectorIdles \/ CollectorReads \/ OfferChunk \/ SendChunk
           \/ ChildWrites \/ ChildExits \/ LastWriterEnds \/ WriterStep \/ UNCHANGED ioVars
  BY <1>4 DEF CollectorStops, CollectorIdles, CollectorReads, OfferChunk, SendChunk, ChildWrites, ChildExits,
      LastWriterEnds, WriterStep, WriterTakes, WriterTimesOut, WriterChecks, WriterWrites, WriterSyncs,
      ioVars, engineVars
<1>5. CASE Fetch \/ TickStatus \/ TickFreeze \/ FinishRun \/ \E late \in BOOLEAN : TickExit(late)
  BY <1>5 DEF Fetch, TickStatus, TickFreeze, FinishRun, TickExit, engineVars
<1> QED BY <1>1, <1>2, <1>3, <1>4, <1>5 DEF IONext, CollectorStep, ActorStep

LEMMA EofReadsAll == ASSUME FlowTypeOK, CollectorEof PROVE AllRead'
<1>1. /\ child' = child /\ collector.read = child.out /\ ~child.open
      /\ collector'.read = collector.read /\ collector'.at \in {"closing", "done"}
  BY DEF CollectorEof, FlowTypeOK
<1> QED BY <1>1 DEF AllRead

LEMMA CutoffCloses == ASSUME screen \in ScreenType, TickCutoff PROVE screen'.closed
<1>1. CASE screen.closed
  BY <1>1 DEF TickCutoff
<1>2. CASE ~screen.closed
  <2>1. screen' = Finished(Limited(screen))
    BY <1>2 DEF TickCutoff, Limited
  <2>2. Limited(screen) \in ScreenType /\ Limited(screen).gen = screen.gen
        /\ (screen.error => Limited(screen).error)
    BY Touches
  <2> QED BY <2>1, <2>2, FinishedFollows
<1> QED BY <1>1, <1>2

\* The flags of the sink, and who sets them.
LEMMA SinkStep ==
    ASSUME FlowTypeOK, [IONext]_ioVars
    PROVE  /\ sink.stopped => sink'.stopped
           /\ sink.limited => sink'.limited
           /\ sink.partial => sink'.partial
           /\ sink.finished => sink'.finished
           /\ sink'.finished = sink.finished \/ FinishRun
           /\ sink'.stopped = sink.stopped \/ FinishRun \/ sink'.limited
<1>1. CASE sink' = sink
  BY <1>1
<1>2. CASE SendChunk
  BY <1>1, <1>2 DEF SendChunk, Lost, FlowTypeOK
<1>3. CASE TickStatus \/ TickCutoff
  BY <1>1, <1>3 DEF TickStatus, TickCutoff, FlowTypeOK
<1>4. CASE FinishRun
  BY <1>4 DEF FinishRun, FlowTypeOK
<1>5. sink' = sink \/ SendChunk \/ TickStatus \/ TickCutoff \/ FinishRun
  BY DEF IONext, ChildWrites, ChildExits, LastWriterEnds, CollectorStep, CollectorStops, CollectorTicks,
      CollectorIdles, CollectorReads, CollectorEof, CollectorFails, CollectorCloses, OfferChunk,
      ProcessChunk, ActorStep, Input, Scroll, Fetch, TickExit, TickFreeze,
      WriterStep, WriterTakes, WriterTimesOut, WriterChecks, WriterWrites, WriterSyncs, ioVars, logVars
<1> QED BY <1>1, <1>2, <1>3, <1>4, <1>5

LEMMA EndStep ==
    ASSUME ~ReadErrors, IOTypeOK, EndSound, [IONext]_ioVars PROVE EndSound'
<1>0. screen \in ScreenType /\ FlowTypeOK /\ collector.hand \in Nat
  BY DEF IOTypeOK, EngineTypeOK, FlowTypeOK
<1>1. AllRead => AllRead'
  BY <1>0, AllReadStays
<1>2. screen.closed => screen'.closed
  BY <1>0, ScreenStep DEF Follows
<1>3. screen'.closed => screen.closed \/ CollectorEof \/ CollectorCloses \/ TickCutoff
  BY <1>0, ClosedBy DEF CollectorFails
<1>4. /\ sink.stopped => sink'.stopped /\ (sink.limited \/ sink.finished)
      /\ sink.limited => sink'.limited
      /\ sink.partial => sink'.partial
      /\ sink.finished => sink'.finished
      /\ sink'.finished = sink.finished \/ FinishRun
      /\ sink'.stopped = sink.stopped \/ FinishRun \/ sink'.limited
  BY <1>0, SinkStep DEF EndSound
<1>5. FinishRun => sink'.finished /\ sink'.stopped /\ screen.closed
  BY <1>0 DEF FinishRun, FlowTypeOK, EndSound
<1>6. sink'.stopped => sink'.limited \/ sink'.finished
  BY <1>4, <1>5
<1>7. stop \/ screen.closed => sink'.partial \/ AllRead'
  BY <1>1, <1>4 DEF EndSound
<1>8. sink'.finished => sink'.stopped /\ (sink'.partial \/ AllRead')
  BY <1>1, <1>4, <1>5, <1>7 DEF EndSound
<1>9. TickCutoff => screen.closed \/ sink'.partial
  BY <1>0 DEF TickCutoff, FlowTypeOK
<1>10. (stop => stop') /\ (stop' => stop \/ TickCutoff \/ FinishRun)
  <2>1. CASE stop' = stop
    BY <2>1
  <2>2. CASE TickCutoff \/ FinishRun
    BY <2>1, <2>2 DEF TickCutoff, FinishRun
  <2>3. stop' = stop \/ TickCutoff \/ FinishRun
    BY DEF IONext, ChildWrites, ChildExits, LastWriterEnds, CollectorStep, CollectorStops, CollectorTicks,
      CollectorIdles, CollectorReads, CollectorEof, CollectorFails, CollectorCloses, OfferChunk, SendChunk,
      ProcessChunk, ActorStep, Input, Scroll, Fetch, TickStatus, TickExit, TickFreeze,
      WriterStep, WriterTakes, WriterTimesOut, WriterChecks, WriterWrites, WriterSyncs, ioVars
  <2> QED BY <2>1, <2>2, <2>3
<1>11. CollectorEof => AllRead'
  BY <1>0, EofReadsAll
<1>12. CollectorCloses => AllRead' \/ sink'.partial
  BY <1>1, <1>7 DEF CollectorCloses, EndSound
<1>13. stop' \/ screen'.closed => sink'.partial \/ AllRead'
  BY <1>3, <1>5, <1>7, <1>9, <1>10, <1>11, <1>12
<1>14. collector'.at = "closing" => collector.at = "closing" \/ CollectorEof \/ (CollectorStops /\ stop)
  <2>1. CASE collector' = collector
    BY <2>1
  <2>2. CASE CollectorStep /\ ~CollectorEof /\ ~CollectorStops
    <3>1. \A at \in CollectorPlaces :
             /\ [collector EXCEPT !.at = at].at = at
             /\ [collector EXCEPT !.at = at, !.hand = 0].at = at
      BY <1>0 DEF FlowTypeOK
    <3>2. CollectorTicks \/ CollectorIdles \/ CollectorReads => collector'.at # "closing"
      <4>1. CollectorTicks => collector' = [collector EXCEPT !.at = "poll"]
        BY DEF CollectorTicks
      <4>2. CollectorIdles => collector' = [collector EXCEPT !.at = "top"]
        BY DEF CollectorIdles
      <4>3. CollectorReads => collector'.at = "offer"
        BY DEF CollectorReads
      <4> QED BY <3>1, <4>1, <4>2, <4>3 DEF CollectorPlaces
    <3>3. ~CollectorFails
      BY DEF CollectorFails
    <3>4. CollectorCloses \/ SendChunk => collector'.at # "closing"
      BY <3>1 DEF CollectorCloses, SendChunk, CollectorPlaces
    <3>5. OfferChunk => collector'.at # "closing"
      BY <3>1 DEF OfferChunk, CollectorPlaces
    <3>6. ProcessChunk => collector'.at # "closing"
      BY <3>1 DEF ProcessChunk, CollectorPlaces
    <3> QED BY <2>2, <3>2, <3>3, <3>4, <3>5, <3>6 DEF CollectorStep
  <2>3. CollectorStops => stop
    BY DEF CollectorStops
  <2>4. CollectorStep \/ collector' = collector
    BY DEF IONext, ChildWrites, ChildExits, LastWriterEnds,
        ActorStep, Input, Scroll, Fetch, TickStatus, TickExit, TickCutoff, TickFreeze, FinishRun,
        WriterStep, WriterTakes, WriterTimesOut, WriterChecks, WriterWrites, WriterSyncs, ioVars
  <2> QED BY <2>1, <2>2, <2>3, <2>4
<1>15. collector'.at = "closing" => AllRead' \/ stop'
  BY <1>1, <1>10, <1>11, <1>14 DEF EndSound
<1>16. tick' \in {"freeze", "frozen", "ended"} => tick \in {"freeze", "frozen", "ended"} \/ TickCutoff
  <2>1. CASE ActorStep
    <3>1. ASSUME NEW late \in BOOLEAN, TickExit(late) PROVE tick' \notin {"freeze", "frozen", "ended"}
      BY <3>1 DEF TickExit
    <3>2. TickStatus => tick' = "exit"
      BY DEF TickStatus
    <3>3. TickFreeze \/ FinishRun => tick \in {"freeze", "frozen", "ended"}
      BY DEF TickFreeze, FinishRun
    <3>4. Scroll \/ Fetch \/ (\E n \in 1..2 : Input(n)) => tick' = tick
      BY DEF Scroll, Fetch, Input
    <3> QED BY <2>1, <3>1, <3>2, <3>3, <3>4 DEF ActorStep
  <2>2. ActorStep \/ tick' = tick
    BY DEF IONext, ChildWrites, ChildExits, LastWriterEnds, CollectorStep, CollectorStops, CollectorTicks,
      CollectorIdles, CollectorReads, CollectorEof, CollectorFails, CollectorCloses, OfferChunk, SendChunk,
      ProcessChunk, WriterStep, WriterTakes, WriterTimesOut, WriterChecks, WriterWrites, WriterSyncs, ioVars
  <2> QED BY <2>1, <2>2
<1>17. tick' \in {"freeze", "frozen", "ended"} => screen'.closed
  BY <1>0, <1>2, <1>16, CutoffCloses DEF EndSound
<1> QED BY <1>6, <1>8, <1>13, <1>15, <1>17 DEF EndSound

LEMMA WriterInit == IOInit => WriterSound
<1> SUFFICES ASSUME IOInit PROVE WriterSound
  OBVIOUS
<1>1. /\ log.at = "recv" /\ log.state = "recording" /\ ~sink.stopped
  BY DEF IOInit
<1> QED BY <1>1 DEF WriterSound

\* Where the log and its queue are, after a step of the writer and of others.
LEMMA LogStep ==
    ASSUME FlowTypeOK, [IONext]_ioVars
    PROVE  \/ UNCHANGED <<log, queue>>
           \/ SendChunk /\ log' = log
           \/ WriterStep /\ UNCHANGED <<child, collector, sink>>
<1>1. CASE WriterStep
  <2>1. UNCHANGED <<child, collector, sink>>
    BY <1>1 DEF WriterStep, WriterTakes, WriterTimesOut, WriterChecks, WriterWrites, WriterSyncs
  <2> QED BY <1>1, <2>1
<1>2. CASE SendChunk
  BY <1>2 DEF SendChunk
<1>3. CASE ~WriterStep /\ ~SendChunk
  BY <1>3 DEF IONext, ChildWrites, ChildExits, LastWriterEnds, CollectorStep, CollectorStops, CollectorTicks,
      CollectorIdles, CollectorReads, CollectorEof, CollectorFails, CollectorCloses, OfferChunk,
      ProcessChunk, ActorStep, Input, Scroll, Fetch, TickStatus, TickExit, TickCutoff, TickFreeze, FinishRun,
      ioVars, logVars
<1> QED BY <1>1, <1>2, <1>3

\* The writer neither loses nor repeats a chunk while it records.
LEMMA PassedStays ==
    ASSUME FlowTypeOK, PrefixInv, WriterStep, log'.state = "recording"
    PROVE  Passed' = Passed /\ log.state = "recording"
<1>1. CASE WriterTakes
  <2>1. /\ queue # <<>> /\ queue' = Tail(queue) /\ log.at = "recv" /\ log'.at = "write"
        /\ log'.file = log.file /\ log'.state = log.state
    BY <1>1 DEF WriterTakes, FlowTypeOK
  <2>2. InWriter = 0 /\ InWriter' = 1
    BY <2>1 DEF InWriter
  <2>3. Len(log.file) \in Nat /\ Len(queue) \in Nat /\ queue \in Seq(Nat)
    BY FlowFacts
  <2>4. Len(queue') = Len(queue) - 1
    BY <2>1, <2>3
  <2>5. Passed = Len(log.file) + 0 + Len(queue) /\ Passed' = Len(log.file) + 1 + Len(queue')
    BY <2>1, <2>2 DEF Passed
  <2> QED BY <2>1, <2>3, <2>4, <2>5
<1>2. ASSUME NEW ok \in BOOLEAN, WriterWrites(ok) PROVE Passed' = Passed /\ log.state = "recording"
  <2>1. /\ queue' = queue /\ log.at = "write" /\ log'.at = "recv"
    BY <1>2 DEF WriterWrites, FlowTypeOK
  <2>2. log.state = "recording" /\ Len(log.file) < LogLimit /\ ok
    BY <1>2 DEF WriterWrites, FlowTypeOK, PrefixInv
  <2>3. log'.file = Append(log.file, log.hand)
    BY <1>2, <2>2 DEF WriterWrites, FlowTypeOK
  <2>4. InWriter = 1 /\ InWriter' = 0
    BY <2>1 DEF InWriter
  <2>5. Len(log.file) \in Nat /\ Len(queue) \in Nat /\ log.file \in Seq(Nat) /\ log.hand \in Nat
    BY FlowFacts
  <2>6. Len(log'.file) = Len(log.file) + 1
    BY <2>3, <2>5
  <2>7. Passed = Len(log.file) + 1 + Len(queue) /\ Passed' = Len(log'.file) + 0 + Len(queue)
    BY <2>1, <2>4 DEF Passed
  <2> QED BY <2>2, <2>5, <2>6, <2>7
<1>3. CASE WriterTimesOut \/ WriterChecks \/ \E ok \in BOOLEAN : WriterSyncs(ok)
  <2>1. /\ queue' = queue /\ log'.file = log.file /\ log.at # "write" /\ log'.at # "write"
        /\ log.state = "recording"
    BY <1>3 DEF WriterTimesOut, WriterChecks, WriterSyncs, AfterTimeout, FlowTypeOK
  <2> QED BY <2>1 DEF Passed, InWriter
<1> QED BY <1>1, <1>2, <1>3 DEF WriterStep

\* Where the sink was stopped and neither limited nor partial, all was read
\* before, and then all that was read is with the log.
LEMMA StoppedReadAll ==
    ASSUME IOTypeOK, PrefixInv, EndSound, WriterSound, [IONext]_ioVars,
           ~sink'.limited, ~sink'.partial, sink'.stopped
    PROVE  /\ AllRead /\ ~sink.limited /\ ~sink.partial
           /\ log.state = "recording" => Passed = collector.read
<1>0. FlowTypeOK
  BY DEF IOTypeOK
<1>1. /\ ~sink.limited /\ ~sink.partial
      /\ sink.finished => AllRead
      /\ sink.stopped => AllRead
  BY <1>0, SinkStep DEF EndSound
<1>2. AllRead
  <2>1. FinishRun => screen.closed
    BY DEF FinishRun, EndSound
  <2> QED BY <1>0, <1>1, <2>1, SinkStep DEF EndSound
<1>3. InCollector = 0
  BY <1>2 DEF AllRead, InCollector
<1>4. log.state = "recording" => Passed = collector.read
  <2>1. CASE sink.stopped
    BY <1>1, <2>1 DEF WriterSound
  <2>2. CASE ~sink.stopped
    <3>1. log.state = "recording" => Passed + InCollector = collector.read
      BY <2>2 DEF PrefixInv
    <3>2. Passed \in Nat
      <4>1. Len(log.file) \in Nat /\ InWriter \in Nat /\ Len(queue) \in Nat
        BY <1>0, FlowFacts
      <4> QED BY <4>1, NextPlace DEF Passed
    <3> QED BY <1>3, <3>1, <3>2
  <2> QED BY <2>1, <2>2
<1> QED BY <1>1, <1>2, <1>4

LEMMA WriterSoundStep ==
    ASSUME ~ReadErrors, ~LateWriter, IOTypeOK, PrefixInv, EndSound, WriterSound, [IONext]_ioVars
    PROVE  WriterSound'
<1>0. FlowTypeOK
  BY DEF IOTypeOK
<1>1. \/ UNCHANGED <<log, queue>>
      \/ SendChunk /\ log' = log
      \/ WriterStep /\ UNCHANGED <<child, collector, sink>>
  BY <1>0, LogStep
<1>2. /\ log'.at # "empty"
      /\ log'.at \in {"sync", "ended"} => sink'.finished
      /\ log'.state = "complete" => log'.at = "ended"
  <2>1. CASE log' = log
    BY <1>0, <2>1, SinkStep DEF WriterSound
  <2>2. CASE WriterTakes
    BY <1>0, <2>2 DEF WriterTakes, WriterSound, FlowTypeOK
  <2>3. ASSUME NEW ok \in BOOLEAN, WriterWrites(ok)
        PROVE  log'.at = "recv" /\ log'.state # "complete"
    BY <1>0, <2>3 DEF WriterWrites, WriterSound, FlowTypeOK
  <2>4. CASE WriterTimesOut
    BY <1>0, <2>4 DEF WriterTimesOut, AfterTimeout, WriterSound, FlowTypeOK
  <2>5. ASSUME NEW ok \in BOOLEAN, WriterSyncs(ok)
        PROVE  log'.at = "ended" /\ sink'.finished
    BY <1>0, <2>5 DEF WriterSyncs, WriterSound, FlowTypeOK
  <2>6. ~WriterChecks
    BY DEF WriterChecks, WriterSound
  <2> QED BY <1>1, <2>1, <2>2, <2>3, <2>4, <2>5, <2>6 DEF WriterStep
<1> SUFFICES ASSUME ~sink'.limited, ~sink'.partial
             PROVE  /\ log'.state = "recording" /\ sink'.stopped => Passed' = collector'.read
                    /\ log'.at = "sync" => queue' = <<>>
                    /\ log'.state = "complete" => AllRead' /\ Len(log'.file) = child'.out
  BY <1>2 DEF WriterSound
<1>3. ~sink.limited /\ ~sink.partial
  BY <1>0, SinkStep
<1>4. sink'.stopped => AllRead /\ (log.state = "recording" => Passed = collector.read)
  BY <1>3, StoppedReadAll
<1>5. AllRead => /\ AllRead' /\ ~SendChunk /\ child'.out = child.out /\ collector'.read = collector.read
  <2> SUFFICES ASSUME AllRead PROVE AllRead' /\ ~SendChunk /\ child'.out = child.out
                                    /\ collector'.read = collector.read
    OBVIOUS
  <2>1. AllRead' /\ ~SendChunk
    BY <1>0, AllReadStays DEF AllRead, SendChunk
  <2>2. child'.out = child.out
    <3>1. ~ChildWrites
      BY DEF ChildWrites, AllRead
    <3>2. ChildExits \/ LastWriterEnds => child'.out = child.out
      BY <1>0 DEF ChildExits, LastWriterEnds, FlowTypeOK
    <3>3. CollectorStep \/ ActorStep \/ WriterStep \/ UNCHANGED ioVars => child' = child
      BY DEF CollectorStep, CollectorStops, CollectorTicks, CollectorIdles, CollectorReads, CollectorEof,
          CollectorFails, CollectorCloses, OfferChunk, SendChunk, ProcessChunk, ActorStep, Input, Scroll, Fetch,
          TickStatus, TickExit, TickCutoff, TickFreeze, FinishRun,
          WriterStep, WriterTakes, WriterTimesOut, WriterChecks, WriterWrites, WriterSyncs, ioVars
    <3> QED BY <3>1, <3>2, <3>3 DEF IONext
  <2> QED BY <2>1, <2>2 DEF AllRead
<1>6. AllRead => UNCHANGED <<log, queue>> \/ (WriterStep /\ UNCHANGED <<child, collector, sink>>)
  BY <1>1, <1>5
<1>7. log'.state = "recording" /\ sink'.stopped => Passed' = collector'.read
  <2> SUFFICES ASSUME log'.state = "recording", sink'.stopped PROVE Passed' = collector'.read
    OBVIOUS
  <2>1. Passed' = Passed /\ log.state = "recording"
    <3>1. CASE UNCHANGED <<log, queue>>
      BY <3>1 DEF Passed, InWriter
    <3>2. CASE WriterStep
      BY <1>0, <3>2, PassedStays
    <3> QED BY <1>4, <1>6, <3>1, <3>2
  <2> QED BY <1>4, <1>5, <2>1
<1>8. log'.at = "sync" => queue' = <<>>
  <2> SUFFICES ASSUME log'.at = "sync" PROVE queue' = <<>>
    OBVIOUS
  <2>1. sink'.stopped
    BY <1>0, <1>2, SinkStep, EndStep DEF EndSound
  <2>2. CASE UNCHANGED <<log, queue>>
    BY <1>3, <2>2 DEF WriterSound
  <2>3. CASE WriterStep
    BY <1>0, <2>3 DEF WriterStep, WriterTakes, WriterTimesOut, WriterChecks, WriterWrites, WriterSyncs,
                      WriterSound, FlowTypeOK
  <2> QED BY <1>4, <1>6, <2>1, <2>2, <2>3
<1>9. log'.state = "complete" => AllRead' /\ Len(log'.file) = child'.out
  <2> SUFFICES ASSUME log'.state = "complete" PROVE AllRead' /\ Len(log'.file) = child'.out
    OBVIOUS
  <2>1. sink'.stopped
    BY <1>0, <1>2, SinkStep, EndStep DEF EndSound
  <2>2. AllRead
    BY <1>4, <2>1
  <2>3. Len(log'.file) = child.out
    <3>1. CASE UNCHANGED <<log, queue>>
      BY <1>3, <3>1 DEF WriterSound
    <3>2. CASE WriterStep
      <4>1. CASE log.state = "complete"
        <5>1. log.at = "ended"
          BY <4>1 DEF WriterSound
        <5> QED BY <3>2, <5>1 DEF WriterStep, WriterTakes, WriterTimesOut, WriterChecks, WriterWrites, WriterSyncs
      <4>2. CASE log.state # "complete"
        <5>1. PICK ok \in BOOLEAN : WriterSyncs(ok)
          BY <1>0, <3>2, <4>2 DEF WriterStep, WriterTakes, WriterTimesOut, WriterChecks, WriterWrites, FlowTypeOK
        <5>2. log.at = "sync" /\ log.state = "recording" /\ log'.file = log.file
          BY <1>0, <4>2, <5>1 DEF WriterSyncs, FlowTypeOK
        <5>3. queue = <<>> /\ InWriter = 0
          BY <1>3, <5>2 DEF WriterSound, InWriter
        <5>4. Passed = Len(log.file) + 0 + 0 /\ Len(log.file) \in Nat
          BY <1>0, <5>3, FlowFacts DEF Passed
        <5> QED BY <1>4, <2>1, <2>2, <5>2, <5>4 DEF AllRead
      <4> QED BY <4>1, <4>2
    <3> QED BY <1>6, <2>2, <3>1, <3>2
  <2> QED BY <1>5, <2>2, <2>3
<1> QED BY <1>7, <1>8, <1>9

LogInv == IOTypeOK /\ PrefixInv /\ EndSound /\ WriterSound

\* What the log holds is the beginning of the output, whole and in order, unless
\* one of two pipes fails and the other is read on (run.rs RunOutputSink::push
\* and the writer thread).
LogHoldsPrefix == NothingSkipped => \A i \in DOMAIN log.file : log.file[i] = i

\* However reading a PTY fails and the log writer is scheduled, chunks are lost
\* only at the end of the log (run.rs RunOutputSink::push and the writer thread).
THEOREM LogAlwaysPrefix == IOSpec => []LogHoldsPrefix
<1> DEFINE Inv == IOTypeOK /\ (NothingSkipped => PrefixInv)
<1>1. IOInit => Inv
  BY IOTypeInit, PrefixInit
<1>2. Inv /\ [IONext]_ioVars => Inv'
  <2> SUFFICES ASSUME Inv, [IONext]_ioVars PROVE Inv'
    OBVIOUS
  <2>1. IOTypeOK'
    BY IOTypeStep
  <2>2. NothingSkipped' => NothingSkipped
    BY PipedStays DEF NothingSkipped, IOTypeOK
  <2>3. NothingSkipped => PrefixInv'
    BY PrefixStep DEF IOTypeOK
  <2> QED BY <2>1, <2>2, <2>3
<1>3. Inv => LogHoldsPrefix
  <2>1. IOTypeOK => DOMAIN log.file = 1..Len(log.file)
    BY FlowFacts DEF IOTypeOK
  <2> QED BY <2>1 DEF PrefixInv, LogHoldsPrefix
<1> QED BY <1>1, <1>2, <1>3, PTL DEF IOSpec

LEMMA LogSuffices == LogInv => LogTruthful
<1> SUFFICES ASSUME LogInv PROVE LogTruthful
  OBVIOUS
<1>1. DOMAIN log.file = 1..Len(log.file)
  BY FlowFacts DEF LogInv, IOTypeOK
<1>2. \A i \in DOMAIN log.file : log.file[i] = i
  BY <1>1 DEF LogInv, PrefixInv
<1>3. Descriptor = "complete" => log.state = "complete" /\ ~sink.limited /\ ~sink.partial
  BY DEF Descriptor
<1> QED BY <1>2, <1>3 DEF LogInv, WriterSound, LogTruthful

\* Where reading does not fail and the writer looks at the run as soon as it
\* has waited in vain, a log called complete holds the whole output
\* (run.rs:60-110 RunOutputSink, actor.rs:1585-1590).
THEOREM LogAlwaysTruthful == ~ReadErrors /\ ~LateWriter => (PartSpec => []OutputLogTruthful)
<1> DEFINE Inv == part = "output" => LogInv
<1> SUFFICES ASSUME ~ReadErrors, ~LateWriter PROVE PartSpec => []OutputLogTruthful
  OBVIOUS
<1>1. PartInit => Inv
  BY IOTypeInit, PrefixInit, EndInit, WriterInit DEF PartInit, LogInv
<1>2. Inv /\ [PartNext]_<<part, ioVars>> => Inv'
  <2> SUFFICES ASSUME Inv, [PartNext]_<<part, ioVars>>, part' = "output" PROVE LogInv'
    OBVIOUS
  <2>1. part = "output" /\ [IONext]_ioVars
    BY DEF PartNext
  <2>2. NothingSkipped /\ IOTypeOK /\ FlowTypeOK /\ PrefixInv /\ EndSound /\ WriterSound
    BY <2>1 DEF LogInv, IOTypeOK, NothingSkipped
  <2> QED BY <2>1, <2>2, IOTypeStep, PrefixStep, EndStep, WriterSoundStep DEF LogInv
<1>3. Inv => OutputLogTruthful
  BY LogSuffices DEF OutputLogTruthful
<1> QED BY <1>1, <1>2, <1>3, PTL DEF PartSpec

-----------------------------------------------------------------------------
(* The Runs tab. *)

IsView(v) ==
  /\ v = [tab |-> v.tab, page |-> v.page, run |-> v.run, epoch |-> v.epoch,
          menu |-> v.menu, dialog |-> v.dialog]
  /\ v.epoch \in Nat
IsIntent(i) ==
  i = [request |-> i.request, run |-> i.run, epoch |-> i.epoch, tab |-> i.tab,
       job |-> i.job, polling |-> i.polling, cancelled |-> i.cancelled]
IsRpc(r) ==
  /\ r = [intents |-> r.intents, wire |-> r.wire, nonce |-> r.nonce] /\ r.nonce \in Nat
  /\ r.intents = [n \in DOMAIN r.intents |-> r.intents[n]]
  /\ \A n \in DOMAIN r.intents : IsIntent(r.intents[n])

\* Nothing is cancelled but reads.
ReadsOnly(i) ==
  /\ i.cancelled => i.request.op \in Reads
  /\ i.request.op = "cancel" => i.request.about.of.op \in Reads

\* An approval asked for in this visit, of the e-th place the user was at.
Approving(f, e) == \E n \in DOMAIN f : f[n].request.op = "approve" /\ f[n].epoch = e

RunsInv ==
  /\ IsView(view) /\ IsRpc(rpc)
  /\ \A n \in Intents : rpc.intents[n].epoch \in Nat /\ rpc.intents[n].epoch <= view.epoch
  /\ \A n \in Intents : ReadsOnly(rpc.intents[n])
  /\ approval # Nothing /\ Approving(rpc.intents, view.epoch) => approval \in consent

IsLog(l) ==
  /\ l = [run |-> l.run, next |-> l.next, follow |-> l.follow, shown |-> l.shown]
  /\ l.next \in Nat /\ l.shown = [k \in 1..l.next |-> k - 1]
ShownLogInv == shownLog = Nothing \/ IsLog(shownLog)

\* No request for a page is cancelled.
PageNotCancelled(i) ==
  /\ i.cancelled => i.request.op # "raw"
  /\ i.request.op = "cancel" => i.request.about.of.op # "raw"

\* The pages asked for in this visit: one at a time, the next or the one before.
PagesAsked(f, e) == {n \in DOMAIN f : f[n].request.op = "raw" /\ f[n].epoch = e}
Neighbour(r, p) ==
  IF r.page = Nothing THEN p = 0 /\ r.history = << >>
  ELSE p = r.page.page + 1 \/ p + 1 = r.page.page

PagesInv ==
  /\ \A n \in Intents : PageNotCancelled(rpc.intents[n])
  /\ raw = [page |-> raw.page, history |-> raw.history]
  /\ raw.page # Nothing =>
       raw.page.page \in Nat /\ raw.history = [k \in 1..raw.page.page |-> k - 1]
  /\ \A n \in PagesAsked(rpc.intents, view.epoch) :
       LET i == rpc.intents[n] IN
         /\ i.request.about.page \in Nat /\ Neighbour(raw, i.request.about.page)
         /\ view.page = "raw" => i.run = view.run
  /\ \A n, m \in PagesAsked(rpc.intents, view.epoch) : n = m

-----------------------------------------------------------------------------
(* How a step changes the intents                                          *)

Carried(i, k) ==
  k.request = i.request /\ k.run = i.run /\ k.epoch = i.epoch /\ (k.cancelled => i.cancelled)
Kept(f, g) == \A n \in DOMAIN g : n \in DOMAIN f /\ Carried(f[n], g[n])

\* Those of g are of f, or one that asks for q where the user is at v.
Asked(f, g, v, q) ==
  \/ Kept(f, g)
  \/ \E m : \A n \in DOMAIN g : IF n = m THEN g[n] = Intent(v, q)
                                ELSE n \in DOMAIN f /\ Carried(f[n], g[n])

SamePlace(v, w) == w.tab = v.tab /\ w.page = v.page /\ w.run = v.run /\ w.epoch = v.epoch

\* A place in the UI, and what is changed of it.
LEMMA ViewSteps ==
  ASSUME NEW v, IsView(v)
  PROVE  /\ IsView(Moved(v)) /\ Moved(v).epoch = v.epoch + 1
         /\ \A x : IsView([v EXCEPT !.tab = x]) /\ [v EXCEPT !.tab = x].epoch = v.epoch
         /\ \A x : IsView([v EXCEPT !.menu = x]) /\ SamePlace(v, [v EXCEPT !.menu = x])
         /\ \A x : IsView([v EXCEPT !.dialog = x]) /\ SamePlace(v, [v EXCEPT !.dialog = x])
         /\ \A x : /\ IsView([v EXCEPT !.page = x]) /\ [v EXCEPT !.page = x].epoch = v.epoch
                   /\ [v EXCEPT !.page = x].page = x /\ [v EXCEPT !.page = x].run = v.run
         /\ \A x, y : /\ IsView(Showing(v, x, y)) /\ Showing(v, x, y).epoch = v.epoch
                      /\ Showing(v, x, y).page = y /\ Showing(v, x, y).run = x
<1> DEFINE R(tab, page, run, epoch, menu, dialog) ==
      [tab |-> tab, page |-> page, run |-> run, epoch |-> epoch, menu |-> menu, dialog |-> dialog]
<1>1. v = R(v.tab, v.page, v.run, v.epoch, v.menu, v.dialog) /\ v.epoch \in Nat
  BY DEF IsView
<1>2. ASSUME NEW a, NEW b, NEW c, NEW e \in Nat, NEW f, NEW g
      PROVE  /\ IsView(R(a, b, c, e, f, g))
             /\ R(a, b, c, e, f, g).tab = a /\ R(a, b, c, e, f, g).page = b
             /\ R(a, b, c, e, f, g).run = c /\ R(a, b, c, e, f, g).epoch = e
  BY DEF IsView
<1>3. Moved(v) = R(v.tab, v.page, v.run, v.epoch + 1, v.menu, v.dialog) /\ v.epoch + 1 \in Nat
  BY <1>1 DEF Moved
<1>4. /\ \A x : [v EXCEPT !.tab = x] = R(x, v.page, v.run, v.epoch, v.menu, v.dialog)
      /\ \A x : [v EXCEPT !.menu = x] = R(v.tab, v.page, v.run, v.epoch, x, v.dialog)
      /\ \A x : [v EXCEPT !.dialog = x] = R(v.tab, v.page, v.run, v.epoch, v.menu, x)
      /\ \A x : [v EXCEPT !.page = x] = R(v.tab, x, v.run, v.epoch, v.menu, v.dialog)
  BY <1>1
<1>5. ASSUME NEW x, NEW y
      PROVE  Showing(v, x, y) = R(v.tab, y, x, v.epoch, v.menu, v.dialog)
  <2>1. Showing(v, x, y) = [[v EXCEPT !.run = x] EXCEPT !.page = y]
    BY Zenon DEF Showing
  <2>2. [v EXCEPT !.run = x] = R(v.tab, v.page, x, v.epoch, v.menu, v.dialog)
    BY <1>1
  <2>3. [R(v.tab, v.page, x, v.epoch, v.menu, v.dialog) EXCEPT !.page = y]
        = R(v.tab, y, x, v.epoch, v.menu, v.dialog)
    OBVIOUS
  <2> HIDE DEF R
  <2> QED BY <2>1, <2>2, <2>3, Zenon
<1> HIDE DEF R
<1>6. IsView(Moved(v)) /\ Moved(v).epoch = v.epoch + 1
  BY <1>1, <1>2, <1>3
<1>7. \A x : IsView([v EXCEPT !.tab = x]) /\ [v EXCEPT !.tab = x].epoch = v.epoch
  BY <1>1, <1>2, <1>4
<1>8. \A x : IsView([v EXCEPT !.menu = x]) /\ SamePlace(v, [v EXCEPT !.menu = x])
  BY <1>1, <1>2, <1>4 DEF SamePlace
<1>9. \A x : IsView([v EXCEPT !.dialog = x]) /\ SamePlace(v, [v EXCEPT !.dialog = x])
  BY <1>1, <1>2, <1>4 DEF SamePlace
<1>10. \A x : /\ IsView([v EXCEPT !.page = x]) /\ [v EXCEPT !.page = x].epoch = v.epoch
              /\ [v EXCEPT !.page = x].page = x /\ [v EXCEPT !.page = x].run = v.run
  BY <1>1, <1>2, <1>4
<1>11. \A x, y : /\ IsView(Showing(v, x, y)) /\ Showing(v, x, y).epoch = v.epoch
                 /\ Showing(v, x, y).page = y /\ Showing(v, x, y).run = x
  BY <1>1, <1>2, <1>5
<1> QED BY ONLY <1>6, <1>7, <1>8, <1>9, <1>10, <1>11

\* Another page of the same place.
LEMMA PageEdit ==
  ASSUME NEW v, IsView(v), NEW x, NEW w, w = [v EXCEPT !.page = x]
  PROVE  IsView(w) /\ w.epoch = v.epoch /\ w.page = x /\ w.run = v.run
<1>1. w = [tab |-> v.tab, page |-> x, run |-> v.run, epoch |-> v.epoch, menu |-> v.menu,
           dialog |-> v.dialog]
  BY DEF IsView
<1>2. v.epoch \in Nat
  BY DEF IsView
<1> QED BY ONLY <1>1, <1>2 DEF IsView

\* The same, one by one.
LEMMA ViewEdits ==
  ASSUME NEW v, IsView(v)
  PROVE  /\ \A x : IsView(Moved([v EXCEPT !.tab = x])) /\ Moved([v EXCEPT !.tab = x]).epoch = v.epoch + 1
         /\ \A x : IsView(Moved([v EXCEPT !.page = x])) /\ Moved([v EXCEPT !.page = x]).epoch = v.epoch + 1
         /\ \A x : IsView(Moved([v EXCEPT !.dialog = x])) /\ Moved([v EXCEPT !.dialog = x]).epoch = v.epoch + 1
         /\ \A x : IsView([v EXCEPT !.dialog = x]) /\ SamePlace(v, [v EXCEPT !.dialog = x])
         /\ \A x : IsView([v EXCEPT !.menu = x]) /\ SamePlace(v, [v EXCEPT !.menu = x])
<1>1. ASSUME NEW w, IsView(w), w.epoch = v.epoch
      PROVE  IsView(Moved(w)) /\ Moved(w).epoch = v.epoch + 1
  BY <1>1, ViewSteps
<1>2. ASSUME NEW x
      PROVE  /\ IsView([v EXCEPT !.tab = x]) /\ [v EXCEPT !.tab = x].epoch = v.epoch
             /\ IsView([v EXCEPT !.page = x]) /\ [v EXCEPT !.page = x].epoch = v.epoch
             /\ IsView([v EXCEPT !.dialog = x]) /\ SamePlace(v, [v EXCEPT !.dialog = x])
             /\ IsView([v EXCEPT !.menu = x]) /\ SamePlace(v, [v EXCEPT !.menu = x])
  BY ViewSteps, Zenon
<1>3. ASSUME NEW x
      PROVE  [v EXCEPT !.dialog = x].epoch = v.epoch
  BY <1>2, Zenon DEF SamePlace
<1> QED BY <1>1, <1>2, <1>3, Zenon

\* One more request, and one less.
LEMMA RequestSteps ==
  ASSUME NEW r, IsRpc(r)
  PROVE  /\ \A v, q : IsRpc(Submitted(r, v, q)) /\ Asked(r.intents, Submitted(r, v, q).intents, v, q)
         /\ LET s == [r EXCEPT !.wire = Tail(@)] IN IsRpc(s) /\ s.intents = r.intents
         /\ \A n : IsRpc(Without(r, n)) /\ Kept(r.intents, Without(r, n).intents)
                   /\ DOMAIN Without(r, n).intents = DOMAIN r.intents \ {n}
<1> DEFINE f == r.intents
<1>1. /\ r = [intents |-> f, wire |-> r.wire, nonce |-> r.nonce] /\ r.nonce \in Nat
      /\ f = [n \in DOMAIN f |-> f[n]] /\ \A n \in DOMAIN f : IsIntent(f[n])
  BY DEF IsRpc
<1>2. Kept(f, f)
  BY DEF Kept, Carried
<1>3. ASSUME NEW v, NEW q
      PROVE  IsRpc(Submitted(r, v, q)) /\ Asked(f, Submitted(r, v, q).intents, v, q)
  <2>1. CASE ~HasRoom(r, q)
    BY <1>2, <2>1 DEF Submitted, Asked
  <2>2. CASE HasRoom(r, q)
    <3> DEFINE m == r.nonce + 1
               g == [n \in DOMAIN f \union {m} |-> IF n = m THEN Intent(v, q) ELSE f[n]]
    <3>1. Submitted(r, v, q) = [intents |-> g, wire |-> Append(r.wire, m), nonce |-> m]
      BY <2>2 DEF Submitted
    <3>2. IsIntent(Intent(v, q))
      BY DEF Intent, IsIntent
    <3>6. m \in Nat
      BY <1>1
    <3> HIDE DEF m, f
    <3>3. \A n \in DOMAIN g : IF n = m THEN g[n] = Intent(v, q) ELSE n \in DOMAIN f /\ g[n] = f[n]
      OBVIOUS
    <3>4. g = [n \in DOMAIN g |-> g[n]] /\ \A n \in DOMAIN g : IsIntent(g[n])
      BY <1>1, <3>2, <3>3
    <3> HIDE DEF g
    <3>5. Asked(f, g, v, q)
      BY <3>3 DEF Asked, Carried
    <3> QED BY <3>1, <3>4, <3>5, <3>6 DEF IsRpc
  <2> QED BY <2>1, <2>2
<1>4. LET s == [r EXCEPT !.wire = Tail(@)] IN IsRpc(s) /\ s.intents = f
  <2> HIDE DEF f
  <2>2. \A t : [r EXCEPT !.wire = t] = [intents |-> f, wire |-> t, nonce |-> r.nonce]
    BY <1>1
  <2>1. [r EXCEPT !.wire = Tail(r.wire)] = [intents |-> f, wire |-> Tail(r.wire), nonce |-> r.nonce]
    BY <2>2, Zenon
  <2> QED BY <1>1, <2>1 DEF IsRpc
<1>5. ASSUME NEW n
      PROVE  /\ IsRpc(Without(r, n)) /\ Kept(f, Without(r, n).intents)
             /\ DOMAIN Without(r, n).intents = DOMAIN f \ {n}
  <2> DEFINE g == [m \in DOMAIN f \ {n} |-> f[m]]
  <2>1. Without(r, n) = [intents |-> g, wire |-> r.wire, nonce |-> r.nonce]
    BY <1>1 DEF Without
  <2>2. DOMAIN g = DOMAIN f \ {n} /\ \A m \in DOMAIN g : g[m] = f[m]
    OBVIOUS
  <2>3. g = [m \in DOMAIN g |-> g[m]] /\ \A m \in DOMAIN g : IsIntent(g[m])
    BY <1>1
  <2> HIDE DEF f, g
  <2>4. Kept(f, g)
    BY <2>2 DEF Kept, Carried
  <2> QED BY <2>1, <2>2, <2>3, <2>4 DEF IsRpc
<1> QED BY <1>3, <1>4, <1>5

\* What was kept of what was asked.
LEMMA AskedSteps ==
  /\ \A f, v, q : Asked(f, f, v, q)
  /\ \A f, g, v, q : Kept(f, g) => Asked(f, g, v, q)
  /\ \A f, g, h, v, q : Kept(f, g) /\ Asked(g, h, v, q) => Asked(f, h, v, q)
  /\ \A f, g, h : Kept(f, g) /\ Kept(g, h) => Kept(f, h)
<1>1. \A f : Kept(f, f)
  BY DEF Kept, Carried
<1>2. \A f, g, h : Kept(f, g) /\ Kept(g, h) => Kept(f, h)
  BY DEF Kept, Carried
<1>3. ASSUME NEW f, NEW g, NEW h, NEW v, NEW q, Kept(f, g), Asked(g, h, v, q)
      PROVE  Asked(f, h, v, q)
  <2>1. CASE Kept(g, h)
    BY <1>2, <1>3, <2>1 DEF Asked
  <2>2. ASSUME NEW m, \A n \in DOMAIN h : IF n = m THEN h[n] = Intent(v, q)
                                          ELSE n \in DOMAIN g /\ Carried(g[n], h[n])
        PROVE  Asked(f, h, v, q)
    <3>1. \A n \in DOMAIN h : IF n = m THEN h[n] = Intent(v, q)
                              ELSE n \in DOMAIN f /\ Carried(f[n], h[n])
      BY <1>3, <2>2 DEF Kept, Carried
    <3> QED BY <3>1 DEF Asked
  <2> QED BY <1>3, <2>1, <2>2 DEF Asked
<1> QED BY <1>1, <1>2, <1>3 DEF Asked

\* A step that asks for q, if anything: nothing but a read is cancelled, and
\* the start that waits is consented to, unless the user has moved on.
Sends(q) ==
  /\ IsView(view') /\ IsRpc(rpc') /\ Asked(rpc.intents, rpc'.intents, view', q)
  /\ q.op = "cancel" =>
       \E n \in Intents : rpc.intents[n].cancelled /\ q.about.of = rpc.intents[n].request
  /\ \/ view'.epoch = view.epoch + 1 /\ q.op # "approve"
     \/ /\ view'.epoch = view.epoch
        /\ \/ approval' = Nothing \/ approval' \in consent'
           \/ approval' = approval /\ consent \subseteq consent' /\ q.op # "approve"

\* One that is not about pages of a raw result.
Quiet(q) ==
  /\ Sends(q) /\ q.op # "raw" /\ raw' = raw
  /\ view'.epoch = view.epoch /\ view'.page = "raw" => view.page = "raw" /\ view'.run = view.run

LEMMA AskSteps ==
  ASSUME RunsInv, NEW v, IsView(v), NEW q, Ask(v, q)
  PROVE  IsView(view') /\ IsRpc(rpc') /\ Asked(rpc.intents, rpc'.intents, view', q) /\ view' = v
BY RequestSteps DEF RunsInv, Ask

\* What the user asks for by moving about.
LEMMA MovesQuiet ==
  ASSUME RunsInv,
         \/ \E tab \in {"tasks", "runs"} : ChooseTab(tab)
         \/ NavigateAway \/ Escape \/ BackToList \/ OpenLog
         \/ \E r \in Runs : OpenRun(r)
  PROVE  \E q : Quiet(q)
<1>1. IsView(view) /\ IsRpc(rpc) /\ view.epoch \in Nat /\ view.epoch + 1 # view.epoch
  BY DEF RunsInv, IsView
<1>2. Asked(rpc.intents, rpc.intents, view', Request("list", Nothing))
  BY AskedSteps
<1>3. ASSUME NEW tab \in {"tasks", "runs"}, ChooseTab(tab)
      PROVE  Quiet(Request("list", Nothing))
  <2> DEFINE v == Moved([view EXCEPT !.tab = tab])
  <2>1. IsView(v) /\ v.epoch = view.epoch + 1
    BY <1>1, ViewEdits, Zenon
  <2>2. Ask(v, Request("list", Nothing)) /\ raw' = raw
    BY <1>3 DEF ChooseTab, shownVars
  <2> HIDE DEF v
  <2> QED BY <1>1, <2>1, <2>2, AskSteps DEF Quiet, Sends, Request
<1>4. ASSUME NEW r, OpenRun(r)
      PROVE  Quiet(Request("info", r))
  <2> DEFINE v == Moved(Showing(view, r, "detail"))
  <2>1. IsView(v) /\ v.epoch = view.epoch + 1
    BY <1>1, ViewSteps
  <2>2. Ask(v, Request("info", r)) /\ raw' = raw
    BY <1>4 DEF OpenRun, shownVars
  <2> HIDE DEF v
  <2> QED BY <1>1, <2>1, <2>2, AskSteps DEF Quiet, Sends, Request
<1>5. ASSUME BackToList
      PROVE  Quiet(Request("list", Nothing))
  <2> DEFINE v == Moved(Showing(view, Nothing, "list"))
  <2>1. IsView(v) /\ v.epoch = view.epoch + 1
    BY <1>1, ViewSteps
  <2>2. Ask(v, Request("list", Nothing)) /\ raw' = raw
    BY <1>5 DEF BackToList, shownVars
  <2> HIDE DEF v
  <2> QED BY <1>1, <2>1, <2>2, AskSteps DEF Quiet, Sends, Request
<1>6. ASSUME OpenLog
      PROVE  \E q : Quiet(q)
  <2> DEFINE v == Moved([view EXCEPT !.page = "log"])
  <2>1. IsView(v) /\ v.epoch = view.epoch + 1
    BY <1>1, ViewEdits, Zenon
  <2>2. PICK q : Ask(v, q) /\ q.op = "log" /\ raw' = raw
    BY <1>6 DEF OpenLog, ReadLog, Request
  <2> HIDE DEF v
  <2>3. Quiet(q)
    BY <1>1, <2>1, <2>2, AskSteps DEF Quiet, Sends
  <2> QED BY <2>3
<1>7. ASSUME NavigateAway
      PROVE  Quiet(Request("list", Nothing))
  <2>1. IsView(view') /\ view'.epoch = view.epoch + 1
    BY <1>1, <1>7, ViewEdits, Zenon DEF NavigateAway
  <2>2. rpc' = rpc /\ raw' = raw
    BY <1>7 DEF NavigateAway, shownVars
  <2> QED BY <1>1, <1>2, <2>1, <2>2 DEF Quiet, Sends, Request
<1>8. ASSUME Escape
      PROVE  Quiet(Request("list", Nothing))
  <2>1. IsView(view') /\ view'.epoch = view.epoch + 1
    BY <1>1, <1>8, ViewEdits, Zenon DEF Escape
  <2>2. rpc' = rpc /\ raw' = raw
    BY <1>8 DEF Escape, shownVars
  <2> QED BY <1>1, <1>2, <2>1, <2>2 DEF Quiet, Sends, Request
<1> QED BY <1>3, <1>4, <1>5, <1>6, <1>7, <1>8

\* What the user asks for where he is.
LEMMA KeysQuiet ==
  ASSUME RunsInv,
         \/ \E t \in Tasks : ReviewTask(t)
         \/ OpenDialog \/ ScrollRuns \/ Baseline \/ Compare \/ Follow \/ ToggleMenu \/ Refresh
         \/ \E p \in BOOLEAN : Pin(p)
  PROVE  \E q : Quiet(q)
<1>1. IsView(view) /\ IsRpc(rpc) /\ view.epoch \in Nat
  BY DEF RunsInv, IsView
<1>2. \A v : Asked(rpc.intents, rpc.intents, v, Request("list", Nothing))
  BY AskedSteps
<1>3. ASSUME NEW q, q.op \notin {"raw", "cancel", "approve"},
             IsView(view'), view'.epoch = view.epoch,
             view'.page = "raw" => view.page = "raw" /\ view'.run = view.run,
             IsRpc(rpc'), Asked(rpc.intents, rpc'.intents, view', q),
             UNCHANGED <<raw, approval, historyVars>>
      PROVE  Quiet(q)
  BY <1>3 DEF Quiet, Sends, historyVars
<1>4. ASSUME NEW q, q.op \notin {"raw", "cancel", "approve"}, Ask(view, q),
             UNCHANGED <<raw, approval, historyVars>>
      PROVE  Quiet(q)
  BY <1>1, <1>3, <1>4, AskSteps
<1>5. ASSUME NEW t, ReviewTask(t) PROVE Quiet(Request("review", t))
  BY <1>4, <1>5 DEF ReviewTask, shownVars, Request
<1>6. ASSUME NEW p, Pin(p) PROVE \E q : Quiet(q)
  BY <1>4, <1>6 DEF Pin, shownVars, Request
<1>7. ASSUME Refresh PROVE \E q : Quiet(q)
  <2>1. UNCHANGED <<raw, approval, historyVars>>
    BY <1>7 DEF Refresh, shownVars
  <2>2. PICK q : Ask(view, q) /\ q.op \in {"list", "info"}
    BY <1>7 DEF Refresh, Request
  <2> QED BY <1>4, <2>1, <2>2
<1>8. ASSUME Follow PROVE \E q : Quiet(q)
  <2>1. UNCHANGED <<raw, approval, historyVars>>
    BY <1>8 DEF Follow
  <2>2. CASE Ask(view, ReadLog(shownLog))
    BY <1>4, <2>1, <2>2 DEF ReadLog, Request
  <2>3. CASE UNCHANGED <<view, rpc>>
    BY <1>1, <1>2, <1>3, <2>1, <2>3 DEF Request
  <2> QED BY <1>8, <2>2, <2>3 DEF Follow
<1>9. ASSUME Compare PROVE \E q : Quiet(q)
  <2> DEFINE v == [view EXCEPT !.page = "comparison"]
  <2>1. IsView(v) /\ v.epoch = view.epoch /\ v.page = "comparison"
    <3>1. v = [view EXCEPT !.page = "comparison"]
      OBVIOUS
    <3> HIDE DEF v
    <3> QED BY ONLY <1>1, <3>1, PageEdit
  <2>2. PICK q : Ask(v, q) /\ q.op = "compare" /\ UNCHANGED <<raw, approval, historyVars>>
    BY <1>9 DEF Compare, Request, shownVars
  <2> HIDE DEF v
  <2> QED BY <1>3, <2>1, <2>2, AskSteps
<1>10. ASSUME Baseline PROVE \E q : Quiet(q)
  <2>1. PICK q : rpc' = Submitted(rpc, view, q) /\ q.op = "pin"
    BY <1>10 DEF Baseline, Request
  <2>2. view' = view /\ UNCHANGED <<raw, approval, historyVars>>
    BY <1>10 DEF Baseline
  <2>3. IsRpc(rpc') /\ Asked(rpc.intents, rpc'.intents, view, q)
    BY <1>1, <2>1, RequestSteps
  <2> QED BY <1>1, <1>3, <2>1, <2>2, <2>3
<1>11. ASSUME OpenDialog \/ ToggleMenu PROVE Quiet(Request("list", Nothing))
  <2>1. IsView(view') /\ SamePlace(view, view')
    <3>1. PICK x : view' = [view EXCEPT !.dialog = x] \/ view' = [view EXCEPT !.menu = x]
      BY <1>11 DEF OpenDialog, ToggleMenu
    <3>2. CASE view' = [view EXCEPT !.dialog = x]
      BY <1>1, <3>2, ViewEdits
    <3>3. CASE view' = [view EXCEPT !.menu = x]
      BY <1>1, <3>3, ViewEdits
    <3> QED BY <3>1, <3>2, <3>3
  <2>2. rpc' = rpc /\ UNCHANGED <<raw, approval, historyVars>>
    BY <1>11 DEF OpenDialog, ToggleMenu, shownVars
  <2> QED BY <1>1, <1>2, <1>3, <2>1, <2>2 DEF SamePlace, Request
<1>12. ASSUME ScrollRuns PROVE Quiet(Request("list", Nothing))
  <2>1. UNCHANGED <<view, rpc, raw>> /\ approval' = Nothing
    BY <1>12 DEF ScrollRuns
  <2> QED BY <1>1, <1>2, <2>1 DEF Quiet, Sends, Request
<1> QED BY <1>5, <1>6, <1>7, <1>8, <1>9, <1>10, <1>11, <1>12

\* What the user confirms.
LEMMA DialogsQuiet ==
  ASSUME RunsInv, ConfirmReview \/ SaveForm
  PROVE  \E q : Quiet(q)
<1>1. IsView(view) /\ IsRpc(rpc)
  BY DEF RunsInv
<1>2. view' = view \/ view' = [view EXCEPT !.dialog = Nothing]
  BY DEF ConfirmReview, SaveForm
<1>3. IsView(view') /\ SamePlace(view, view')
  <2>1. SamePlace(view, view)
    BY DEF SamePlace
  <2>2. CASE view' = [view EXCEPT !.dialog = Nothing]
    BY <1>1, <2>2, ViewEdits
  <2> QED BY <1>1, <1>2, <2>1, <2>2
<1>4. \A q : Intent(view, q) = Intent(view', q)
  BY <1>3 DEF Intent, SamePlace
<1>5. ASSUME NEW q, rpc' = Submitted(rpc, view, q)
      PROVE  IsRpc(rpc') /\ Asked(rpc.intents, rpc'.intents, view', q)
  <2>1. IsRpc(rpc') /\ Asked(rpc.intents, rpc'.intents, view, q)
    BY <1>1, <1>5, RequestSteps
  <2> QED BY <1>4, <2>1 DEF Asked
<1>6. raw' = raw
  BY DEF ConfirmReview, SaveForm, shownVars
<1>7. CASE SaveForm
  <2>1. PICK q : rpc' = Submitted(rpc, view, q) /\ q.op = "save"
    BY <1>7 DEF SaveForm, Request
  <2>2. approval' = approval /\ consent' = consent
    BY <1>7 DEF SaveForm, historyVars
  <2> QED BY <1>3, <1>5, <1>6, <2>1, <2>2 DEF Quiet, Sends, SamePlace
<1>8. CASE ConfirmReview
  <2> DEFINE seen == view.dialog.about
             start == Start(seen.task, seen.digest, rpc.nonce + 1)
  <2>1. consent' = consent \union {start}
    BY <1>8 DEF ConfirmReview
  <2>2. CASE seen.approved
    <3>1. rpc' = Submitted(rpc, view, Request("start", start)) /\ approval' = approval
      BY <1>8, <2>2 DEF ConfirmReview
    <3>2. Request("start", start).op = "start"
      BY DEF Request
    <3> QED BY <1>3, <1>5, <1>6, <2>1, <3>1, <3>2 DEF Quiet, Sends, SamePlace
  <2>3. CASE ~seen.approved
    <3> DEFINE q == Request("approve", [task |-> seen.task, digest |-> seen.digest])
    <3>1. rpc' = Submitted(rpc, view, q) /\ approval' = start
      BY <1>8, <2>3 DEF ConfirmReview
    <3>2. q.op = "approve"
      BY DEF Request
    <3> HIDE DEF q
    <3> QED BY <1>3, <1>5, <1>6, <2>1, <3>1, <3>2 DEF Quiet, Sends, SamePlace
  <2> QED BY <2>2, <2>3
<1> QED BY <1>7, <1>8

\* An intent whose job is known or asked for.
LEMMA UpdateSteps ==
  ASSUME NEW r, IsRpc(r), NEW n \in DOMAIN r.intents, NEW i, IsIntent(i), Carried(r.intents[n], i)
  PROVE  IsRpc(Updated(r, n, i)) /\ Kept(r.intents, Updated(r, n, i).intents)
<1> DEFINE f == r.intents
           g == [f EXCEPT ![n] = i]
<1>1. /\ r = [intents |-> f, wire |-> r.wire, nonce |-> r.nonce] /\ r.nonce \in Nat
      /\ f = [m \in DOMAIN f |-> f[m]] /\ \A m \in DOMAIN f : IsIntent(f[m])
      /\ n \in DOMAIN f /\ Carried(f[n], i)
  BY DEF IsRpc
<1>2. Updated(r, n, i) = [r EXCEPT !.intents = g]
  BY Zenon DEF Updated
<1>3. DOMAIN g = DOMAIN f /\ \A m \in DOMAIN f : g[m] = IF m = n THEN i ELSE f[m]
  <2> HIDE DEF f
  <2> QED BY <1>1
<1>4. g = [m \in DOMAIN g |-> g[m]]
  <2> HIDE DEF f
  <2> QED BY <1>1
<1> HIDE DEF f, g
<1>5. [r EXCEPT !.intents = g] = [intents |-> g, wire |-> r.wire, nonce |-> r.nonce]
  BY <1>1
<1>6. \A m \in DOMAIN g : IsIntent(g[m])
  BY <1>1, <1>3
<1>7. Kept(f, g)
  BY <1>1, <1>3 DEF Kept, Carried
<1>8. IsRpc([intents |-> g, wire |-> r.wire, nonce |-> r.nonce])
  BY <1>1, <1>4, <1>6 DEF IsRpc
<1> QED BY <1>2, <1>5, <1>7, <1>8 DEF f

LEMMA IntentEdits ==
  ASSUME NEW i, IsIntent(i)
  PROVE  /\ \A j : IsIntent(WithJob(i, j)) /\ Carried(i, WithJob(i, j))
         /\ \A b : IsIntent([i EXCEPT !.polling = b]) /\ Carried(i, [i EXCEPT !.polling = b])
<1> DEFINE R(job, polling) ==
      [request |-> i.request, run |-> i.run, epoch |-> i.epoch, tab |-> i.tab,
       job |-> job, polling |-> polling, cancelled |-> i.cancelled]
<1>1. i = R(i.job, i.polling)
  BY DEF IsIntent
<1>2. \A j, b : IsIntent(R(j, b)) /\ Carried(i, R(j, b))
  BY DEF IsIntent, Carried
<1>3. \A b : [i EXCEPT !.polling = b] = R(i.job, b)
  BY <1>1
<1>4. ASSUME NEW j
      PROVE  WithJob(i, j) = R(j, FALSE)
  <2> DEFINE k == [i EXCEPT !.job = j]
  <2>1. WithJob(i, j) = [k EXCEPT !.polling = FALSE]
    BY Zenon DEF WithJob
  <2>2. k = R(j, i.polling)
    BY <1>1
  <2>3. \A p, b : [R(j, p) EXCEPT !.polling = b] = R(j, b)
    OBVIOUS
  <2> HIDE DEF k, R
  <2>4. [k EXCEPT !.polling = FALSE] = [R(j, i.polling) EXCEPT !.polling = FALSE]
    BY ONLY <2>2
  <2> QED BY ONLY <2>1, <2>3, <2>4
<1> HIDE DEF R
<1>5. ASSUME NEW b, NEW k, k = [i EXCEPT !.polling = b]
      PROVE  IsIntent(k) /\ Carried(i, k)
  <2>1. k = R(i.job, b)
    BY <1>3, <1>5, Zenon
  <2> QED BY <1>2, <2>1
<1>6. ASSUME NEW j PROVE IsIntent(WithJob(i, j)) /\ Carried(i, WithJob(i, j))
  BY <1>2, <1>4
<1> QED BY <1>5, <1>6, Zenon

\* What a forgotten intent leaves, and what is asked for in its place.
LEMMA DoneSteps ==
  ASSUME RunsInv, NEW n
  PROVE  /\ IsRpc(Popped) /\ Popped.intents = rpc.intents
         /\ IsRpc(Done(n)) /\ Kept(rpc.intents, Done(n).intents)
         /\ DOMAIN Done(n).intents = Intents \ {n}
         /\ \A v, q : /\ IsRpc(Submitted(Done(n), v, q))
                      /\ Asked(rpc.intents, Submitted(Done(n), v, q).intents, v, q)
<1>1. IsRpc(rpc)
  BY DEF RunsInv
<1>2. IsRpc(Popped) /\ Popped.intents = rpc.intents
  BY <1>1, RequestSteps DEF Popped
<1>3. /\ IsRpc(Done(n)) /\ Kept(rpc.intents, Done(n).intents)
      /\ DOMAIN Done(n).intents = Intents \ {n}
  <2>1. /\ IsRpc(Without(Popped, n)) /\ Kept(Popped.intents, Without(Popped, n).intents)
        /\ DOMAIN Without(Popped, n).intents = DOMAIN Popped.intents \ {n}
    BY <1>2, RequestSteps
  <2> QED BY <1>2, <2>1 DEF Done, Intents
<1>4. ASSUME NEW v, NEW q
      PROVE  /\ IsRpc(Submitted(Done(n), v, q))
             /\ Asked(rpc.intents, Submitted(Done(n), v, q).intents, v, q)
  <2>1. /\ IsRpc(Submitted(Done(n), v, q))
        /\ Asked(Done(n).intents, Submitted(Done(n), v, q).intents, v, q)
    BY <1>3, RequestSteps
  <2> QED BY <1>3, <2>1, AskedSteps
<1> QED BY <1>2, <1>3, <1>4

\* The host and its answers, but for pages of a raw result.
LEMMA AnswersQuiet ==
  ASSUME RunsInv, NEW n,
         \/ EndJob(n) \/ PollJob(n) \/ RequestFails(n) \/ ForgottenFails(n) \/ Accepted(n)
         \/ PollPending(n) \/ JobFailed(n) \/ ReviewArrives(n) \/ ApprovedArrives(n)
         \/ StartedArrives(n) \/ InfoArrives(n) \/ LogArrives(n) \/ PinnedArrives(n) \/ OtherArrives(n)
  PROVE  \E q : Quiet(q)
<1> DEFINE none == Request("list", Nothing)
<1>1. IsView(view) /\ IsRpc(rpc)
  BY DEF RunsInv
<1>2. none.op = "list"
  BY DEF Request
<1> HIDE DEF none
<1>3. /\ IsRpc(Popped) /\ Popped.intents = rpc.intents
      /\ IsRpc(Done(n)) /\ Kept(rpc.intents, Done(n).intents)
      /\ \A v, q : /\ IsRpc(Submitted(Done(n), v, q))
                   /\ Asked(rpc.intents, Submitted(Done(n), v, q).intents, v, q)
  BY DoneSteps
<1>4. \A v : Asked(rpc.intents, rpc.intents, v, none) /\ Asked(rpc.intents, Done(n).intents, v, none)
  BY <1>3, AskedSteps
<1>5. ASSUME NEW q, q.op \notin {"raw", "approve"},
             IsView(view'), view'.epoch = view.epoch,
             view'.page = "raw" => view.page = "raw" /\ view'.run = view.run,
             IsRpc(rpc'), Asked(rpc.intents, rpc'.intents, view', q),
             q.op = "cancel" =>
               \E m \in Intents : rpc.intents[m].cancelled /\ q.about.of = rpc.intents[m].request,
             raw' = raw, approval' \in {Nothing, approval}, consent' = consent
      PROVE  Quiet(q)
  BY <1>5 DEF Quiet, Sends
<1>6. ASSUME rpc' \in {rpc, Popped, Done(n)}, view' = view,
             raw' = raw, approval' \in {Nothing, approval}, consent' = consent
      PROVE  Quiet(none)
  BY <1>1, <1>2, <1>3, <1>4, <1>5, <1>6
<1>7. ASSUME NEW q, q.op \notin {"raw", "approve", "cancel"}, rpc' = Submitted(Done(n), view, q), view' = view,
             raw' = raw, approval' \in {Nothing, approval}, consent' = consent
      PROVE  Quiet(q)
  BY <1>1, <1>3, <1>5, <1>7
<1>8. CASE EndJob(n)
  BY <1>6, <1>8 DEF EndJob, shownVars, historyVars
<1>9. CASE PollJob(n)
  <2> DEFINE r == [rpc EXCEPT !.wire = Append(@, n)]
             i == [rpc.intents[n] EXCEPT !.polling = TRUE]
  <2>1. IsRpc(r) /\ r.intents = rpc.intents
    <3> DEFINE f == rpc.intents
    <3>1. /\ rpc = [intents |-> f, wire |-> rpc.wire, nonce |-> rpc.nonce] /\ rpc.nonce \in Nat
          /\ f = [m \in DOMAIN f |-> f[m]] /\ \A m \in DOMAIN f : IsIntent(f[m])
      BY <1>1 DEF IsRpc
    <3> HIDE DEF f
    <3>2. \A t : [rpc EXCEPT !.wire = t] = [intents |-> f, wire |-> t, nonce |-> rpc.nonce]
      BY <3>1
    <3>3. r = [intents |-> f, wire |-> Append(rpc.wire, n), nonce |-> rpc.nonce]
      BY <3>2, Zenon
    <3> HIDE DEF r
    <3> QED BY <3>1, <3>3 DEF IsRpc, f
  <2>2. n \in Intents /\ IsIntent(rpc.intents[n])
    BY <1>1, <1>9 DEF PollJob, IsRpc, Intents
  <2>3. IsIntent(i) /\ Carried(rpc.intents[n], i)
    BY <2>2, IntentEdits
  <2>4. rpc' = Updated(r, n, i)
    BY <1>9 DEF PollJob
  <2> HIDE DEF r, i
  <2>5. IsRpc(rpc') /\ Kept(rpc.intents, rpc'.intents)
    BY <2>1, <2>2, <2>3, <2>4, UpdateSteps DEF Intents
  <2>6. \A v : Asked(rpc.intents, rpc'.intents, v, none)
    BY <2>5, AskedSteps
  <2>7. UNCHANGED <<view, approval, raw, consent>>
    BY <1>9 DEF PollJob, shownVars, historyVars
  <2> QED BY <1>1, <1>2, <1>5, <2>5, <2>6, <2>7
<1>10. CASE RequestFails(n)
  <2>1. approval' \in {Nothing, approval}
    BY <1>10 DEF RequestFails, GivenUp
  <2> QED BY <1>6, <1>10, <2>1 DEF RequestFails, Done, historyVars
<1>11. CASE ForgottenFails(n)
  BY <1>6, <1>11 DEF ForgottenFails, shownVars, historyVars
<1>12. CASE JobFailed(n)
  <2>1. approval' \in {Nothing, approval}
    BY <1>12 DEF JobFailed, GivenUp
  <2> QED BY <1>6, <1>12, <2>1 DEF JobFailed, Done, historyVars
<1>13. ASSUME NEW j, n \in Intents, StillPending(n, j),
              UNCHANGED <<view, approval, shownVars, historyVars>>
       PROVE  \E q : Quiet(q)
  <2> DEFINE i == rpc.intents[n]
  <2>1. UNCHANGED <<view, approval, raw, consent>>
    BY <1>13 DEF shownVars, historyVars
  <2>2. CASE i.cancelled
    <3> DEFINE q == Request("cancel", [job |-> j, of |-> i.request])
    <3>1. rpc' = Submitted(Done(n), view, q)
      BY <1>13, <2>2 DEF StillPending, Done
    <3>2. q.op = "cancel" /\ q.about.of = i.request
      BY DEF Request
    <3> HIDE DEF q
    <3> QED BY <1>1, <1>3, <1>5, <1>13, <2>1, <2>2, <3>1, <3>2
  <2>3. CASE ~i.cancelled
    <3>1. rpc' = Updated(Popped, n, WithJob(i, j))
      BY <1>13, <2>3 DEF StillPending
    <3>2. IsIntent(i)
      BY <1>1, <1>13 DEF IsRpc, Intents
    <3> HIDE DEF i
    <3>3. IsIntent(WithJob(i, j)) /\ Carried(i, WithJob(i, j))
      BY <3>2, IntentEdits
    <3>4. IsRpc(rpc') /\ Kept(rpc.intents, rpc'.intents)
      BY <1>3, <1>13, <3>1, <3>3, UpdateSteps DEF Intents, i
    <3>5. \A v : Asked(rpc.intents, rpc'.intents, v, none)
      BY <3>4, AskedSteps
    <3> QED BY <1>1, <1>2, <1>5, <2>1, <3>4, <3>5
  <2> QED BY <2>2, <2>3
<1>14. CASE Accepted(n)
  <2>1. CASE \E j : n \in Intents /\ StillPending(n, j)
    BY <1>13, <1>14, <2>1 DEF Accepted
  <2>2. CASE rpc' = Done(n)
    BY <1>6, <1>14, <2>2 DEF Accepted, shownVars, historyVars
  <2> QED BY <1>14, <2>1, <2>2 DEF Accepted, Done
<1>15. CASE PollPending(n)
  BY <1>13, <1>15 DEF PollPending, Polled
<1>16. CASE ReviewArrives(n)
  <2>1. rpc' = Done(n) /\ UNCHANGED <<raw, approval, consent>>
    BY <1>16 DEF ReviewArrives, shownVars, historyVars
  <2>2. IsView(view') /\ SamePlace(view, view')
    <3>1. \/ view' = view
          \/ \E x : view' = [view EXCEPT !.dialog = x]
      BY <1>16 DEF ReviewArrives
    <3>2. SamePlace(view, view)
      BY DEF SamePlace
    <3>3. ASSUME NEW x, view' = [view EXCEPT !.dialog = x]
          PROVE  IsView(view') /\ SamePlace(view, view')
      BY <1>1, <3>3, ViewEdits
    <3> QED BY <1>1, <3>1, <3>2, <3>3
  <2> QED BY <1>2, <1>3, <1>4, <1>5, <2>1, <2>2 DEF SamePlace
<1>17. CASE StartedArrives(n)
  <2>1. rpc' = Done(n) /\ UNCHANGED <<raw, approval, consent>>
    BY <1>17 DEF StartedArrives, shownVars, historyVars
  <2>2. CASE view' = view
    BY <1>6, <2>1, <2>2
  <2>3. ASSUME NEW x, view' = Showing([view EXCEPT !.tab = "runs"], x, "detail")
        PROVE  Quiet(none)
    <3> DEFINE v == [view EXCEPT !.tab = "runs"]
    <3>1. IsView(v) /\ v.epoch = view.epoch
      BY <1>1, ViewSteps, Zenon
    <3>3. view' = Showing(v, x, "detail")
      BY <2>3
    <3> HIDE DEF v
    <3>2. IsView(view') /\ view'.epoch = view.epoch /\ view'.page = "detail"
      BY <3>1, <3>3, ViewSteps
    <3> QED BY <1>2, <1>3, <1>4, <1>5, <2>1, <3>2
  <2>4. view' = view \/ \E x : view' = Showing([view EXCEPT !.tab = "runs"], x, "detail")
    BY <1>17 DEF StartedArrives
  <2> QED BY <2>2, <2>3, <2>4
<1>18. CASE ApprovedArrives(n)
  <2>1. UNCHANGED <<raw, view, consent>> /\ approval' \in {Nothing, approval}
    BY <1>18 DEF ApprovedArrives, shownVars
  <2>2. rpc' = Submitted(Done(n), view, Request("start", approval)) \/ rpc' = Done(n)
    BY <1>18 DEF ApprovedArrives
  <2>3. Request("start", approval).op = "start"
    BY DEF Request
  <2> QED BY <1>6, <1>7, <2>1, <2>2, <2>3
<1>19. CASE InfoArrives(n) \/ LogArrives(n)
  <2>1. UNCHANGED <<raw, view, consent, approval>>
    BY <1>19 DEF InfoArrives, LogArrives, shownVars, historyVars
  <2>2. rpc' = Done(n) \/ \E q : rpc' = Submitted(Done(n), view, q) /\ q.op = "log"
    <3>1. CASE InfoArrives(n)
      BY <3>1 DEF InfoArrives, ReadLog, Request
    <3>2. CASE LogArrives(n)
      BY <3>2 DEF LogArrives, ReadLog, Request
    <3> QED BY <1>19, <3>1, <3>2
  <2> QED BY <1>6, <1>7, <2>1, <2>2
<1>20. CASE PinnedArrives(n) \/ OtherArrives(n)
  BY <1>6, <1>20 DEF PinnedArrives, OtherArrives, shownVars, historyVars
<1> QED BY <1>8, <1>9, <1>10, <1>11, <1>12, <1>14, <1>15, <1>16, <1>17, <1>18, <1>19, <1>20

\* Steps about pages of a raw result, and another host.
LEMMA PagesSend ==
  ASSUME RunsInv
  PROVE  /\ OpenRaw => Sends(Request("raw", [run |-> view.run, page |-> 0]))
         /\ \A p : TurnPage(p) => Sends(Request("raw", [run |-> view.run, page |-> p]))
         /\ (HostChanged \/ \E n : RawArrives(n)) => \E q : Sends(q)
<1>1. IsView(view) /\ IsRpc(rpc) /\ view.epoch \in Nat
  BY DEF RunsInv, IsView
<1>2. ASSUME OpenRaw
      PROVE  Sends(Request("raw", [run |-> view.run, page |-> 0]))
  <2> DEFINE v == Moved([view EXCEPT !.page = "raw"])
             q == Request("raw", [run |-> view.run, page |-> 0])
  <2>1. IsView(v) /\ v.epoch = view.epoch + 1
    BY <1>1, ViewEdits, Zenon
  <2>2. Ask(v, q) /\ q.op = "raw"
    BY <1>2 DEF OpenRaw, Request
  <2> HIDE DEF v, q
  <2>3. Sends(q)
    BY <1>1, <2>1, <2>2, AskSteps DEF Sends
  <2> QED BY <2>3 DEF q
<1>3. ASSUME NEW p, TurnPage(p)
      PROVE  Sends(Request("raw", [run |-> view.run, page |-> p]))
  <2> DEFINE q == Request("raw", [run |-> view.run, page |-> p])
  <2>1. Ask(view, q) /\ q.op = "raw" /\ approval' = approval /\ consent' = consent
    BY <1>3 DEF TurnPage, Request, historyVars
  <2> HIDE DEF q
  <2>2. Sends(q)
    BY <1>1, <2>1, AskSteps DEF Sends
  <2> QED BY <2>2 DEF q
<1>4. ASSUME HostChanged
      PROVE  Sends(Request("list", Nothing))
  <2>1. IsView(view') /\ view'.epoch = view.epoch + 1
    BY <1>1, <1>4, ViewSteps DEF HostChanged
  <2>2. IsRpc(rpc') /\ Kept(rpc.intents, rpc'.intents)
    <3>1. rpc = [intents |-> rpc.intents, wire |-> rpc.wire, nonce |-> rpc.nonce] /\ rpc.nonce \in Nat
      BY <1>1 DEF IsRpc
    <3>2. \A f : [rpc EXCEPT !.intents = f] = [intents |-> f, wire |-> rpc.wire, nonce |-> rpc.nonce]
      BY <3>1
    <3>3. rpc' = [intents |-> << >>, wire |-> rpc.wire, nonce |-> rpc.nonce]
      BY <1>4, <3>2 DEF HostChanged
    <3>4. DOMAIN << >> = {} /\ << >> = [n \in DOMAIN << >> |-> << >>[n]]
      OBVIOUS
    <3>5. rpc'.intents = << >> /\ rpc'.wire = rpc.wire /\ rpc'.nonce = rpc.nonce
      BY <3>3
    <3> QED BY <3>1, <3>3, <3>4, <3>5 DEF IsRpc, Kept
  <2>3. Asked(rpc.intents, rpc'.intents, view', Request("list", Nothing))
    BY <2>2, AskedSteps
  <2> QED BY <2>1, <2>2, <2>3 DEF Sends, Request
<1>5. ASSUME NEW n, RawArrives(n)
      PROVE  Sends(Request("list", Nothing))
  <2>1. rpc' = Done(n) /\ UNCHANGED <<view, approval, consent>>
    BY <1>5 DEF RawArrives, historyVars
  <2>2. IsRpc(rpc') /\ Asked(rpc.intents, rpc'.intents, view', Request("list", Nothing))
    BY <2>1, DoneSteps, AskedSteps
  <2> QED BY <1>1, <2>1, <2>2 DEF Sends, Request
<1> QED BY <1>2, <1>3, <1>4, <1>5

\* The reads that are marked, and the requests to cancel them.
LEMMA CancelSteps ==
  ASSUME RunsInv, CancelReads
  PROVE  /\ IsView(view') /\ view'.epoch = view.epoch + 1 /\ IsRpc(rpc')
         /\ \A n \in DOMAIN rpc'.intents : LET k == rpc'.intents[n] IN
              \/ /\ n \in Intents /\ k.request = rpc.intents[n].request
                 /\ k.epoch = rpc.intents[n].epoch
                 /\ k.cancelled => rpc.intents[n].cancelled \/ k.request.op \in Reads
              \/ /\ k.request.op = "cancel" /\ k.epoch = view'.epoch /\ ~k.cancelled
                 /\ \E m \in Intents : /\ k.request.about.of = rpc.intents[m].request
                                       /\ rpc.intents[m].request.op \in Reads
<1>1. IsView(view) /\ IsRpc(rpc) /\ rpc.nonce \in Nat
  BY DEF RunsInv, IsRpc
<1>2. IsView(view') /\ view'.epoch = view.epoch + 1
  BY <1>1, ViewSteps DEF CancelReads
<1> DEFINE f == rpc.intents
           reads == {n \in DOMAIN f : f[n].request.op \in Reads}
           known == {n \in reads : f[n].job # 0}
           CancelOf(n) == Request("cancel", [job |-> f[n].job, of |-> f[n].request])
           Marked(n) == [f[n] EXCEPT !.cancelled = @ \/ n \in reads]
<1>12. PICK sent \in 0..CancelLimit : \E of \in [1..sent -> known] :
        rpc' = [intents |-> [n \in DOMAIN f \union (rpc.nonce + 1)..(rpc.nonce + sent) |->
                               IF n \in DOMAIN f THEN Marked(n)
                               ELSE Intent(view', CancelOf(of[n - rpc.nonce]))],
                wire |-> rpc.wire \o [k \in 1..sent |-> rpc.nonce + k],
                nonce |-> rpc.nonce + sent]
  BY DEF CancelReads, Intents, Injection
<1>3. PICK of \in [1..sent -> known] :
        rpc' = [intents |-> [n \in DOMAIN f \union (rpc.nonce + 1)..(rpc.nonce + sent) |->
                               IF n \in DOMAIN f THEN Marked(n)
                               ELSE Intent(view', CancelOf(of[n - rpc.nonce]))],
                wire |-> rpc.wire \o [k \in 1..sent |-> rpc.nonce + k],
                nonce |-> rpc.nonce + sent]
  BY <1>12
<1> DEFINE g == [n \in DOMAIN f \union (rpc.nonce + 1)..(rpc.nonce + sent) |->
                   IF n \in DOMAIN f THEN Marked(n) ELSE Intent(view', CancelOf(of[n - rpc.nonce]))]
<1>4. sent \in Nat /\ rpc.nonce + sent \in Nat
  BY <1>1, LimitsAssumption
<1>5. ASSUME NEW n \in DOMAIN f
      PROVE  /\ IsIntent(Marked(n)) /\ Marked(n).request = f[n].request /\ Marked(n).epoch = f[n].epoch
             /\ Marked(n).cancelled => f[n].cancelled \/ f[n].request.op \in Reads
  <2> DEFINE i == f[n]
             R(c) == [request |-> i.request, run |-> i.run, epoch |-> i.epoch, tab |-> i.tab,
                      job |-> i.job, polling |-> i.polling, cancelled |-> c]
  <2>1. i = R(i.cancelled)
    BY <1>1 DEF IsRpc, IsIntent
  <2>2. \A c : [i EXCEPT !.cancelled = c] = R(c)
    BY <2>1
  <2>3. Marked(n) = R(i.cancelled \/ n \in reads)
    BY <2>2, Zenon
  <2>4. \A c : IsIntent(R(c)) /\ R(c).request = i.request /\ R(c).epoch = i.epoch /\ R(c).cancelled = c
    BY DEF IsIntent
  <2>5. n \in reads => f[n].request.op \in Reads
    OBVIOUS
  <2> HIDE DEF i, R, reads, Marked
  <2>6. IsIntent(Marked(n)) /\ Marked(n).request = i.request /\ Marked(n).epoch = i.epoch
    BY <2>3, <2>4
  <2>7. Marked(n).cancelled = (i.cancelled \/ n \in reads)
    BY <2>3, <2>4, Zenon
  <2> QED BY <2>5, <2>6, <2>7 DEF i
<1>6. ASSUME NEW n \in (rpc.nonce + 1)..(rpc.nonce + sent)
      PROVE  LET k == Intent(view', CancelOf(of[n - rpc.nonce])) IN
               /\ IsIntent(k) /\ k.request.op = "cancel" /\ k.epoch = view'.epoch /\ ~k.cancelled
               /\ \E m \in DOMAIN f : k.request.about.of = f[m].request /\ f[m].request.op \in Reads
  <2>1. n - rpc.nonce \in 1..sent
    BY <1>1, <1>4
  <2>2. of[n - rpc.nonce] \in DOMAIN f /\ f[of[n - rpc.nonce]].request.op \in Reads
    BY <1>3, <2>1
  <2> HIDE DEF f
  <2> QED BY <2>2 DEF Intent, Request, IsIntent
<1>7. rpc' = [intents |-> g, wire |-> rpc.wire \o [k \in 1..sent |-> rpc.nonce + k], nonce |-> rpc.nonce + sent]
  BY <1>3
<1> HIDE DEF Marked, CancelOf, f
<1>8. /\ DOMAIN g = DOMAIN f \union (rpc.nonce + 1)..(rpc.nonce + sent) /\ g = [n \in DOMAIN g |-> g[n]]
      /\ \A n \in DOMAIN g : g[n] = IF n \in DOMAIN f THEN Marked(n)
                                    ELSE Intent(view', CancelOf(of[n - rpc.nonce]))
  OBVIOUS
<1> HIDE DEF g
<1>9. \A n \in DOMAIN g : IsIntent(g[n])
  BY <1>5, <1>6, <1>8
<1>10. IsRpc(rpc') /\ rpc'.intents = g
  BY <1>4, <1>7, <1>8, <1>9 DEF IsRpc
<1>11. ASSUME NEW n \in DOMAIN g
       PROVE  \/ /\ n \in DOMAIN f /\ g[n].request = f[n].request /\ g[n].epoch = f[n].epoch
                 /\ g[n].cancelled => f[n].cancelled \/ g[n].request.op \in Reads
              \/ /\ g[n].request.op = "cancel" /\ g[n].epoch = view'.epoch /\ ~g[n].cancelled
                 /\ \E m \in DOMAIN f : g[n].request.about.of = f[m].request /\ f[m].request.op \in Reads
  <2>1. CASE n \in DOMAIN f
    BY <1>5, <1>8, <2>1
  <2>2. CASE n \notin DOMAIN f
    BY <1>6, <1>8, <2>2
  <2> QED BY <2>1, <2>2
<1> QED BY <1>2, <1>10, <1>11 DEF f, Intents

-----------------------------------------------------------------------------
(* Starts                                                                  *)

LEMMA RunsStep ==
  ASSUME RunsInv, NEW q, Sends(q)
  PROVE  RunsInv'
<1> DEFINE f == rpc.intents
           g == rpc'.intents
<1>1. /\ IsView(view') /\ IsRpc(rpc') /\ Asked(f, g, view', q) /\ view'.epoch \in Nat
      /\ view.epoch \in Nat /\ view.epoch <= view'.epoch
  BY DEF Sends, RunsInv, IsView
<1>2. \A n \in DOMAIN f : f[n].epoch \in Nat /\ f[n].epoch <= view.epoch /\ ReadsOnly(f[n])
  BY DEF RunsInv, Intents
<1>3. ReadsOnly(Intent(view', q)) /\ Intent(view', q).epoch = view'.epoch /\ Intent(view', q).request = q
  BY <1>2 DEF Sends, Intents, ReadsOnly, Intent
<1>4. ASSUME NEW n \in DOMAIN g
      PROVE  /\ g[n].epoch \in Nat /\ g[n].epoch <= view'.epoch /\ ReadsOnly(g[n])
             /\ \/ g[n].request = q
                \/ n \in DOMAIN f /\ g[n].request = f[n].request /\ g[n].epoch = f[n].epoch
  <2> HIDE DEF f, g
  <2>1. CASE n \in DOMAIN f /\ Carried(f[n], g[n])
    BY <1>1, <1>2, <2>1 DEF Carried, ReadsOnly
  <2>2. CASE g[n] = Intent(view', q)
    BY <1>1, <1>3, <2>2
  <2> QED BY <1>1, <2>1, <2>2 DEF Asked, Kept
<1>5. ASSUME approval' # Nothing, Approving(g, view'.epoch)
      PROVE  approval' \in consent'
  <2>1. PICK n \in DOMAIN g : g[n].request.op = "approve" /\ g[n].epoch = view'.epoch
    BY <1>5 DEF Approving
  <2>2. CASE q.op = "approve"
    BY <1>5, <2>2 DEF Sends
  <2>3. CASE q.op # "approve"
    <3>1. n \in DOMAIN f /\ f[n].request.op = "approve" /\ f[n].epoch = view'.epoch
      BY <1>4, <2>1, <2>3
    <3>2. view'.epoch = view.epoch
      BY <1>1, <1>2, <3>1 DEF Sends
    <3>3. Approving(f, view.epoch)
      BY <3>1, <3>2 DEF Approving
    <3> HIDE DEF f, g
    <3>4. view'.epoch # view.epoch + 1
      BY <1>1, <3>2
    <3> QED BY <1>5, <3>2, <3>3, <3>4 DEF Sends, RunsInv, f
  <2> QED BY <2>2, <2>3
<1> QED BY <1>1, <1>4, <1>5 DEF RunsInv, Intents

LEMMA CancelKeeps ==
  ASSUME RunsInv, CancelReads
  PROVE  RunsInv'
<1> DEFINE f == rpc.intents
           g == rpc'.intents
<1>1. /\ IsView(view') /\ IsRpc(rpc') /\ view'.epoch = view.epoch + 1
      /\ view.epoch \in Nat /\ view'.epoch \in Nat
  BY CancelSteps DEF RunsInv, IsView
<1>2. \A n \in DOMAIN f : f[n].epoch \in Nat /\ f[n].epoch <= view.epoch /\ ReadsOnly(f[n])
  BY DEF RunsInv, Intents
<1>3. ASSUME NEW n \in DOMAIN g
      PROVE  /\ g[n].epoch \in Nat /\ g[n].epoch <= view'.epoch /\ ReadsOnly(g[n])
             /\ g[n].request.op = "approve" => g[n].epoch # view'.epoch
  <2>1. CASE /\ n \in DOMAIN f /\ g[n].request = f[n].request /\ g[n].epoch = f[n].epoch
             /\ g[n].cancelled => f[n].cancelled \/ g[n].request.op \in Reads
    <3> HIDE DEF f, g
    <3> QED BY <1>1, <1>2, <2>1 DEF ReadsOnly
  <2>2. CASE /\ g[n].request.op = "cancel" /\ g[n].epoch = view'.epoch /\ ~g[n].cancelled
             /\ \E m \in DOMAIN f : g[n].request.about.of = f[m].request /\ f[m].request.op \in Reads
    <3> HIDE DEF f, g
    <3> QED BY <1>1, <2>2 DEF ReadsOnly
  <2> QED BY <2>1, <2>2, CancelSteps DEF Intents
<1>4. ~Approving(g, view'.epoch)
  BY <1>3 DEF Approving
<1> QED BY <1>1, <1>3, <1>4 DEF RunsInv, Intents

\* Every step is one of those above.
LEMMA StepsSend ==
  ASSUME RunsInv, Next
  PROVE  CancelReads \/ \E q : Sends(q)
<1>1. CASE OpenRaw \/ NextPage \/ PreviousPage \/ HostChanged \/ \E n \in 1..MaxNonce : RawArrives(n)
  BY <1>1, PagesSend DEF NextPage, PreviousPage
<1>2. (\E q : Quiet(q)) => \E q : Sends(q)
  BY DEF Quiet
<1>3. CASE \/ \E tab \in {"tasks", "runs"} : ChooseTab(tab)
           \/ NavigateAway \/ Escape \/ BackToList \/ OpenLog
           \/ \E r \in Runs : OpenRun(r)
  BY <1>2, <1>3, MovesQuiet
<1>4. CASE \/ \E t \in Tasks : ReviewTask(t)
           \/ OpenDialog \/ ScrollRuns \/ Baseline \/ Compare \/ Follow \/ ToggleMenu \/ Refresh
           \/ \E p \in BOOLEAN : Pin(p)
  BY <1>2, <1>4, KeysQuiet
<1>5. CASE ConfirmReview \/ SaveForm
  BY <1>2, <1>5, DialogsQuiet
<1>6. ASSUME NEW n \in 1..MaxNonce, EndJob(n) \/ PollJob(n) \/ Arrives(n), ~RawArrives(n)
      PROVE  \E q : Quiet(q)
  BY <1>6, AnswersQuiet DEF Arrives
<1> QED BY <1>1, <1>2, <1>3, <1>4, <1>5, <1>6 DEF Next

LEMMA RunsAtRest ==
  ASSUME NEW v, IsView(v), AtRest(v)
  PROVE  RunsInv
<1>1. rpc.intents = << >> /\ rpc.nonce = 0 /\ rpc.wire = << >> /\ approval = Nothing /\ view = v
  BY DEF AtRest
<1>2. rpc = [intents |-> << >>, wire |-> << >>, nonce |-> 0]
  BY DEF AtRest
<1>3. DOMAIN << >> = {} /\ << >> = [n \in DOMAIN << >> |-> << >>[n]]
  OBVIOUS
<1>4. IsRpc(rpc)
  BY <1>1, <1>2, <1>3 DEF IsRpc
<1> QED BY <1>1, <1>3, <1>4 DEF RunsInv, Intents

\* Of the Runs tab (ui/runs.rs): nothing but a read is cancelled, and a start
\* that waits for an approval of this visit is one the user consented to.
THEOREM RunsInvariance == Spec => []RunsInv
<1>1. Init => RunsInv
  <2>1. IsView(Home)
    BY DEF Home, IsView
  <2> QED BY <2>1, RunsAtRest DEF Init
<1>2. RunsInv /\ [Next]_vars => RunsInv'
  <2>1. ASSUME RunsInv, Next PROVE RunsInv'
    BY <2>1, StepsSend, RunsStep, CancelKeeps
  <2>2. ASSUME RunsInv, UNCHANGED vars PROVE RunsInv'
    BY <2>2 DEF RunsInv, vars, historyVars, Intents
  <2> QED BY <2>1, <2>2
<1> QED BY <1>1, <1>2, PTL DEF Spec

\* A task is started only as the user confirmed it and has not walked away
\* from, after its approval was saved (runs.rs:517): the approval that starts
\* it is one of this visit, and so the start that waits is consented to.
THEOREM StartsAlwaysConfirmed == Spec => StartFollowsConfirmation
<1> DEFINE Due == \A start \in started' \ started :
                    /\ start \in consent'
                    /\ [task |-> start.task, digest |-> start.digest] \in acked'
<1>1. ASSUME RunsInv, Next
      PROVE  Due
  <2>1. CASE started' = started
    BY <2>1
  <2>2. CASE ConfirmReview
    <3> DEFINE seen == view.dialog.about
               start == Start(seen.task, seen.digest, rpc.nonce + 1)
    <3>1. CASE seen.approved
      <4>1. /\ started' \ started \subseteq {start} /\ consent' = consent \union {start}
            /\ acked' = acked \union {[task |-> seen.task, digest |-> seen.digest]}
        BY <2>2, <3>1 DEF ConfirmReview
      <4>2. start.task = seen.task /\ start.digest = seen.digest
        BY DEF Start
      <4> HIDE DEF start, seen
      <4> QED BY <4>1, <4>2
    <3>2. CASE ~seen.approved
      BY <2>2, <3>2 DEF ConfirmReview
    <3> QED BY <3>1, <3>2
  <2>3. ASSUME NEW n, ApprovedArrives(n), started' # started
        PROVE  Due
    <3> DEFINE i == rpc.intents[n]
    <3>1. /\ n \in Intents /\ Served(i).op = "approve" /\ StartDue(n)
          /\ started' = started \union {approval} /\ consent' = consent
          /\ acked' = acked \union {Result(n)}
      BY <2>3 DEF ApprovedArrives, Complete, Polled
    <3>2. i.request.op = "approve" /\ i.epoch = view.epoch /\ approval # Nothing
      <4>3. \A m \in Intents : ReadsOnly(rpc.intents[m])
        BY <1>1 DEF RunsInv
      <4>1. ReadsOnly(i)
        BY <3>1, <4>3, Zenon
      <4>2. "approve" \notin Reads
        BY DEF Reads
      <4> QED BY <3>1, <4>1, <4>2 DEF ReadsOnly, Served, StartDue, Fits
    <3>3. Approving(rpc.intents, view.epoch)
      BY <3>1, <3>2 DEF Approving, Intents
    <3>4. approval \in consent
      BY <1>1, <3>2, <3>3 DEF RunsInv
    <3>5. [task |-> approval.task, digest |-> approval.digest] = Result(n)
      BY <3>1 DEF StartDue
    <3> QED BY <3>1, <3>4, <3>5
  <2> QED BY <1>1, <2>1, <2>2, <2>3
        DEF Next, Arrives, ChooseTab, NavigateAway, ReviewTask, OpenDialog, ScrollRuns, OpenRun, BackToList,
            OpenRaw, NextPage, PreviousPage, TurnPage, Baseline, Pin, Compare, OpenLog, Follow, CancelReads,
            ToggleMenu, Refresh, SaveForm, Escape, HostChanged, EndJob, PollJob, RequestFails,
            ForgottenFails, Accepted, PollPending, JobFailed, ReviewArrives, StartedArrives, InfoArrives,
            LogArrives, RawArrives, PinnedArrives, OtherArrives, historyVars, Withdraw
<1>2. ASSUME UNCHANGED vars
      PROVE  Due
  BY <1>2 DEF vars, historyVars
<1>3. RunsInv /\ [Next]_vars => [Due]_vars
  BY <1>1
<1> QED BY <1>3, RunsInvariance, PTL DEF Spec, StartFollowsConfirmation

-----------------------------------------------------------------------------
(* What is put together from many replies                                  *)

\* A log, and what is changed of it.
LEMMA LogEdits ==
  ASSUME NEW l, IsLog(l)
  PROVE  /\ \A b : IsLog([l EXCEPT !.follow = b])
         /\ \A x, y : [[l EXCEPT !.next = x] EXCEPT !.shown = y]
                      = [run |-> l.run, next |-> x, follow |-> l.follow, shown |-> y]
<1> DEFINE R(run, next, follow, shown) ==
      [run |-> run, next |-> next, follow |-> follow, shown |-> shown]
<1>1. PICK run, next, follow, shown : l = R(run, next, follow, shown)
  BY DEF IsLog
<1>2. /\ \A b : [R(run, next, follow, shown) EXCEPT !.follow = b] = R(run, next, b, shown)
      /\ \A x : [R(run, next, follow, shown) EXCEPT !.next = x] = R(run, x, follow, shown)
      /\ \A x, y : [R(run, x, follow, shown) EXCEPT !.shown = y] = R(run, x, follow, y)
  OBVIOUS
<1>3. run = l.run /\ follow = l.follow
  BY <1>1
<1>4. \A b : IsLog(R(run, next, b, shown))
  BY <1>1 DEF IsLog
<1> HIDE DEF R
<1>5. ASSUME NEW b
      PROVE  IsLog([l EXCEPT !.follow = b])
  <2>1. [l EXCEPT !.follow = b] = R(run, next, b, shown)
    BY <1>1, <1>2
  <2> QED BY <1>4, <2>1, Zenon
<1>6. ASSUME NEW x, NEW y
      PROVE  [[l EXCEPT !.next = x] EXCEPT !.shown = y] = R(run, x, follow, y)
  BY <1>1, <1>2
<1> QED BY <1>3, <1>5, <1>6 DEF R

\* What is shown of a log begins at its beginning, and every chunk continues it.
LEMMA ShownLogStep ==
  ASSUME ShownLogInv, Next
  PROVE  ShownLogInv'
<1>2. CASE shownLog' = shownLog \/ shownLog' = Nothing \/ \E b : shownLog # Nothing /\ shownLog' = [shownLog EXCEPT !.follow = b]
  <2>1. CASE shownLog' = shownLog \/ shownLog' = Nothing
    BY <2>1 DEF ShownLogInv
  <2>2. ASSUME NEW b, shownLog # Nothing, shownLog' = [shownLog EXCEPT !.follow = b]
        PROVE  ShownLogInv'
    <3>1. IsLog([shownLog EXCEPT !.follow = b])
      BY <2>2, LogEdits, Zenon DEF ShownLogInv
    <3> QED BY <2>2, <3>1, Zenon DEF ShownLogInv
  <2> QED BY <1>2, <2>1, <2>2
<1>3. CASE OpenLog
  <2>1. shownLog' = [run |-> view.run, next |-> 0, follow |-> TRUE, shown |-> << >>]
    BY <1>3 DEF OpenLog
  <2>2. << >> = [k \in 1..0 |-> k - 1]
    OBVIOUS
  <2> QED BY <2>1, <2>2 DEF ShownLogInv, IsLog
<1>4. ASSUME NEW n, LogArrives(n), shownLog' # shownLog
      PROVE  ShownLogInv'
  <2> DEFINE chunk == Result(n)
  <2>1. shownLog # Nothing /\ Continues(shownLog, chunk) /\ shownLog' = Pushed(shownLog, chunk)
    BY <1>4 DEF LogArrives
  <2> HIDE DEF chunk
  <2>2. /\ IsLog(shownLog) /\ chunk.offset = shownLog.next /\ shownLog.next \in Nat
        /\ shownLog.shown = [k \in 1..shownLog.next |-> k - 1]
    BY <2>1 DEF ShownLogInv, IsLog, Continues
  <2>3. shownLog' = [shownLog EXCEPT !.next = chunk.offset + 1, !.shown = Append(@, chunk.offset)]
    BY <1>4, <2>1 DEF Pushed
  <2>4. \A x, y : [[shownLog EXCEPT !.next = x] EXCEPT !.shown = y]
                  = [run |-> shownLog.run, next |-> x, follow |-> shownLog.follow, shown |-> y]
    BY <2>2, LogEdits
  <2>5. [shownLog EXCEPT !.next = chunk.offset + 1, !.shown = Append(@, chunk.offset)]
        = [[shownLog EXCEPT !.next = chunk.offset + 1] EXCEPT !.shown = Append(shownLog.shown, chunk.offset)]
    BY Zenon
  <2>6. shownLog' = [run |-> shownLog.run, next |-> shownLog.next + 1, follow |-> shownLog.follow,
                shown |-> Append(shownLog.shown, shownLog.next)]
    BY <2>2, <2>3, <2>4, <2>5, Zenon
  <2>7. Append(shownLog.shown, shownLog.next) = [k \in 1..(shownLog.next + 1) |-> k - 1]
    <3> DEFINE m == shownLog.next
    <3>1. m \in Nat
      BY <2>2
    <3> HIDE DEF m
    <3>2. [k \in 1..m |-> k - 1] \in Seq(Int) /\ Len([k \in 1..m |-> k - 1]) = m
      BY <3>1
    <3>3. Append([k \in 1..m |-> k - 1], m) = [k \in 1..(m + 1) |-> k - 1]
      BY <3>1, <3>2
    <3> QED BY <2>2, <3>3 DEF m
  <2> HIDE DEF chunk
  <2>8. shownLog.next + 1 \in Nat
    BY <2>2
  <2> QED BY <2>6, <2>7, <2>8 DEF ShownLogInv, IsLog
<1> QED BY <1>2, <1>3, <1>4
    DEF Next, Arrives, ChooseTab, NavigateAway, ReviewTask, OpenDialog, ScrollRuns, OpenRun, BackToList,
        OpenRaw, NextPage, PreviousPage, TurnPage, Baseline, Pin, Compare, Follow, CancelReads,
        ToggleMenu, Refresh, ConfirmReview, SaveForm, Escape, HostChanged, EndJob, PollJob, RequestFails,
        ForgottenFails, Accepted, PollPending, JobFailed, ReviewArrives, ApprovedArrives, StartedArrives,
        InfoArrives, RawArrives, PinnedArrives, OtherArrives, shownVars

\* Quiet steps leave the pages asked for as they are.
LEMMA PagesQuiet ==
  ASSUME RunsInv, PagesInv, NEW q, Quiet(q)
  PROVE  PagesInv'
<1> DEFINE f == rpc.intents
           g == rpc'.intents
<1>1. /\ IsView(view') /\ Asked(f, g, view', q) /\ view.epoch \in Nat /\ q.op # "raw" /\ raw' = raw
      /\ view'.epoch = view.epoch \/ view'.epoch = view.epoch + 1
      /\ view'.epoch = view.epoch /\ view'.page = "raw" => view.page = "raw" /\ view'.run = view.run
  BY DEF Quiet, Sends, RunsInv, IsView
<1>2. \A n \in DOMAIN f : f[n].epoch \in Nat /\ f[n].epoch <= view.epoch /\ PageNotCancelled(f[n])
  BY DEF RunsInv, PagesInv, Intents
<1>3. PageNotCancelled(Intent(view', q)) /\ Intent(view', q).request = q
  BY <1>1, <1>2 DEF Quiet, Sends, Intents, PageNotCancelled, Intent
<1>4. ASSUME NEW n \in DOMAIN g
      PROVE  /\ PageNotCancelled(g[n])
             /\ \/ g[n].request.op # "raw"
                \/ /\ n \in DOMAIN f /\ g[n].request = f[n].request /\ g[n].epoch = f[n].epoch
                   /\ g[n].run = f[n].run
  <2> HIDE DEF f, g
  <2>1. CASE n \in DOMAIN f /\ Carried(f[n], g[n])
    BY <1>2, <2>1 DEF Carried, PageNotCancelled
  <2>2. CASE g[n] = Intent(view', q)
    BY <1>1, <1>3, <2>2
  <2> QED BY <1>1, <2>1, <2>2 DEF Asked, Kept
<1>5. ASSUME NEW n \in PagesAsked(g, view'.epoch)
      PROVE  /\ n \in PagesAsked(f, view.epoch) /\ view'.epoch = view.epoch
             /\ g[n].request = f[n].request /\ g[n].run = f[n].run
  <2>1. /\ n \in DOMAIN f /\ g[n].request = f[n].request /\ g[n].epoch = f[n].epoch
        /\ g[n].run = f[n].run /\ g[n].request.op = "raw" /\ g[n].epoch = view'.epoch
    BY <1>4 DEF PagesAsked
  <2> HIDE DEF f, g
  <2>2. view'.epoch = view.epoch
    <3>1. f[n].epoch \in Nat /\ f[n].epoch <= view.epoch /\ f[n].epoch = view'.epoch
      BY <1>2, <2>1
    <3> QED BY <1>1, <3>1
  <2> QED BY <2>1, <2>2 DEF PagesAsked
<1>6. \A n \in PagesAsked(f, view.epoch) :
        /\ f[n].request.about.page \in Nat /\ Neighbour(raw, f[n].request.about.page)
        /\ view.page = "raw" => f[n].run = view.run
  BY DEF PagesInv
<1>7. ASSUME NEW n \in PagesAsked(g, view'.epoch)
      PROVE  /\ g[n].request.about.page \in Nat /\ Neighbour(raw', g[n].request.about.page)
             /\ view'.page = "raw" => g[n].run = view'.run
  <2> HIDE DEF f, g
  <2> QED BY <1>1, <1>5, <1>6
<1>8. \A n, m \in PagesAsked(g, view'.epoch) : n = m
  BY <1>5 DEF PagesInv
<1>9. /\ raw' = [page |-> raw'.page, history |-> raw'.history]
      /\ raw'.page # Nothing =>
           raw'.page.page \in Nat /\ raw'.history = [k \in 1..raw'.page.page |-> k - 1]
  BY <1>1 DEF PagesInv
<1>10. \A n \in DOMAIN g : PageNotCancelled(g[n])
  BY <1>4
<1> QED BY <1>7, <1>8, <1>9, <1>10 DEF PagesInv, Intents

\* The page asked for is the only one of this visit when there was none before.
LEMMA OnePage ==
  ASSUME RunsInv, PagesInv, NEW p \in Nat, Neighbour(raw', p),
         Sends(Request("raw", [run |-> view.run, page |-> p])),
         view'.run = view.run,
         view'.epoch # view.epoch + 1 => PagesAsked(rpc.intents, view.epoch) = {}
  PROVE  /\ \A n \in DOMAIN rpc'.intents : PageNotCancelled(rpc'.intents[n])
         /\ \A n \in PagesAsked(rpc'.intents, view'.epoch) :
              LET i == rpc'.intents[n] IN
                /\ i.request.about.page \in Nat /\ Neighbour(raw', i.request.about.page)
                /\ view'.page = "raw" => i.run = view'.run
         /\ \A n, m \in PagesAsked(rpc'.intents, view'.epoch) : n = m
<1> DEFINE f == rpc.intents
           g == rpc'.intents
           q == Request("raw", [run |-> view.run, page |-> p])
           k == Intent(view', q)
<1>1. /\ Asked(f, g, view', q) /\ view.epoch \in Nat
      /\ view'.epoch = view.epoch \/ view'.epoch = view.epoch + 1
  BY DEF Sends, RunsInv, IsView
<1>2. \A n \in DOMAIN f : f[n].epoch \in Nat /\ f[n].epoch <= view.epoch /\ PageNotCancelled(f[n])
  BY DEF RunsInv, PagesInv, Intents
<1>3. k.request.op = "raw" /\ k.request.about.page = p /\ k.run = view'.run /\ PageNotCancelled(k)
  BY DEF Intent, Request, PageNotCancelled
<1> HIDE DEF f, g, q, k
<1>4. ASSUME NEW n, n \in PagesAsked(f, view'.epoch)
      PROVE  FALSE
  <2>1. n \in DOMAIN f /\ f[n].request.op = "raw" /\ f[n].epoch = view'.epoch
    BY <1>4 DEF PagesAsked
  <2>2. f[n].epoch \in Nat /\ f[n].epoch <= view.epoch
    BY <1>2, <2>1
  <2>3. view'.epoch = view.epoch
    BY <1>1, <2>1, <2>2
  <2>4. view'.epoch # view.epoch + 1
    BY <1>1, <2>3
  <2> QED BY <1>4, <2>3, <2>4 DEF f
<1>5. \A n \in DOMAIN f : \A i : Carried(f[n], i) => PageNotCancelled(i) /\ (i.request.op = "raw" => i.epoch # view'.epoch)
  BY <1>2, <1>4 DEF Carried, PageNotCancelled, PagesAsked
<1>6. CASE Kept(f, g)
  <2>1. PagesAsked(g, view'.epoch) = {} /\ \A n \in DOMAIN g : PageNotCancelled(g[n])
    BY <1>5, <1>6 DEF Kept, PagesAsked
  <2> QED BY <2>1 DEF g
<1>7. ASSUME NEW m, \A n \in DOMAIN g : IF n = m THEN g[n] = k ELSE n \in DOMAIN f /\ Carried(f[n], g[n])
      PROVE  /\ \A n \in DOMAIN g : PageNotCancelled(g[n])
             /\ \A n \in PagesAsked(g, view'.epoch) : n = m /\ g[n] = k
  <2>1. \A n \in DOMAIN g : n # m => PageNotCancelled(g[n]) /\ (g[n].request.op = "raw" => g[n].epoch # view'.epoch)
    BY <1>5, <1>7
  <2>2. \A n \in DOMAIN g : PageNotCancelled(g[n])
    BY <1>3, <1>7, <2>1
  <2> QED BY <1>7, <2>1, <2>2 DEF PagesAsked
<1>8. CASE ~Kept(f, g)
  <2>1. PICK m : \A n \in DOMAIN g : IF n = m THEN g[n] = k ELSE n \in DOMAIN f /\ Carried(f[n], g[n])
    BY <1>1, <1>8 DEF Asked, k
  <2>2. /\ \A n \in DOMAIN g : PageNotCancelled(g[n])
        /\ \A n \in PagesAsked(g, view'.epoch) : n = m /\ g[n] = k
    BY <1>7, <2>1
  <2> QED BY <1>3, <2>2 DEF g
<1> QED BY <1>6, <1>8

\* A page that is asked for.
LEMMA PageAskedFor ==
  ASSUME RunsInv, PagesInv, OpenRaw \/ NextPage \/ PreviousPage
  PROVE  PagesInv'
<1>1. IsView(view) /\ view.epoch \in Nat
  BY DEF RunsInv, IsView
<1>2. CASE OpenRaw
  <2> DEFINE v == Moved([view EXCEPT !.page = "raw"])
             w == [view EXCEPT !.page = "raw"]
  <2>1. /\ Sends(Request("raw", [run |-> view.run, page |-> 0]))
        /\ raw' = [page |-> Nothing, history |-> << >>] /\ view' = v
    BY <1>2, PagesSend DEF OpenRaw, Ask
  <2>2. IsView(w) /\ w.epoch = view.epoch /\ w.run = view.run
    BY <1>1, ViewSteps, Zenon
  <2> HIDE DEF w
  <2>3. Moved(w).epoch = view.epoch + 1
    BY <2>2, ViewSteps
  <2>4. Moved(w).run = w.run
    BY DEF Moved, IsView
  <2>5. view'.epoch = view.epoch + 1 /\ view'.run = view.run
    BY <2>1, <2>2, <2>3, <2>4 DEF w
  <2>6. raw'.page = Nothing /\ raw'.history = << >> /\ Neighbour(raw', 0)
    BY <2>1 DEF Neighbour
  <2> HIDE DEF v
  <2> QED BY <2>1, <2>5, <2>6, OnePage DEF PagesInv, Intents
<1>3. ASSUME NEW p \in Nat, TurnPage(p), Neighbour(raw, p)
      PROVE  PagesInv'
  <2>1. /\ Sends(Request("raw", [run |-> view.run, page |-> p]))
        /\ raw' = raw /\ view' = view /\ view.page = "raw" /\ ~PageRequested
    BY <1>3, PagesSend DEF TurnPage, Ask, shownVars
  <2>2. PagesAsked(rpc.intents, view.epoch) = {}
    BY <2>1 DEF PagesAsked, PageRequested, PagesInv, Intents
  <2> QED BY <1>3, <2>1, <2>2, OnePage DEF PagesInv, Intents
<1>4. CASE NextPage
  <2>1. raw.page.page \in Nat /\ raw.page # Nothing
    BY <1>4 DEF NextPage, PagesInv
  <2>2. raw.page.page + 1 \in Nat /\ Neighbour(raw, raw.page.page + 1) /\ TurnPage(raw.page.page + 1)
    BY <1>4, <2>1 DEF NextPage, Neighbour
  <2> QED BY <1>3, <2>2
<1>5. CASE PreviousPage
  <2> DEFINE p == raw.page.page
  <2>1. p \in Nat /\ raw.history = [k \in 1..p |-> k - 1] /\ raw.page # Nothing /\ raw.history # << >>
    BY <1>5 DEF PreviousPage, TurnPage, PagesInv
  <2>2. Last(raw.history) = p - 1 /\ p - 1 \in Nat
    <3> HIDE DEF p
    <3>1. p # 0
      BY <2>1
    <3>2. Len([k \in 1..p |-> k - 1]) = p
      BY <2>1
    <3> QED BY <2>1, <3>1, <3>2 DEF Last
  <2>3. (p - 1) + 1 = p
    BY <2>1
  <2> HIDE DEF p
  <2>4. Neighbour(raw, p - 1)
    BY <2>1, <2>3 DEF Neighbour, p
  <2> QED BY <1>3, <1>5, <2>2, <2>4 DEF PreviousPage
<1> QED BY <1>2, <1>4, <1>5

\* A page shown is the one after or before the page on the screen, and so the
\* way back is extended or shortened by one.
LEMMA PageShown ==
  ASSUME raw = [page |-> raw.page, history |-> raw.history],
         raw.page # Nothing => raw.page.page \in Nat /\ raw.history = [k \in 1..raw.page.page |-> k - 1],
         NEW page, page.page \in Nat, Neighbour(raw, page.page)
  PROVE  /\ RawShown(page) = [page |-> page, history |-> RawShown(page).history]
         /\ RawShown(page).page = page
         /\ RawShown(page).history = [k \in 1..page.page |-> k - 1]
<1> DEFINE p == page.page
           o == raw.page.page
<1>1. RawShown(page).page = page /\ RawShown(page) = [page |-> page, history |-> RawShown(page).history]
  BY DEF RawShown
<1>2. CASE raw.page = Nothing
  <2>1. RawShown(page).history = << >> /\ p = 0
    BY <1>2 DEF RawShown, Neighbour
  <2>2. << >> = [k \in 1..0 |-> k - 1]
    OBVIOUS
  <2> QED BY <1>1, <2>1, <2>2
<1>3. CASE raw.page # Nothing
  <2>1. /\ o \in Nat /\ p \in Nat /\ raw.history = [k \in 1..o |-> k - 1]
        /\ p = o + 1 \/ p + 1 = o
    BY <1>3 DEF Neighbour
  <2>2. RawShown(page).history =
          IF p = o THEN raw.history
          ELSE IF p > o THEN Append(raw.history, o)
          ELSE IF raw.history # << >> /\ Last(raw.history) = p THEN Front(raw.history)
          ELSE raw.history
    BY <1>3 DEF RawShown
  <2> HIDE DEF p, o
  <2>3. [k \in 1..o |-> k - 1] \in Seq(Int) /\ Len([k \in 1..o |-> k - 1]) = o
    BY <2>1
  <2>4. CASE p = o + 1
    <3>1. RawShown(page).history = Append(raw.history, o)
      BY <2>1, <2>2, <2>4
    <3>2. Append([k \in 1..o |-> k - 1], o) = [k \in 1..(o + 1) |-> k - 1]
      BY <2>1, <2>3
    <3> QED BY <1>1, <2>1, <2>4, <3>1, <3>2 DEF p
  <2>5. CASE p + 1 = o
    <3>1. raw.history # << >> /\ Last(raw.history) = p
      BY <2>1, <2>3, <2>5 DEF Last
    <3>2. RawShown(page).history = Front(raw.history)
      BY <2>1, <2>2, <2>5, <3>1
    <3>3. Front(raw.history) = [k \in 1..p |-> k - 1]
      BY <2>1, <2>3, <2>5 DEF Front
    <3> QED BY <1>1, <3>2, <3>3 DEF p
  <2> QED BY <2>1, <2>4, <2>5
<1> QED BY <1>2, <1>3

\* A page that arrives, in this visit or too late.
LEMMA PageArrives ==
  ASSUME RunsInv, PagesInv, NEW n, RawArrives(n)
  PROVE  PagesInv'
<1> DEFINE f == rpc.intents
           g == rpc'.intents
           i == f[n]
           now == Fits(i) /\ i.run = view.run
<1>1. /\ n \in DOMAIN f /\ Served(i).op = "raw" /\ view' = view
      /\ raw' = IF now THEN RawShown(Served(i).about) ELSE raw
      /\ Kept(f, g) /\ DOMAIN g = DOMAIN f \ {n}
  BY DoneSteps DEF RawArrives, Complete, Polled, Result, Intents
<1>2. \A m \in DOMAIN f : PageNotCancelled(f[m])
  BY DEF PagesInv, Intents
<1>3. Served(i) = i.request /\ i.request.op = "raw"
  BY <1>1, <1>2 DEF Served, PageNotCancelled
<1>4. /\ raw = [page |-> raw.page, history |-> raw.history]
      /\ raw.page # Nothing =>
           raw.page.page \in Nat /\ raw.history = [k \in 1..raw.page.page |-> k - 1]
      /\ \A m \in PagesAsked(f, view.epoch) :
           /\ f[m].request.about.page \in Nat /\ Neighbour(raw, f[m].request.about.page)
           /\ view.page = "raw" => f[m].run = view.run
      /\ \A k, m \in PagesAsked(f, view.epoch) : k = m
  BY DEF PagesInv
<1>5. now => n \in PagesAsked(f, view.epoch)
  BY <1>1, <1>3 DEF Fits, PagesAsked
<1> HIDE DEF f, g, i, now
<1>6. \A m \in DOMAIN g : m \in DOMAIN f /\ m # n /\ Carried(f[m], g[m])
  BY <1>1 DEF Kept
<1>7. \A m \in DOMAIN g : PageNotCancelled(g[m])
  BY <1>2, <1>6 DEF Carried, PageNotCancelled
<1>8. \A m \in PagesAsked(g, view.epoch) :
        /\ m \in PagesAsked(f, view.epoch) /\ m # n
        /\ g[m].request = f[m].request /\ g[m].run = f[m].run
  BY <1>6 DEF PagesAsked, Carried
<1>9. CASE now
  <2> DEFINE page == i.request.about
  <2>1. raw' = RawShown(page) /\ page.page \in Nat /\ Neighbour(raw, page.page)
    BY <1>1, <1>3, <1>4, <1>5, <1>9 DEF i
  <2>2. PagesAsked(g, view'.epoch) = {}
    BY <1>1, <1>4, <1>5, <1>8, <1>9
  <2> HIDE DEF page
  <2>3. /\ RawShown(page) = [page |-> page, history |-> RawShown(page).history]
        /\ RawShown(page).page = page
        /\ RawShown(page).history = [k \in 1..page.page |-> k - 1]
    BY <1>4, <2>1, PageShown
  <2> QED BY <1>7, <2>1, <2>2, <2>3 DEF PagesInv, Intents, g
<1>10. CASE ~now
  <2>1. raw' = raw
    BY <1>1, <1>10
  <2>2. \A m \in PagesAsked(g, view'.epoch) :
          /\ g[m].request.about.page \in Nat /\ Neighbour(raw', g[m].request.about.page)
          /\ view'.page = "raw" => g[m].run = view'.run
    BY <1>1, <1>4, <1>8, <2>1
  <2>3. \A k, m \in PagesAsked(g, view'.epoch) : k = m
    BY <1>1, <1>4, <1>8
  <2> QED BY <1>4, <1>7, <2>1, <2>2, <2>3 DEF PagesInv, Intents, g
<1> QED BY <1>9, <1>10

\* The reads are cancelled, and no page is among them.
LEMMA NoPageCancelled ==
  ASSUME RunsInv, PagesInv, CancelReads, \A n \in Intents : rpc.intents[n].request.op # "raw"
  PROVE  PagesInv'
<1> DEFINE f == rpc.intents
           g == rpc'.intents
<1>1. \A n \in DOMAIN f : f[n].request.op # "raw" /\ PageNotCancelled(f[n])
  BY DEF PagesInv, PageNotCancelled, Intents
<1>2. ASSUME NEW n \in DOMAIN g
      PROVE  g[n].request.op # "raw" /\ PageNotCancelled(g[n])
  <2>1. CASE /\ n \in DOMAIN f /\ g[n].request = f[n].request
    <3> HIDE DEF f, g
    <3> QED BY <1>1, <2>1 DEF PageNotCancelled
  <2>2. CASE /\ g[n].request.op = "cancel" /\ ~g[n].cancelled
             /\ \E m \in DOMAIN f : g[n].request.about.of = f[m].request
    <3> HIDE DEF f, g
    <3> QED BY <1>1, <2>2 DEF PageNotCancelled
  <2> QED BY <2>1, <2>2, CancelSteps DEF Intents
<1>3. PagesAsked(g, view'.epoch) = {}
  BY <1>2 DEF PagesAsked
<1>4. raw' = raw
  BY DEF CancelReads
<1> QED BY <1>2, <1>3, <1>4 DEF PagesInv, Intents

LEMMA PagesStep ==
  ASSUME RunsInv, PagesInv, Next,
         CancelReads => \A n \in Intents : rpc.intents[n].request.op # "raw"
  PROVE  PagesInv'
<1>1. CASE OpenRaw \/ NextPage \/ PreviousPage
  BY <1>1, PageAskedFor
<1>2. ASSUME NEW n, RawArrives(n)
      PROVE  PagesInv'
  BY <1>2, PageArrives
<1>3. CASE CancelReads
  BY <1>3, NoPageCancelled
<1>4. CASE HostChanged
  <2>1. /\ raw' = [raw EXCEPT !.page = Nothing] /\ rpc' = [rpc EXCEPT !.intents = << >>]
        /\ raw = [page |-> raw.page, history |-> raw.history]
        /\ rpc = [intents |-> rpc.intents, wire |-> rpc.wire, nonce |-> rpc.nonce]
    BY <1>4 DEF HostChanged, PagesInv, RunsInv, IsRpc
  <2>2. \A x : [raw EXCEPT !.page = x] = [page |-> x, history |-> raw.history]
    BY <2>1
  <2>3. \A x : [rpc EXCEPT !.intents = x] = [intents |-> x, wire |-> rpc.wire, nonce |-> rpc.nonce]
    BY <2>1
  <2>4. raw' = [page |-> Nothing, history |-> raw.history]
    BY <2>1, <2>2
  <2>5. rpc' = [intents |-> << >>, wire |-> rpc.wire, nonce |-> rpc.nonce]
    BY <2>1, <2>3
  <2>6. rpc'.intents = << >> /\ raw' = [page |-> raw'.page, history |-> raw'.history] /\ raw'.page = Nothing
    BY <2>4, <2>5
  <2>7. DOMAIN << >> = {}
    OBVIOUS
  <2>8. PagesAsked(rpc'.intents, view'.epoch) = {}
    BY <2>6, <2>7 DEF PagesAsked
  <2> QED BY <2>6, <2>7, <2>8 DEF PagesInv, Intents
<1>5. (\E q : Quiet(q)) => PagesInv'
  BY PagesQuiet
<1>6. CASE \/ \E tab \in {"tasks", "runs"} : ChooseTab(tab)
           \/ NavigateAway \/ Escape \/ BackToList \/ OpenLog
           \/ \E r \in Runs : OpenRun(r)
  BY <1>5, <1>6, MovesQuiet
<1>7. CASE \/ \E t \in Tasks : ReviewTask(t)
           \/ OpenDialog \/ ScrollRuns \/ Baseline \/ Compare \/ Follow \/ ToggleMenu \/ Refresh
           \/ \E p \in BOOLEAN : Pin(p)
  BY <1>5, <1>7, KeysQuiet
<1>8. CASE ConfirmReview \/ SaveForm
  BY <1>5, <1>8, DialogsQuiet
<1>9. ASSUME NEW n \in 1..MaxNonce, EndJob(n) \/ PollJob(n) \/ Arrives(n), ~RawArrives(n)
      PROVE  PagesInv'
  BY <1>5, <1>9, AnswersQuiet DEF Arrives
<1> QED BY <1>1, <1>2, <1>3, <1>4, <1>6, <1>7, <1>8, <1>9 DEF Next

\* The user does not cancel the reads while a page of a raw result is read: the
\* answer may then be applied to a later visit (runs.rs:1275).
PageReadsNotCancelled ==
  [][CancelReads => \A n \in Intents : rpc.intents[n].request.op # "raw"]_vars

\* Of the pages of a raw result (runs.rs:1044, 611): one page at a time is asked
\* for in a visit, the next one or the one before, so that the way back is the
\* pages before the one on the screen.
THEOREM PagesInvariance == Spec /\ PageReadsNotCancelled => []PagesInv
<1>1. Init => PagesInv
  <2>1. Init => raw = [page |-> Nothing, history |-> << >>] /\ rpc.intents = << >>
    BY DEF Init, AtRest
  <2>2. DOMAIN << >> = {}
    OBVIOUS
  <2>3. Init => PagesAsked(rpc.intents, view.epoch) = {}
    BY <2>1, <2>2 DEF PagesAsked
  <2> QED BY <2>1, <2>2, <2>3 DEF PagesInv, Intents
<1> DEFINE NoPage == \A n \in Intents : rpc.intents[n].request.op # "raw"
<1>2. RunsInv /\ PagesInv /\ [Next]_vars /\ [CancelReads => NoPage]_vars => PagesInv'
  <2>1. ASSUME RunsInv, PagesInv, Next, CancelReads => NoPage PROVE PagesInv'
    BY <2>1, PagesStep
  <2>2. ASSUME PagesInv, UNCHANGED vars PROVE PagesInv'
    BY <2>2 DEF PagesInv, vars, historyVars, Intents
  <2> QED BY <2>1, <2>2
<1> QED BY <1>1, <1>2, RunsInvariance, PTL DEF Spec, PageReadsNotCancelled

\* The log on the screen is the log of one Run from its beginning, nothing
\* twice and nothing left out, with any number of reads under way
\* (run_log.rs:36).
THEOREM LogAlwaysContiguous == Spec => []LogIsContiguous
<1>1. Init => ShownLogInv
  BY DEF Init, AtRest, ShownLogInv
<1>2. ShownLogInv /\ [Next]_vars => ShownLogInv'
  <2>1. ASSUME ShownLogInv, UNCHANGED vars PROVE ShownLogInv'
    BY <2>1 DEF ShownLogInv, vars
  <2> QED BY <2>1, ShownLogStep
<1>3. ShownLogInv => LogIsContiguous
  BY DEF ShownLogInv, IsLog, LogIsContiguous
<1> QED BY <1>1, <1>2, <1>3, PTL DEF Spec

\* What is put together from many replies has no hole and no repetition: the
\* log that is followed, and the pages to go back to (run_log.rs:36,
\* runs.rs:1045); the pages, unless the reading of one was cancelled.
THEOREM PiecesAlwaysFit == Spec /\ PageReadsNotCancelled => []PiecesFit
<1>1. PagesInv => BackIsThePath
  BY DEF PagesInv, BackIsThePath
<1>2. LogIsContiguous /\ BackIsThePath => PiecesFit
  BY DEF PiecesFit
<1> QED BY <1>1, <1>2, PagesInvariance, LogAlwaysContiguous, PTL

=============================================================================
