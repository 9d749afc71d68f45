----------------------------- MODULE Retention -----------------------------
(***************************************************************************)
(* The files of finished runs and the records that account for them        *)
(* (run.rs, result_store.rs): a log from the start, a result body from the *)
(* end of a run; rotation through the journal of retired runs; pins; and   *)
(* crashes, failing saves and replaced files in between.  The life of a    *)
(* run is in RunRegistry; here it begins and ends in one step each.        *)
(*                                                                         *)
(* An operator named ...Mutant is a plausible defect of the definition     *)
(* after it; no action uses it, the properties are tested against it.      *)
(***************************************************************************)
EXTENDS FiniteSets, Naturals, Sequences

CONSTANTS Runs,
          HistoryLimit,  \* RUN_RECORD_LIMIT
          PinLimit,      \* PINNED_RUN_LIMIT
          MaxSwaps,      \* bound on files replaced from outside
          None

ASSUME LimitsAssumption == HistoryLimit \in Nat /\ PinLimit \in Nat

VARIABLES mem,     \* the registry of the host
          disk,    \* runs.json
          log,     \* the log file of a run: none, own or foreign
          body,    \* whether the result body of a run is stored
          active,  \* the runs that this host started
          finishing, \* those whose outcome is not saved yet
          starting, \* how many starts have a place and wait for the source's state
          work,     \* the request the registry is working on
          up,
          charged, \* files that a record on disk was ever answerable for
          swaps    \* files replaced so far

ownVars == <<active, finishing, starting>>
retentionVars == <<mem, disk, log, body, ownVars, work, up, charged, swaps>>

NoWork == [kind |-> "none", run |-> None, at |-> "none"]
Ledger(runs, retired) == [runs |-> runs, retired |-> retired]
Drop(f, r) == [x \in DOMAIN f \ {r} |-> f[x]]
Retired(ledger) == {ledger.retired[i].run : i \in DOMAIN ledger.retired}
Referenced(ledger) ==
    {<<r, "log">> : r \in DOMAIN ledger.runs} \cup
    {<<r, "body">> : r \in {x \in DOMAIN ledger.runs : ledger.runs[x].body}}

\* A save that fails may have become visible (store.rs write_state).
Save(ledger, ok) ==
    /\ IF ok THEN disk' = ledger ELSE disk' \in {disk, ledger}
    /\ charged' = charged \cup Referenced(disk')

RetentionInit ==
    /\ mem = Ledger(<<>>, <<>>) /\ disk = mem
    /\ log = [r \in Runs |-> "none"] /\ body = [r \in Runs |-> FALSE]
    /\ active = {} /\ finishing = {} /\ starting = 0
    /\ work = NoWork /\ up = TRUE /\ charged = {} /\ swaps = 0
-----------------------------------------------------------------------------
(* One request after the other is served by the run worker. *)
Fresh(r) == r \notin DOMAIN mem.runs /\ r \notin DOMAIN disk.runs /\ <<r, "log">> \notin charged
OrdinaryOf(runs) == {r \in DOMAIN runs : ~runs[r].pinned}
PinnedOf(runs) == DOMAIN runs \ OrdinaryOf(runs)
Ordinary == OrdinaryOf(mem.runs)
Pinned == PinnedOf(mem.runs)
CanRotate(r) == ~mem.runs[r].pinned /\ mem.runs[r].ended /\ r \notin finishing

\* A start asks for a place; it gets its ID there, and uses it at its commit.
AskBegin ==
    /\ up /\ work = NoWork
    /\ work' = [kind |-> "begin", run |-> None, at |-> "clean"]
    /\ UNCHANGED <<mem, disk, log, body, ownVars, up, charged, swaps>>

AskUnpin(r) ==
    /\ up /\ work = NoWork /\ r \in Pinned
    /\ work' = [kind |-> "unpin", run |-> r, at |-> "room"]
    /\ UNCHANGED <<mem, disk, log, body, ownVars, up, charged, swaps>>

\* The host is opened: what is left of an earlier one is read and saved again.
Open ==
    /\ ~up /\ work = NoWork
    /\ mem' = disk /\ Save(disk, TRUE)
    /\ work' = [kind |-> "open", run |-> None, at |-> "clean"]
    /\ UNCHANGED <<log, body, ownVars, up, swaps>>

\* A step fails: the request is refused; a host that cannot open stays down.
Refused == work' = NoWork
-----------------------------------------------------------------------------
(* cleanup_retired: the files of the first retired run, then its entry. *)
First == mem.retired[1]
CleanEnds ==
    /\ work.at = "clean" /\ mem.retired = <<>>
    /\ work' = [work EXCEPT !.at = "room"]
    /\ UNCHANGED <<mem, disk, log, body, ownVars, up, charged, swaps>>

RemoveBody(ok) ==
    /\ work.at = "clean" /\ mem.retired # <<>>
    /\ IF ok THEN /\ body' = IF First.body THEN [body EXCEPT ![First.run] = FALSE] ELSE body
                  /\ work' = [work EXCEPT !.at = "log"]
       ELSE Refused /\ UNCHANGED body
    /\ UNCHANGED <<mem, disk, log, ownVars, up, charged, swaps>>

\* A log that is not the one recorded is preserved, and so is its entry.
RemoveLog(ok) ==
    /\ work.at = "log"
    /\ IF ok /\ log[First.run] # "foreign"
       THEN log' = [log EXCEPT ![First.run] = "none"] /\ work' = [work EXCEPT !.at = "save"]
       ELSE Refused /\ UNCHANGED log
    /\ UNCHANGED <<mem, disk, body, ownVars, up, charged, swaps>>

ForgetRetired(ok) ==
    /\ work.at = "save"
    /\ LET rest == Ledger(mem.runs, Tail(mem.retired))
       IN /\ Save(rest, ok)
          /\ IF ok THEN mem' = rest /\ work' = [work EXCEPT !.at = "clean"]
             ELSE Refused /\ UNCHANGED mem
    /\ UNCHANGED <<log, body, ownVars, up, swaps>>
-----------------------------------------------------------------------------
(* remove_history: the intent is saved before a file is touched. *)
Intent(r) == Append(mem.retired, [run |-> r, body |-> mem.runs[r].body])
\* A start counts those that wait for their commit, an unpin only the records.
Crowded == Cardinality(Ordinary) + (IF work.kind = "begin" THEN starting ELSE 0) >= HistoryLimit

\* Room is made for a new record, or for the one that is unpinned; opening
\* and beginning also drop what is too old.
RetireMutant(r, ok) ==
    /\ work.at = "room" /\ r \in DOMAIN mem.runs /\ CanRotate(r)
    /\ Crowded \/ work.kind \in {"open", "begin"}
    /\ mem' = Ledger(Drop(mem.runs, r), Intent(r))
    /\ work' = [work EXCEPT !.at = "clean"]
    /\ UNCHANGED <<disk, log, body, ownVars, up, charged, swaps>>
Retire(r, ok) ==
    /\ work.at = "room" /\ r \in DOMAIN mem.runs /\ CanRotate(r)
    /\ Crowded \/ work.kind \in {"open", "begin"}
    /\ LET cut == Ledger(Drop(mem.runs, r), Intent(r))
       IN /\ Save(cut, ok)
          /\ IF ok THEN mem' = cut /\ work' = [work EXCEPT !.at = "clean"]
             ELSE Refused /\ UNCHANGED mem
    /\ UNCHANGED <<log, body, ownVars, up, swaps>>

NoRoom ==
    /\ work.at = "room" /\ work.kind # "open" /\ Crowded
    /\ \A r \in DOMAIN mem.runs : ~CanRotate(r)
    /\ Refused
    /\ UNCHANGED <<mem, disk, log, body, ownVars, up, charged, swaps>>

\* open: the host serves.
Opened ==
    /\ work.at = "room" /\ work.kind = "open"
    /\ up' = TRUE /\ work' = NoWork
    /\ UNCHANGED <<mem, disk, log, body, ownVars, charged, swaps>>

\* begin_reserve: the start has its place, and other requests are served until
\* the state of its source is known; it may also be given up.
Reserve ==
    /\ work.at = "room" /\ work.kind = "begin" /\ ~Crowded
    /\ starting' = starting + 1 /\ work' = NoWork
    /\ UNCHANGED <<mem, disk, log, body, active, finishing, up, charged, swaps>>
Abandon ==
    /\ up /\ work = NoWork /\ starting > 0 /\ starting' = starting - 1
    /\ UNCHANGED <<mem, disk, log, body, active, finishing, work, up, charged, swaps>>

\* begin_commit: the log is created, then the record saved; a start that is
\* refused takes its log along.
CreateLog(r) ==
    /\ up /\ work = NoWork /\ starting > 0 /\ Fresh(r) /\ log[r] = "none"
    /\ starting' = starting - 1
    /\ log' = [log EXCEPT ![r] = "own"] /\ work' = [kind |-> "commit", run |-> r, at |-> "commit"]
    /\ UNCHANGED <<mem, disk, body, active, finishing, up, charged, swaps>>

\* persist validates the ledger first: a run that was unpinned meanwhile may
\* have taken the place of this one.
Fits(ledger) ==
    /\ Cardinality(OrdinaryOf(ledger.runs)) <= HistoryLimit
    /\ Cardinality(PinnedOf(ledger.runs)) <= PinLimit
With(r) ==
    Ledger([x \in DOMAIN mem.runs \cup {r} |->
              IF x = r THEN [pinned |-> FALSE, ended |-> FALSE, body |-> FALSE] ELSE mem.runs[x]],
           mem.retired)
Commit(ok) ==
    /\ work.at = "commit" /\ work' = NoWork
    /\ IF Fits(With(work.run)) THEN Save(With(work.run), ok) ELSE ~ok /\ UNCHANGED <<disk, charged>>
    /\ IF ok THEN /\ mem' = With(work.run) /\ active' = active \cup {work.run}
                  /\ UNCHANGED log
       ELSE UNCHANGED <<mem, active>> /\ log' = [log EXCEPT ![work.run] = "none"]
    /\ UNCHANGED <<body, finishing, starting, up, swaps>>

SavePin(r, pinned, ok) ==
    LET with == Ledger([mem.runs EXCEPT ![r].pinned = pinned], mem.retired)
    IN /\ Save(with, ok) /\ mem' = IF ok THEN with ELSE mem
       /\ UNCHANGED <<log, body, ownVars, up, swaps>>
Unpin(ok) ==
    /\ work.at = "room" /\ work.kind = "unpin" /\ ~Crowded
    /\ work' = NoWork /\ SavePin(work.run, FALSE, ok)
\* A result that is missing or changed is not pinned.
Pin(r, ok) ==
    /\ up /\ work = NoWork /\ r \in Ordinary /\ mem.runs[r].ended
    /\ Cardinality(Pinned) < PinLimit /\ (mem.runs[r].body => body[r])
    /\ UNCHANGED work /\ SavePin(r, TRUE, ok)
-----------------------------------------------------------------------------
(* The end of a run: the body is stored, then the outcome saved. *)
Capture(r) ==
    /\ up /\ work = NoWork /\ r \in active \cap DOMAIN mem.runs
    /\ ~mem.runs[r].ended /\ ~body[r]
    /\ body' = [body EXCEPT ![r] = TRUE]
    /\ UNCHANGED <<mem, disk, log, ownVars, work, up, charged, swaps>>

\* The outcome stands in memory, and the host tries to save it until it can.
FinishRun(r, ok) ==
    /\ up /\ work = NoWork /\ r \in active \cap DOMAIN mem.runs
    /\ ~mem.runs[r].ended \/ r \in finishing
    /\ mem' = IF mem.runs[r].ended THEN mem
              ELSE Ledger([mem.runs EXCEPT ![r].ended = TRUE, ![r].body = body[r]], mem.retired)
    /\ Save(mem', ok)
    /\ finishing' = IF ok THEN finishing \ {r} ELSE finishing \cup {r}
    /\ UNCHANGED <<log, body, active, starting, work, up, swaps>>

\* Somebody replaces a log by a file of their own.
ReplaceLog(r) ==
    /\ swaps < MaxSwaps /\ log[r] = "own" /\ work.at # "commit"
    /\ log' = [log EXCEPT ![r] = "foreign"] /\ swaps' = swaps + 1
    /\ UNCHANGED <<mem, disk, body, ownVars, work, up, charged>>

Crash ==
    /\ up \/ work # NoWork
    /\ up' = FALSE /\ work' = NoWork /\ active' = {} /\ finishing' = {} /\ starting' = 0
    /\ mem' = Ledger(<<>>, <<>>)
    /\ UNCHANGED <<disk, log, body, charged, swaps>>
-----------------------------------------------------------------------------
RotationStep ==
    \/ CleanEnds \/ NoRoom \/ Opened \/ Reserve
    \/ \E ok \in BOOLEAN :
         \/ RemoveBody(ok) \/ RemoveLog(ok) \/ ForgetRetired(ok) \/ Commit(ok) \/ Unpin(ok)
         \/ \E r \in Runs : Retire(r, ok)

RetentionNext ==
    \/ RotationStep \/ Open \/ Crash \/ AskBegin \/ Abandon
    \/ \E r \in Runs : AskUnpin(r) \/ CreateLog(r) \/ Capture(r) \/ ReplaceLog(r)
    \/ \E ok \in BOOLEAN, r \in Runs : Pin(r, ok) \/ FinishRun(r, ok)

RetentionSpec == RetentionInit /\ [][RetentionNext]_retentionVars
-----------------------------------------------------------------------------
\* A record on disk finds its log and its result, whatever crashed between the
\* removal of a record and of its files (run.rs remove_history).
RecordsKeepFiles ==
    \A r \in DOMAIN disk.runs :
        disk.runs[r].ended => log[r] # "none" /\ (disk.runs[r].body => body[r])

\* A file that a record ever answered for and that is still there is answered
\* for by a record or by the journal (run.rs cleanup_retired).
NothingForgotten ==
    \A r \in Runs :
        (<<r, "log">> \in charged /\ log[r] # "none") \/ (<<r, "body">> \in charged /\ body[r])
          => r \in DOMAIN disk.runs \cup Retired(disk)

\* The history and the pins keep to their limits, also where a run is unpinned
\* while a start that has its place waits for its commit (run.rs:583, run.rs:1435).
HistoryFits == Fits(disk)

\* A record never points to files that are gone, no file is left that neither a
\* record nor the journal knows, and the ledger can be read again
\* (run.rs:1255-1340, saved_state.rs:150).
RetentionSafety == RecordsKeepFiles /\ NothingForgotten /\ HistoryFits
=============================================================================
