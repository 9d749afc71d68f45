--------------------------- MODULE ChildInventory ---------------------------
(***************************************************************************)
(* How the host ends the process session of one terminal: the leader, kept *)
(* unreaped as the anchor of its session ID (terminal.rs), the inventory   *)
(* of its descendants, which reads /proc while the processes go on         *)
(* (host/children.rs), and the actor that reaps and signals what was found *)
(* (host/actor.rs poll_child_inventory).  The process table is the         *)
(* kernel's: pids are reused, orphans are adopted by the host.             *)
(*                                                                         *)
(* An operator named ...Mutant is a plausible defect of the definition     *)
(* after it; no action uses it, the properties are tested against it.      *)
(***************************************************************************)
EXTENDS FiniteSets, Naturals

CONSTANTS MaxPid,      \* pids are 1..MaxPid, the leader is 1
          MaxForks,    \* bound on the processes that come to life
          LateDetach,  \* may a process leave its session after it forked?
          Host, InitProcess   \* the parents that are not in 1..MaxPid

VARIABLES st, parent, sess, own, bred, forks, \* the process table; bred have forked
          exited, request, done, reaped, signals,  \* the actor's slot
          phase, frontier, visited, found,        \* the scan
          todo, target                        \* the report in the actor's hands

tableVars == <<st, parent, sess, own, bred, forks>>
slotVars == <<exited, request, done, reaped, signals>>
scanVars == <<phase, frontier, visited, found>>
reportVars == <<todo, target>>
inventoryVars == <<tableVars, slotVars, scanVars, reportVars>>

Pids == 1..MaxPid
Leader == 1
NoPid == 0
Session == "ours"

ASSUME InventoryAssumption ==
    /\ MaxPid \in Nat \ {0} /\ MaxForks \in Nat
    /\ Host \notin Pids /\ InitProcess \notin Pids /\ Host # InitProcess

InventoryTypeOK ==
    /\ st \in [Pids -> {"free", "alive", "zombie"}]
    /\ parent \in [Pids -> Pids \cup {Host, InitProcess}]
    /\ sess \in [Pids -> {Session, "other"}]
    /\ own \in [Pids -> BOOLEAN] /\ bred \subseteq Pids /\ forks \in 0..MaxForks
    /\ exited \in BOOLEAN /\ done \in BOOLEAN /\ reaped \in BOOLEAN
    /\ request \in {"none", "soft", "force"}
    /\ signals \in [Pids -> {"none", "soft", "force"}]
    /\ phase \in {"idle", "anchored", "narrow", "full", "reported", "failed"}
    /\ frontier \subseteq Pids /\ visited \subseteq Pids /\ found \subseteq Pids \X (Pids \cup {Host, InitProcess})
    /\ todo \subseteq Pids /\ target \in Pids \cup {NoPid}

InventoryInit ==
    /\ st = [p \in Pids |-> IF p = Leader THEN "alive" ELSE "free"]
    /\ parent = [p \in Pids |-> IF p = Leader THEN Host ELSE InitProcess]
    /\ sess = [p \in Pids |-> IF p = Leader THEN Session ELSE "other"]
    /\ own = [p \in Pids |-> p = Leader]
    /\ bred = {} /\ forks = 0
    /\ exited = FALSE /\ request = "none" /\ done = FALSE /\ reaped = FALSE
    /\ signals = [p \in Pids |-> "none"]
    /\ phase = "idle" /\ frontier = {} /\ visited = {} /\ found = {}
    /\ todo = {} /\ target = NoPid
-----------------------------------------------------------------------------
(* The kernel and the programs. *)
Alive(p) == st[p] = "alive"
Children(p) == {c \in Pids : st[c] # "free" /\ parent[c] = p}
Occupies(p) == p # Leader /\ st[p] # "free" /\ sess[p] = Session

Born(q, p, s, ours) ==
    /\ st[q] = "free" /\ forks < MaxForks
    /\ st' = [st EXCEPT ![q] = "alive"]
    /\ parent' = [parent EXCEPT ![q] = p]
    /\ sess' = [sess EXCEPT ![q] = s]
    /\ own' = [own EXCEPT ![q] = ours]
    /\ bred' = (bred \cup {p}) \cap (Pids \ {q})
    /\ forks' = forks + 1
    /\ UNCHANGED <<slotVars, scanVars, reportVars>>

Fork(p, q) == Alive(p) /\ own[p] /\ Born(q, p, sess[p], own[p])
\* A process that has nothing to do with the terminal takes a free pid.
Stranger(q) == Born(q, InitProcess, "other", FALSE)

\* setsid
Detach(p) ==
    /\ Alive(p) /\ p # Leader /\ sess[p] = Session
    /\ LateDetach \/ p \notin bred
    /\ sess' = [sess EXCEPT ![p] = "other"]
    /\ UNCHANGED <<st, parent, own, bred, forks, slotVars, scanVars, reportVars>>

\* An exit leaves a zombie; the host, a subreaper, adopts the children.
Dies(p) ==
    /\ st' = [st EXCEPT ![p] = "zombie"]
    /\ parent' = [c \in Pids |-> IF parent[c] = p THEN Host ELSE parent[c]]

Exit(p) ==
    /\ Alive(p) /\ Dies(p)
    /\ UNCHANGED <<sess, own, bred, forks, slotVars, scanVars, reportVars>>

Freed(p) == st' = [st EXCEPT ![p] = "free"]

\* enable_subreaper: the host starts only if the zombies of its children stay.
AutoReapedMutant(p) == parent[p] \in {InitProcess, Host}
AutoReaped(p) == parent[p] = InitProcess

ReapedByParent(p) ==
    /\ st[p] = "zombie"
    /\ \/ AutoReaped(p)
       \/ parent[p] \in Pids /\ Alive(parent[p])
    /\ Freed(p)
    /\ UNCHANGED <<parent, sess, own, bred, forks, slotVars, scanVars, reportVars>>
-----------------------------------------------------------------------------
(* The leader, which the actor signals alone. *)
\* SIGHUP and SIGTERM may be ignored, SIGKILL may not.
Struck(p, kind) ==
    \/ kind = "soft" /\ UNCHANGED <<st, parent>>
    \/ Alive(p) /\ Dies(p)
    \/ st[p] = "zombie" /\ UNCHANGED <<st, parent>>

Forced(kind) == IF request = "force" THEN "force" ELSE kind

\* request_close and request_host_close; also the grace of two seconds after
\* which a SIGTERM close is forced.
RequestClose(kind) ==
    /\ ~reaped /\ request # "force" /\ kind # request
    /\ request' = Forced(kind)
    /\ IF exited THEN UNCHANGED <<st, parent>> ELSE Struck(Leader, Forced(kind))
    /\ UNCHANGED <<sess, own, bred, forks, exited, done, reaped, signals, scanVars, reportVars>>

\* observe_exit looks without reaping.
ObserveLeaderExit ==
    /\ ~exited /\ st[Leader] = "zombie"
    /\ exited' = TRUE
    /\ UNCHANGED <<tableVars, request, done, reaped, signals, scanVars, reportVars>>
-----------------------------------------------------------------------------
(* The scan, in a thread of its own. *)
\* schedule_child_inventory: one scan at a time, and its report is taken
\* before the next.
Schedule ==
    /\ exited /\ ~done /\ phase = "idle" /\ todo = {} /\ target = NoPid
    /\ phase' = "anchored" /\ frontier' = Children(Leader) /\ visited' = Children(Leader) /\ found' = {}
    /\ UNCHANGED <<tableVars, slotVars, reportVars>>

ReadHost ==
    /\ phase = "anchored" /\ phase' = "narrow"
    /\ frontier' = frontier \cup Children(Host) /\ visited' = visited \cup Children(Host)
    /\ UNCHANGED <<found, tableVars, slotVars, reportVars>>

\* One step of the walk: the status of the process, then its children.  A
\* process that is gone is skipped.
Counted(p) == IF Occupies(p) THEN {<<p, parent[p]>>} ELSE {}

Visit(p) ==
    /\ phase = "narrow" /\ p \in frontier
    /\ LET fresh == IF st[p] = "free" THEN {} ELSE Children(p) \ visited
       IN /\ frontier' = (frontier \ {p}) \cup fresh
          /\ visited' = visited \cup fresh
    /\ found' = found \cup Counted(p)
    /\ UNCHANGED <<phase, tableVars, slotVars, reportVars>>

Walked ==
    /\ phase = "narrow" /\ frontier = {} /\ phase' = "reported"
    /\ UNCHANGED <<frontier, visited, found, tableVars, slotVars, reportVars>>

\* A read error or a limit: everything is thrown away for a scan of all pids.
FallBack ==
    /\ phase \in {"anchored", "narrow"} /\ phase' = "full"
    /\ frontier' = Pids /\ visited' = {} /\ found' = {}
    /\ UNCHANGED <<tableVars, slotVars, reportVars>>

VisitEntry ==
    /\ phase = "full" /\ frontier # {}
    /\ LET p == CHOOSE x \in frontier : \A y \in frontier : x <= y
       IN /\ frontier' = frontier \ {p}
          /\ found' = found \cup Counted(p)
    /\ UNCHANGED <<phase, visited, tableVars, slotVars, reportVars>>

ScannedAll ==
    /\ phase = "full" /\ frontier = {} /\ phase' = "reported"
    /\ UNCHANGED <<frontier, visited, found, tableVars, slotVars, reportVars>>

\* The full scan reaches a limit too: the report is incomplete.
Abandon ==
    /\ phase = "full" /\ phase' = "failed"
    /\ UNCHANGED <<frontier, visited, found, tableVars, slotVars, reportVars>>
-----------------------------------------------------------------------------
(* The actor with a report. *)
\* Nested processes are counted and left alone.
TakeReport ==
    /\ phase \in {"reported", "failed"} /\ phase' = "idle"
    /\ todo' = {e[1] : e \in {x \in found : x[2] = Host}}
    /\ done' = (phase = "reported" /\ found = {})
    /\ UNCHANGED <<frontier, visited, found, target, tableVars, exited, request, reaped, signals>>

\* verify_child: a child of the host that is still in the session.
IsOurs(p) == st[p] # "free" /\ parent[p] = Host /\ sess[p] = Session

VerifyFails(p) ==
    /\ target = NoPid /\ p \in todo /\ ~IsOurs(p)
    /\ todo' = todo \ {p}
    /\ UNCHANGED <<target, tableVars, slotVars, scanVars>>

ForgetMutant(p) == signals
Forget(p) == [signals EXCEPT ![p] = "none"]

ReapChildMutant(p) ==
    /\ target = NoPid /\ p \in todo /\ IsOurs(p) /\ st[p] = "zombie"
    /\ Freed(p) /\ signals' = Forget(p)
    /\ todo' = todo \ {p}
    /\ done' = (todo = {p})
    /\ UNCHANGED <<parent, sess, own, bred, forks, target, exited, request, reaped, scanVars>>
ReapChild(p) ==
    /\ target = NoPid /\ p \in todo /\ IsOurs(p) /\ st[p] = "zombie"
    /\ Freed(p) /\ signals' = Forget(p)
    /\ todo' = todo \ {p}
    /\ UNCHANGED <<parent, sess, own, bred, forks, target, exited, request, done, reaped, scanVars>>

\* A running child is a target once per kind of close.
Verify(p) ==
    /\ target = NoPid /\ p \in todo /\ IsOurs(p) /\ Alive(p)
    /\ todo' = todo \ {p}
    /\ target' = IF request # "none" /\ signals[p] # request THEN p ELSE NoPid
    /\ UNCHANGED <<tableVars, slotVars, scanVars>>

Signal ==
    /\ target # NoPid /\ target' = NoPid
    /\ signals' = [signals EXCEPT ![target] = request]
    /\ Struck(target, request)
    /\ UNCHANGED <<sess, own, bred, forks, todo, exited, request, done, reaped, scanVars>>

\* reap_exit gives the session ID back.
Finish ==
    /\ exited /\ ~reaped /\ done
    /\ reaped' = TRUE /\ Freed(Leader)
    /\ UNCHANGED <<parent, sess, own, bred, forks, exited, request, done, signals, scanVars, reportVars>>
-----------------------------------------------------------------------------
WalkStep ==
    Schedule \/ ReadHost \/ Walked \/ VisitEntry \/ ScannedAll \/ \E p \in Pids : Visit(p)
ActorStep ==
    \/ ObserveLeaderExit \/ TakeReport \/ Signal \/ Finish
    \/ \E p \in Pids : VerifyFails(p) \/ ReapChild(p) \/ Verify(p)

CompleteScans ==
    \/ \E p, q \in Pids : Fork(p, q)
    \/ \E p \in Pids : Stranger(p) \/ Detach(p) \/ Exit(p) \/ ReapedByParent(p)
    \/ RequestClose("soft") \/ RequestClose("force")
    \/ WalkStep \/ FallBack \/ ActorStep
InventoryNext == CompleteScans \/ Abandon

InventorySpec == InventoryInit /\ [][InventoryNext]_inventoryVars

\* The scan thread, the actor and parents that wait run on; no scan of all
\* pids reaches its limit.
InventoryFairness ==
    /\ WF_inventoryVars(WalkStep) /\ WF_inventoryVars(ActorStep)
    /\ WF_inventoryVars(\E p \in Pids : ReapedByParent(p))
InventoryFairSpec ==
    InventoryInit /\ [][CompleteScans]_inventoryVars /\ InventoryFairness
-----------------------------------------------------------------------------
\* An inventory that confirms the end of a session is right: no process of
\* the session is left, and none before the leader's pid, the session ID, is
\* given back (children.rs:90-93, actor.rs:1405-1407).
EmptySession == done \/ reaped => \A p \in Pids : ~Occupies(p)

\* A signal or a reap hits only a process that was born into this terminal,
\* whatever pids are reused between the scan and the signal
\* (children.rs:258-259).
OnlyOwnProcesses ==
    [][signals' # signals =>
         \A p \in Pids : signals'[p] \notin {"none", signals[p]} => own[p]]_inventoryVars

\* A forced close ends the terminal, however its processes nest and whatever
\* pids they take.
ForcedCloseEnds == request = "force" ~> reaped
=============================================================================
