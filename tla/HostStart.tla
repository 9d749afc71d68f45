----------------------------- MODULE HostStart -----------------------------
(***************************************************************************)
(* How a user host comes to life and ends (host.rs serve, serve_owned) and *)
(* how clients find or start it (client.rs ensure_host): the files         *)
(* host-owner.lock and host.lock, the socket, host-exit.json, an older     *)
(* host that only knows host.lock, and root reconnection that shares it.   *)
(*                                                                         *)
(* A process binds at most one socket, so the socket file is named by the  *)
(* process that bound it.  The metadata check and the unlink of one        *)
(* removal are one step.                                                   *)
(*                                                                         *)
(* An operator named ...Mutant is a plausible defect of the definition     *)
(* after it; no action uses it, the properties are tested against it.      *)
(***************************************************************************)
EXTENDS FiniteSets, Naturals

CONSTANTS Hosts,    \* host processes of this binary
          Legacy,   \* host processes of an older binary
          Launchers,  \* client processes, each with one call of ensure_host
          Root,     \* the process that reconnects a root
          Foreign,  \* a file at the socket's path that is not a socket
          Nobody

\* They are different things.
ASSUME StartAssumption ==
    /\ Hosts \cap Legacy = {}
    /\ {Root, Foreign, Nobody} \cap (Hosts \cup Legacy) = {}
    /\ Root # Foreign /\ Root # Nobody /\ Foreign # Nobody

VARIABLES pc,         \* where a host process is
          owner,      \* the holder of host-owner.lock
          exclusive,  \* the exclusive holder of host.lock
          shared,     \* the shared holders of host.lock
          path,       \* what is at the socket's path
          listening,  \* the processes whose socket is open
          private,    \* the sockets with mode 0600
          looked,       \* the metadata a starting host observed
          record,     \* host-exit.json
          client,     \* where the call of each client is
          noted       \* history: the hosts at work whose record_running was written

startVars == <<pc, owner, exclusive, shared, path, listening, private, looked, record, client, noted>>
noteVars == <<record, noted>>
lockVars == <<owner, exclusive, shared>>
socketVars == <<path, listening, private>>

Processes == Hosts \cup Legacy
Stages == {"unborn", "spawned", "owner", "exclusive", "converting", "shared", "opened",
           "looked", "stale", "clear", "bound", "serving", "stopping", "unlinked", "gone"}
\* From Actor::new on a host reads and writes the durable ledgers.
Working == {"opened", "looked", "stale", "clear", "bound", "serving", "stopping", "unlinked"}
Clear == [host |-> Nobody, running |-> FALSE]

StartTypeOK ==
    /\ pc \in [Processes -> Stages]
    /\ owner \in Hosts \cup {Nobody}
    /\ exclusive \in Processes \cup {Nobody}
    /\ shared \subseteq Hosts \cup {Root}
    /\ path \in Processes \cup {Foreign, Nobody}
    /\ listening \subseteq Processes /\ private \subseteq Processes
    /\ looked \in [Hosts -> Processes \cup {Foreign, Nobody}]
    /\ record \in [host : Hosts \cup {Nobody}, running : BOOLEAN]
    /\ client \in [Launchers -> {"new", "waiting", "connected", "failed"}]
    /\ noted \subseteq Hosts

StartInit ==
    /\ pc = [p \in Processes |-> "unborn"]
    /\ owner = Nobody /\ exclusive = Nobody /\ shared = {}
    /\ path = Nobody /\ listening = {} /\ private = {}
    /\ looked = [h \in Hosts |-> Nobody]
    /\ record = Clear /\ noted = {}
    /\ client = [c \in Launchers |-> "new"]
-----------------------------------------------------------------------------
\* A process that ends gives its locks and its listener back; its socket
\* file stays, with nobody behind it.
Ends(h) ==
    /\ pc' = [pc EXCEPT ![h] = "gone"]
    /\ owner' = IF owner = h THEN Nobody ELSE owner
    /\ exclusive' = IF exclusive = h THEN Nobody ELSE exclusive
    /\ shared' = shared \ {h}
    /\ listening' = listening \ {h}

Goes(h, stage) == pc' = [pc EXCEPT ![h] = stage]

\* Both locks are tried without waiting; a start that loses one ends before
\* it has an identity to record.
TakeOwner(h) ==
    /\ pc[h] = "spawned"
    /\ \/ /\ owner = Nobody
          /\ owner' = h /\ Goes(h, "owner")
          /\ UNCHANGED <<exclusive, shared, listening>>
       \/ owner # Nobody /\ Ends(h)
    /\ UNCHANGED <<path, private, looked, noteVars, client>>

TakeLifetime(h) ==
    /\ pc[h] = "owner"
    /\ \/ /\ exclusive = Nobody /\ shared = {}
          /\ exclusive' = h /\ Goes(h, "exclusive")
          /\ UNCHANGED <<owner, shared, listening>>
       \/ /\ exclusive # Nobody \/ shared # {}
          /\ Ends(h)
    /\ UNCHANGED <<path, private, looked, noteVars, client>>

\* flock converts a lock in two steps: the old one goes first.
DowngradeDrops(h) ==
    /\ pc[h] = "exclusive"
    /\ exclusive' = Nobody /\ Goes(h, "converting")
    /\ UNCHANGED <<owner, shared, socketVars, looked, noteVars, client>>

DowngradeSharesMutant(h) ==
    /\ pc[h] = "converting"
    /\ shared' = shared \cup {h} /\ Goes(h, "shared")
    /\ UNCHANGED <<owner, exclusive, socketVars, looked, noteVars, client>>
DowngradeShares(h) ==
    /\ pc[h] = "converting"
    /\ \/ /\ exclusive = Nobody
          /\ shared' = shared \cup {h} /\ Goes(h, "shared")
          /\ UNCHANGED <<owner, exclusive, listening>>
       \/ exclusive # Nobody /\ Ends(h)
    /\ UNCHANGED <<path, private, looked, noteVars, client>>
-----------------------------------------------------------------------------
\* serve_owned.  From here on serve records how the host ended, under its
\* locks.  Nobody learns of a note that could not be written: host-exit.json
\* then says what it said before.
NoteExit(h) ==
    /\ record' \in {record, [host |-> h, running |-> FALSE]}
    /\ noted' = noted \ {h}

FailStart(h) ==
    /\ Ends(h) /\ NoteExit(h)
    /\ UNCHANGED <<path, private, looked, client>>

\* Actor::new opens and validates the durable ledgers.
OpenLedgers(h, ok) ==
    /\ pc[h] = "shared"
    /\ IF ok
       THEN Goes(h, "opened") /\ UNCHANGED <<lockVars, socketVars, looked, noteVars, client>>
       ELSE FailStart(h)

\* The socket's path is looked up; only an owned socket is considered.
LookUp(h) ==
    /\ pc[h] = "opened"
    /\ \/ path = Foreign /\ FailStart(h)
       \/ /\ path # Foreign
          /\ looked' = [looked EXCEPT ![h] = path]
          /\ Goes(h, IF path = Nobody THEN "clear" ELSE "looked")
          /\ UNCHANGED <<lockVars, socketVars, noteVars, client>>

\* A refused connection proves that nobody listens; a host that answers, or
\* any other error, ends the start.
Probe(h) ==
    /\ pc[h] = "looked"
    /\ \/ /\ path \in Processes \ listening
          /\ Goes(h, "stale")
          /\ UNCHANGED <<lockVars, socketVars, looked, noteVars, client>>
       \/ path \notin Processes \ listening /\ FailStart(h)

\* remove_stale_socket: only the very file that was observed goes.
RemoveStale(h) ==
    /\ pc[h] = "stale"
    /\ \/ /\ path = looked[h]
          /\ path' = Nobody /\ Goes(h, "clear")
          /\ UNCHANGED <<lockVars, listening, private, looked, noteVars, client>>
       \/ path # looked[h] /\ FailStart(h)

\* bind also listens; the path must be free.
BindEndpoint(h) ==
    /\ pc[h] = "clear"
    /\ \/ /\ path = Nobody
          /\ path' = h /\ listening' = listening \cup {h} /\ Goes(h, "bound")
          /\ UNCHANGED <<lockVars, private, looked, noteVars, client>>
       \/ path # Nobody /\ FailStart(h)

\* The mode is narrowed and the host recorded as running (record_running),
\* if that can be written.
NoteRunning(h) ==
    \/ UNCHANGED noteVars
    \/ record' = [host |-> h, running |-> TRUE] /\ noted' = noted \cup {h}

PublishMutant(h) ==
    /\ pc[h] = "bound"
    /\ NoteRunning(h)
    /\ Goes(h, "serving")
    /\ UNCHANGED <<lockVars, socketVars, looked, client>>
Publish(h) ==
    /\ pc[h] = "bound"
    /\ private' = private \cup {h}
    /\ NoteRunning(h)
    /\ Goes(h, "serving")
    /\ UNCHANGED <<lockVars, path, listening, looked, client>>

\* The loop ends: shutdown, no IPC worker left, an accept error, a panic; or
\* the mode of the socket cannot be narrowed.
EndLoop(h) ==
    /\ pc[h] \in {"bound", "serving"} /\ Goes(h, "stopping")
    /\ UNCHANGED <<lockVars, socketVars, looked, noteVars, client>>

\* SocketGuard::drop runs before the listener closes.
DropGuard(h) ==
    /\ pc[h] = "stopping" /\ Goes(h, "unlinked")
    /\ path' = IF path = h THEN Nobody ELSE path
    /\ UNCHANGED <<lockVars, listening, private, looked, noteVars, client>>

\* record_exit, and the locks with the return of serve.
ExitHost(h) ==
    /\ pc[h] = "unlinked" /\ Ends(h) /\ NoteExit(h)
    /\ UNCHANGED <<path, private, looked, client>>

CrashStart(h) ==
    /\ pc[h] \notin {"unborn", "gone"} /\ Ends(h)
    /\ noted' = noted \ {h}
    /\ UNCHANGED <<path, private, looked, record, client>>
-----------------------------------------------------------------------------
\* An older host: it holds host.lock exclusively for its whole life and
\* serves at the same path.
LegacyStart(l) ==
    /\ pc[l] = "unborn" /\ exclusive = Nobody /\ shared = {}
    /\ path = Nobody \/ path \in Processes \ listening
    /\ exclusive' = l /\ path' = l
    /\ listening' = listening \cup {l} /\ private' = private \cup {l}
    /\ Goes(l, "serving")
    /\ UNCHANGED <<owner, shared, looked, noteVars, client>>

LegacyEnd(l) ==
    /\ pc[l] = "serving" /\ Ends(l)
    /\ UNCHANGED <<path, private, looked, noteVars, client>>

\* project.rs rebind_root holds host.lock shared while it works.
ReconnectBegins ==
    /\ Root \notin shared /\ exclusive = Nobody
    /\ shared' = shared \cup {Root}
    /\ UNCHANGED <<pc, owner, exclusive, socketVars, looked, noteVars, client>>

ReconnectEnds ==
    /\ Root \in shared
    /\ shared' = shared \ {Root}
    /\ UNCHANGED <<pc, owner, exclusive, socketVars, looked, noteVars, client>>

\* Something else puts a file where a dead socket was.
ForeignFile ==
    /\ path \in Processes \ listening
    /\ path' = Foreign
    /\ UNCHANGED <<pc, lockVars, listening, private, looked, noteVars, client>>
-----------------------------------------------------------------------------
\* One connect_expected: exchange looks at the socket file, connects and
\* waits for the handshake.
EndpointMissing == path = Nobody \/ path \in Processes \ listening
EndpointServes == path \in Hosts /\ pc[path] = "serving" /\ path \in private
\* Not a private socket, an older host, or one that no longer answers.
EndpointRefuses == ~EndpointMissing /\ ~EndpointServes

Tried(c, answer) ==
    /\ client' = [client EXCEPT ![c] = answer]
    /\ UNCHANGED <<pc, lockVars, socketVars, looked, noteVars>>

FirstTry(c) ==
    /\ client[c] = "new"
    /\ \/ EndpointServes /\ Tried(c, "connected")
       \/ EndpointRefuses /\ Tried(c, "failed")

\* Nobody is there: one host process is started, once.
SpawnHost(c, h) ==
    /\ client[c] = "new" /\ EndpointMissing /\ pc[h] = "unborn"
    /\ client' = [client EXCEPT ![c] = "waiting"]
    /\ Goes(h, "spawned")
    /\ UNCHANGED <<lockVars, socketVars, looked, noteVars>>

Retry(c) ==
    /\ client[c] = "waiting"
    /\ \/ EndpointServes /\ Tried(c, "connected")
       \/ EndpointRefuses /\ Tried(c, "failed")

\* Five seconds without a host.
GiveUp(c) ==
    /\ client[c] = "waiting" /\ EndpointMissing
    /\ Tried(c, "failed")
-----------------------------------------------------------------------------
ServerStep(h) ==
    \/ TakeOwner(h) \/ TakeLifetime(h) \/ DowngradeDrops(h) \/ DowngradeShares(h)
    \/ OpenLedgers(h, TRUE) \/ LookUp(h) \/ Probe(h) \/ RemoveStale(h)
    \/ BindEndpoint(h) \/ Publish(h) \/ DropGuard(h) \/ ExitHost(h)

LauncherStep(c) == FirstTry(c) \/ Retry(c) \/ \E h \in Hosts : SpawnHost(c, h)

\* Launchers that start hosts at once; no process fails and nothing stops.
RaceNext == (\E h \in Hosts : ServerStep(h)) \/ (\E c \in Launchers : LauncherStep(c))

StartNext ==
    \/ RaceNext
    \/ \E h \in Hosts : OpenLedgers(h, FALSE) \/ EndLoop(h) \/ CrashStart(h)
    \/ \E l \in Legacy : LegacyStart(l) \/ LegacyEnd(l)
    \/ \E c \in Launchers : GiveUp(c)
    \/ ReconnectBegins \/ ReconnectEnds \/ ForeignFile

StartSpec == StartInit /\ [][StartNext]_startVars

\* A host process runs to its accept loop or its end, a client keeps trying.
StartFairness ==
    /\ \A h \in Hosts : WF_startVars(ServerStep(h))
    /\ \A c \in Launchers : WF_startVars(LauncherStep(c))
RaceSpec == StartInit /\ [][RaceNext]_startVars /\ StartFairness
-----------------------------------------------------------------------------
\* Two hosts never work on the durable ledgers at once, an older host
\* included, whatever the conversion of host.lock lets through; and the
\* endpoint clients reach is that of the host at work (host.rs:66-77).
OneHostWorks ==
    /\ \A p, q \in Processes : pc[p] \in Working /\ pc[q] \in Working => p = q
    /\ \A p \in Processes : pc[p] = "serving" => path = p

\* The endpoint of a live process and a file that is no socket stay where
\* they are: only a socket nobody listens on is replaced, and a host takes
\* its own away (host.rs remove_stale_socket, SocketGuard).
EndpointPreserved ==
    [][path' # path /\ path # Nobody =>
         \/ path \in Processes \ listening
         \/ path \in Hosts /\ pc[path] = "stopping" /\ path' = Nobody]_startVars

\* host-exit.json never speaks of another host over the one that wrote there
\* that it is running, for as long as that one works, and what it says is true:
\* a host it calls running has got as far as to serve, and one whose exit it
\* tells of has ended.  A note that could not be written (host.rs:135, :146)
\* leaves the one before it.
RecordNamesHost ==
    /\ \A h \in noted : record = [host |-> h, running |-> TRUE]
    /\ record.running => pc[record.host] \in {"serving", "stopping", "unlinked", "gone"}
    /\ record # Clear /\ ~record.running => pc[record.host] = "gone"

\* Launchers that find no host and start some at once end up with a host that
\* serves (client.rs:158-209).
HostComesUp ==
    (\E c \in Launchers : client[c] = "waiting") ~> (\E h \in Hosts : EndpointServes)

\* What the comment at client.rs:204 counts on: a client that races with a
\* host that starts gets that host.
RacingClientsConnect == \A c \in Launchers : client[c] # "failed"

\* docs/ARCHITECTURE.md:73-74: a root reconnection that holds host.lock
\* shared keeps a new host from starting.
ReconnectBlocksStart ==
    [][\A h \in Hosts : pc[h] = "shared" /\ pc'[h] = "opened" => Root \notin shared]_startVars

\* However hosts and launchers race, one host serves, and
\* host-exit.json speaks of the host it names (host.rs:79-188).
StartSafety == OneHostWorks /\ RecordNamesHost
=============================================================================
