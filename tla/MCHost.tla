------------------------------- MODULE MCHost -------------------------------
(***************************************************************************)
(* Parts of the host that share no state, explored one beside the other in *)
(* one run: `part` says which of them moves.                               *)
(*   "cache"   a client with two contents under one request ID and another *)
(*             mutation; a second client competes for a place.             *)
(*   "start"   host processes of two versions and clients, at once.        *)
(*   "reopen"  two terminals, the default-open batch, closing, restarts.   *)
(*   "input"   one terminal that two clients take over from each other.    *)
(*   "session" a terminal's leader and three more pids.                    *)
(***************************************************************************)
EXTENDS RequestCache, HostStart, Terminals, ChildInventory, TLC

CONSTANTS c1, c2, e1, e2, e3, t1, t2, v1, v2

MCClients == {c1, c2}
MCEnvelopes == {e1, e2, e3}
MCClientOf == [e \in MCEnvelopes |-> c1]
MCKey == [e \in MCEnvelopes |-> IF e = e2 THEN e1 ELSE e]
TwoTerminals == <<t1, t2>>

VARIABLE part

OneTerminal == <<t1>>
TwoViewers == {v1, v2}
ViewerSymmetry == Permutations({v1, v2})
Owned == INSTANCE Terminals WITH
           Keys <- OneTerminal, Viewers <- TwoViewers, MaxSessions <- 1, MaxEpoch <- 3

cacheVars == vars
hostState == <<part, cacheVars, startVars, terminalVars, inventoryVars>>

HostInit ==
  /\ part \in {"cache", "start", "reopen", "input", "session"}
  /\ Init /\ StartInit /\ InventoryInit
  /\ IF part = "input" THEN Owned!TerminalsInit ELSE TerminalsInit

HostNext ==
  /\ \/ /\ part = "cache" /\ Next
        /\ UNCHANGED <<startVars, terminalVars, inventoryVars>>
     \/ /\ part = "start" /\ StartNext
        /\ UNCHANGED <<cacheVars, terminalVars, inventoryVars>>
     \/ /\ part = "reopen" /\ TerminalsNext
        /\ UNCHANGED <<cacheVars, startVars, inventoryVars>>
     \/ /\ part = "input" /\ Owned!TerminalsNext
        /\ UNCHANGED <<cacheVars, startVars, inventoryVars>>
     \/ /\ part = "session" /\ InventoryNext
        /\ UNCHANGED <<cacheVars, startVars, terminalVars>>
  /\ UNCHANGED part

HostSpec == HostInit /\ [][HostNext]_hostState

\* Nothing is taken away that belongs to a living other: no process outside
\* the terminal is signalled, and no host's socket is removed while it listens
\* (actor.rs:1360, host.rs remove_stale_socket).
NothingForeignTaken == OnlyOwnProcesses /\ EndpointPreserved
=============================================================================
