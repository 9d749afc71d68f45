----------------------------- MODULE MCLiveness -----------------------------
(***************************************************************************)
(* What must happen at last, in three parts of the host one beside the     *)
(* other: `part` says which of them moves, and only its fairness counts.   *)
(*   "run"     one start of a task through actor and worker.               *)
(*   "start"   three hosts that two clients start at once.               *)
(*   "session" a terminal's leader and two more pids.                      *)
(***************************************************************************)
EXTENDS RunHost, HostStart, ChildInventory

CONSTANTS j1, r1, o1, build

MCJobOperation == [j \in Jobs |-> o1]
MCJobRun == [j \in Jobs |-> r1]
MCJobTask == [j \in Jobs |-> build]
MCSourceOf == [t \in Tasks |-> NoSource]

VARIABLE part

partVars == <<part, runHostVars, startVars, inventoryVars>>

PartInit ==
  /\ part \in {"run", "start", "session"}
  /\ RunHostInit /\ StartInit /\ InventoryInit

PartNext ==
  /\ \/ part = "run" /\ RunHostNext /\ UNCHANGED <<startVars, inventoryVars>>
     \/ part = "start" /\ RaceNext /\ UNCHANGED <<runHostVars, inventoryVars>>
     \/ part = "session" /\ CompleteScans /\ UNCHANGED <<runHostVars, startVars>>
  /\ UNCHANGED part

PartSpec ==
  /\ PartInit /\ [][PartNext]_partVars
  /\ \/ part = "run" /\ RunFairness
     \/ part = "start" /\ StartFairness
     \/ part = "session" /\ InventoryFairness
=============================================================================
