----------------------------- MODULE HostProofs -----------------------------
(***************************************************************************)
(* What a host promises whatever it runs: each mutation once however often *)
(* a client retries it (RequestCache), one host that works, whichever      *)
(* processes start and end (HostStart), a terminal that is over only when  *)
(* its session is empty (ChildInventory), and input that reaches only the  *)
(* terminal its sender is attached to (Terminals).                         *)
(***************************************************************************)
EXTENDS MCHost, TLAPS

-----------------------------------------------------------------------------
(***************************************************************************)
(* The retry cache for every number of clients, envelopes and hosts.  The  *)
(* types, OnlyAddressedHost and CacheCoversRetry are inductive together:   *)
(* an envelope that names no host yet cannot have been executed, which is  *)
(* why making it disturbs no cached answer, and a new host has executed    *)
(* nothing.  OnceWhileLive follows, since a mutation is executed only when *)
(* its key is not cached.                                                  *)
(***************************************************************************)

CacheInv == CacheTypeOK /\ OnlyAddressedHost /\ CacheCoversRetry

\* The initial state satisfies the invariant.
LEMMA CacheInit == Init => CacheInv
  BY CacheAssumption
  DEF Init, CacheInv, CacheTypeOK, OnlyAddressedHost, CacheCoversRetry,
      Times, Unseen, NoHost

\* A refreshed table of clients has its type (clients in host/actor.rs).
LEMMA RefreshedType ==
  ASSUME CacheTypeOK, NEW table, NEW c \in Clients
  PROVE  Refreshed(table, c) \in [Clients -> Times \cup {Unseen}]
  BY DEF Refreshed, CacheTypeOK

\* A purge keeps the cache a map by key that holds mutations (cache.retain).
LEMMA RetainedType ==
  ASSUME CacheTypeOK
  PROVE  /\ Retained \in SUBSET Mutating
         /\ \A e, f \in Retained : Key[e] = Key[f] => e = f
         /\ instance = NoHost => Retained = {}
  BY DEF CacheTypeOK, Retained

\* Every step keeps the invariant.
LEMMA CacheStep == CacheInv /\ [Next]_vars => CacheInv'
<1> SUFFICES ASSUME CacheInv, [Next]_vars
             PROVE  CacheInv'
  OBVIOUS
<1> USE CacheAssumption DEF CacheInv
<1>1. ASSUME NEW c \in Clients, Hello(c)
      PROVE  CacheInv'
  <2>1. seen' \in [Clients -> Times \cup {Unseen}]
    BY <1>1, RefreshedType DEF Hello
  <2>2. view' \in [Clients -> 0..started]
    BY <1>1 DEF Hello, CacheTypeOK
  <2>3. CacheTypeOK'
    BY <1>1, <2>1, <2>2, RetainedType
    DEF Hello, CacheTypeOK, hostVars, effectVars, Times, Unseen
  <2>4. CacheCoversRetry'
    BY <1>1 DEF Hello, CacheCoversRetry, Retained, hostVars, effectVars
  <2>5. OnlyAddressedHost'
    BY <1>1 DEF Hello, OnlyAddressedHost, hostVars, effectVars
  <2> QED BY <2>3, <2>4, <2>5
<1>2. ASSUME NEW e \in Envelopes, NEW lifetime \in 1..Lifetime, Make(e, lifetime)
      PROVE  CacheInv'
  <2>1. ranOn[e] = {}
    BY <1>2 DEF Make, CacheTypeOK, OnlyAddressedHost, NoHost
  <2>2. e \notin handling
    BY <1>2 DEF Make, CacheTypeOK, OnlyAddressedHost, NoHost
  <2>3. deadline' \in [Envelopes -> 0..(MaxTime + Lifetime)]
    BY <1>2 DEF Make, CacheTypeOK, Times
  <2>4. addressed' \in [Envelopes -> 0..started]
    BY <1>2 DEF Make, CacheTypeOK
  <2>5. CacheTypeOK'
    BY <1>2, <2>3, <2>4
    DEF Make, CacheTypeOK, hostVars, effectVars, Times, Unseen
  <2>6. OnlyAddressedHost'
    BY <1>2, <2>1, <2>2
    DEF Make, CacheTypeOK, OnlyAddressedHost, hostVars, effectVars
  <2>7. CacheCoversRetry'
    BY <1>2, <2>1 DEF Make, CacheTypeOK, CacheCoversRetry, hostVars, effectVars
  <2> QED BY <2>5, <2>6, <2>7
<1>3. ASSUME NEW e \in Envelopes, Send(e) \/ Lose(e)
      PROVE  CacheInv'
  <2>1. copies' \in [Envelopes -> 0..MaxCopies]
    BY <1>3 DEF Send, Lose, CacheTypeOK
  <2>2. CacheTypeOK'
    BY <1>3, <2>1
    DEF Send, Lose, CacheTypeOK, hostVars, clientVars, effectVars, Times, Unseen
  <2>3. OnlyAddressedHost' /\ CacheCoversRetry'
    BY <1>3 DEF Send, Lose, OnlyAddressedHost, CacheCoversRetry,
                hostVars, clientVars, effectVars
  <2> QED BY <2>2, <2>3
<1>4. ASSUME NEW e \in Envelopes, Check(e)
      PROVE  CacheInv'
  <2>1. copies' \in [Envelopes -> 0..MaxCopies]
    BY <1>4 DEF Check, CacheTypeOK
  <2>2. CacheTypeOK'
    BY <1>4, <2>1
    DEF Check, CacheTypeOK, hostVars, clientVars, effectVars, Times, Unseen
  <2>3. OnlyAddressedHost' /\ CacheCoversRetry'
    BY <1>4 DEF Check, Accepts, OnlyAddressedHost, CacheCoversRetry,
                hostVars, clientVars, effectVars
  <2> QED BY <2>2, <2>3
<1>5. ASSUME NEW e \in Envelopes, Forgotten(e)
      PROVE  CacheInv'
  <2>1. seen' \in [Clients -> Times \cup {Unseen}]
    BY <1>5 DEF Forgotten, CacheTypeOK
  <2>2. CacheTypeOK'
    BY <1>5, <2>1
    DEF Forgotten, CacheTypeOK, hostVars, clientVars, effectVars, Times, Unseen
  <2>3. OnlyAddressedHost' /\ CacheCoversRetry'
    BY <1>5 DEF Forgotten, OnlyAddressedHost, CacheCoversRetry,
                hostVars, clientVars, effectVars
  <2> QED BY <2>2, <2>3
<1>6. ASSUME NEW e \in Envelopes, Known(e)
      PROVE  /\ seen' \in [Clients -> Times \cup {Unseen}]
             /\ handling' = {} /\ addressed[e] = instance
             /\ instance # NoHost
  <2>1. ClientOf[e] \in Clients
    OBVIOUS
  <2> QED BY <1>6, <2>1, RefreshedType
          DEF Known, CacheTypeOK, OnlyAddressedHost
<1>7. ASSUME NEW e \in Envelopes, Answer(e)
      PROVE  CacheInv'
  <2>1. CacheTypeOK'
    BY <1>6, <1>7, RetainedType
    DEF Answer, CacheTypeOK, hostVars, clientVars, effectVars, Times, Unseen
  <2>2. OnlyAddressedHost' /\ CacheCoversRetry'
    BY <1>6, <1>7 DEF Answer, OnlyAddressedHost, CacheCoversRetry, Retained,
                      hostVars, clientVars, effectVars
  <2> QED BY <2>1, <2>2
<1>8. ASSUME NEW e \in Envelopes, Execute(e)
      PROVE  CacheInv'
  <2>1. /\ cache' \in SUBSET Mutating
        /\ \A f, g \in cache' : Key[f] = Key[g] => f = g
    BY <1>8, RetainedType DEF Execute, Cached
  <2>2. /\ runs' \in [Envelopes -> Nat]
        /\ ranOn' \in [Envelopes -> SUBSET (1..started)]
    BY <1>6, <1>8 DEF Execute, CacheTypeOK, NoHost
  <2>3. CacheTypeOK'
    BY <1>6, <1>8, <2>1, <2>2
    DEF Execute, CacheTypeOK, hostVars, clientVars, Times, Unseen
  <2>4. OnlyAddressedHost'
    BY <1>6, <1>8 DEF Execute, CacheTypeOK, OnlyAddressedHost, hostVars, clientVars
  <2>5. CacheCoversRetry'
    BY <1>8 DEF Execute, CacheTypeOK, CacheCoversRetry, Retained, hostVars, clientVars
  <2> QED BY <2>3, <2>4, <2>5
<1>9. CASE Tick
  <2>1. CacheTypeOK'
    BY <1>9 DEF Tick, CacheTypeOK, hostVars, clientVars, effectVars, Times, Unseen
  <2>2. OnlyAddressedHost' /\ CacheCoversRetry'
    BY <1>9 DEF Tick, CacheTypeOK, OnlyAddressedHost, CacheCoversRetry, Times,
                hostVars, clientVars, effectVars
  <2> QED BY <2>1, <2>2
<1>10. CASE Start
  <2>1. CacheTypeOK'
    BY <1>10 DEF Start, CacheTypeOK, clientVars, effectVars, Times, Unseen, NoHost
  <2>2. OnlyAddressedHost' /\ CacheCoversRetry'
    BY <1>10 DEF Start, CacheTypeOK, OnlyAddressedHost, CacheCoversRetry, NoHost,
                 clientVars, effectVars
  <2> QED BY <2>1, <2>2
<1>11. CASE Crash
  <2>1. CacheTypeOK'
    BY <1>11 DEF Crash, CacheTypeOK, clientVars, effectVars, Times, Unseen, NoHost
  <2>2. OnlyAddressedHost' /\ CacheCoversRetry'
    BY <1>11 DEF Crash, CacheTypeOK, OnlyAddressedHost, CacheCoversRetry, NoHost,
                 clientVars, effectVars
  <2> QED BY <2>1, <2>2
<1>12. CASE UNCHANGED vars
  BY <1>12 DEF vars, CacheTypeOK, OnlyAddressedHost, CacheCoversRetry, hostVars,
               Times, Unseen
<1> QED
  BY <1>1, <1>2, <1>3, <1>4, <1>5, <1>7, <1>8, <1>9, <1>10, <1>11, <1>12 DEF Next

-----------------------------------------------------------------------------

\* The types, the addressed host and the cover of retries hold in every
\* reachable state (Actor::respond_checked).
THEOREM CacheInvariance == Spec => []CacheInv
  BY CacheInit, CacheStep, PTL DEF Spec

\* The types of the retry cache and of the requests in flight.
THEOREM CacheTypeCorrect == Spec => []CacheTypeOK
<1>1. CacheInv => CacheTypeOK
  BY DEF CacheInv
<1> QED BY <1>1, CacheInvariance, PTL

\* No host executes a mutation that names another (the comparison with
\* host_instance in respond_checked).
THEOREM OnlyAddressedHostHolds == Spec => []OnlyAddressedHost
<1>1. CacheInv => OnlyAddressedHost
  BY DEF CacheInv
<1> QED BY <1>1, CacheInvariance, PTL

\* What the running host executed and may still be retried is in its cache
\* (cache.retain and the refusal of a mutation by a full cache).
THEOREM CacheCoversRetryHolds == Spec => []CacheCoversRetry
<1>1. CacheInv => CacheCoversRetry
  BY DEF CacheInv
<1> QED BY <1>1, CacheInvariance, PTL

\* Both of the above: what a host does is meant for it, and is remembered as
\* long as it may be asked again (respond_checked).
THEOREM CacheSafetyHolds == Spec => []CacheSafety
<1>1. CacheInv => CacheSafety
  BY DEF CacheInv, CacheSafety
<1> QED BY <1>1, CacheInvariance, PTL

\* Before its deadline an executed mutation is not executed again, nor is its
\* request ID used for another content (the lookup in respond_checked).
THEOREM OnceWhileLiveHolds == Spec => OnceWhileLive
<1>1. CacheInv /\ [Next]_vars
      => [runs' # runs => \A e, f \in Envelopes :
            /\ Key[e] = Key[f] /\ instance \in ranOn[e]
            /\ runs'[f] # runs[f]
            => deadline[e] <= now]_vars
  <2> SUFFICES ASSUME CacheInv, Next,
                      NEW e \in Envelopes, NEW f \in Envelopes,
                      Key[e] = Key[f], instance \in ranOn[e],
                      runs'[f] # runs[f]
               PROVE  deadline[e] <= now
    BY DEF vars
  <2>1. PICK g \in Envelopes : Execute(g)
    BY DEF Next, Hello, Make, Send, Lose, Check, Forgotten, Answer, Tick, Start,
           Crash, effectVars
  <2>2. g = f
    BY <2>1 DEF Execute, CacheInv, CacheTypeOK
  <2>3. e \notin Retained
    BY <2>1, <2>2 DEF Execute, Cached
  <2>4. deadline[e] \in Nat /\ now \in Nat
    BY CacheAssumption DEF CacheInv, CacheTypeOK, Times
  <2> QED BY <2>3, <2>4 DEF Retained, CacheInv, CacheCoversRetry
<1> QED BY <1>1, CacheInvariance, PTL DEF Spec, OnceWhileLive

-----------------------------------------------------------------------------
(***************************************************************************)
(* StartSafety and EndpointPreserved, for every number of host processes   *)
(* of both versions and of clients.  That two hosts never work follows     *)
(* from what each stage holds (LocksHeld): the owner lock keeps out the    *)
(* hosts of this binary, and host.lock an older one, because its exclusive *)
(* and its shared holders never meet, in spite of the gap in its           *)
(* conversion.  The endpoint and host-exit.json need the invariant of the  *)
(* one host that works: only it binds, unlinks and records.                *)
(***************************************************************************)

\* From host-owner.lock on.
Owning == {"owner", "exclusive", "converting", "shared"} \cup Working
\* With a socket that is open.
Open == {"bound", "serving", "stopping", "unlinked"}

LocksHeld ==
    /\ \A h \in Hosts :
          /\ pc[h] \in Owning => owner = h
          /\ pc[h] = "exclusive" => exclusive = h
          /\ pc[h] \in {"shared"} \cup Working => h \in shared
    /\ \A l \in Legacy :
          /\ pc[l] \in {"unborn", "serving", "gone"}
          /\ pc[l] = "serving" => exclusive = l
    /\ exclusive # Nobody => shared = {}

EndpointHeld ==
    \A p \in Processes :
        /\ pc[p] \in {"bound", "serving"} => path = p
        /\ pc[p] \in Open => p \in listening

\* What a host takes for stale was bound by a process whose socket is closed,
\* unless something else was put there since.
StaleSeen ==
    \A h \in Hosts :
        /\ pc[h] \in {"looked", "stale"} => looked[h] \in Processes
        /\ pc[h] = "stale" => path = Foreign \/ path \in Processes \ listening

\* With a note that it runs, if that could be written.
Served == {"serving", "stopping", "unlinked"}

Recorded ==
    /\ \A h \in noted : pc[h] \in Served /\ record = [host |-> h, running |-> TRUE]
    /\ record.running => record.host \in Hosts /\ pc[record.host] \in Served \cup {"gone"}
    /\ record # Clear /\ ~record.running => record.host \in Hosts /\ pc[record.host] = "gone"

StartInv == StartTypeOK /\ LocksHeld /\ EndpointHeld /\ StaleSeen /\ Recorded

USE StartAssumption

LEMMA StartInvInit == StartInit => StartInv
BY DEF StartInit, StartInv, StartTypeOK, LocksHeld, EndpointHeld, StaleSeen, Recorded,
       Processes, Stages, Owning, Open, Working, Clear, Served

\* The locks let one process at a time work on the ledgers.
LEMMA OneWorks ==
    ASSUME StartInv, NEW p \in Processes, NEW q \in Processes,
           pc[p] \in Working, pc[q] \in Working
    PROVE  p = q
<1>1. ASSUME NEW r \in Legacy, pc[r] \in Working PROVE exclusive = r /\ shared = {}
  BY <1>1 DEF StartInv, LocksHeld, Working
<1>2. ASSUME NEW r \in Hosts, pc[r] \in Working PROVE owner = r /\ r \in shared
  BY <1>2 DEF StartInv, LocksHeld, Owning
<1> QED BY <1>1, <1>2 DEF Processes

\* A process that ends holds nothing, and the others what they held.
LEMMA EndsInv ==
    ASSUME StartInv, NEW h \in Processes, Ends(h), UNCHANGED <<path, private, looked, client>>,
           \/ UNCHANGED record
           \/ h \in Hosts /\ pc[h] \in Owning /\ record' = [host |-> h, running |-> FALSE],
           \/ noted' = noted \ {h}
           \/ UNCHANGED noted /\ (h \notin Hosts \/ pc[h] \notin Served)
    PROVE  StartInv'
<1>0. noted \subseteq Hosts /\ noted' = noted \ {h}
  BY DEF StartInv, StartTypeOK, Recorded
<1>1. /\ pc \in [Processes -> Stages]
      /\ pc'[h] = "gone" /\ \A p \in Processes : p # h => pc'[p] = pc[p]
  BY DEF Ends, StartInv, StartTypeOK
<1>2. StartTypeOK'
  <2>1. pc' \in [Processes -> Stages]
    BY <1>1 DEF Ends, Stages
  <2>2. /\ owner' \in Hosts \cup {Nobody} /\ exclusive' \in Processes \cup {Nobody}
        /\ shared' \subseteq Hosts \cup {Root} /\ listening' \subseteq Processes
    BY DEF Ends, StartInv, StartTypeOK
  <2>3. record' \in [host : Hosts \cup {Nobody}, running : BOOLEAN]
    <3>1. h \in Hosts => [host |-> h, running |-> FALSE]
                           \in [host : Hosts \cup {Nobody}, running : BOOLEAN]
      OBVIOUS
    <3>2. record \in [host : Hosts \cup {Nobody}, running : BOOLEAN]
      BY DEF StartInv, StartTypeOK
    <3> QED BY <3>1, <3>2
  <2>4. UNCHANGED <<path, private, looked, client>>
    OBVIOUS
  <2>5. /\ path \in Processes \cup {Foreign, Nobody} /\ private \subseteq Processes
        /\ looked \in [Hosts -> Processes \cup {Foreign, Nobody}]
        /\ client \in [Launchers -> {"new", "waiting", "connected", "failed"}]
    BY DEF StartInv, StartTypeOK
  <2> QED BY <1>0, <2>1, <2>2, <2>3, <2>4, <2>5 DEF StartTypeOK
<1>3. LocksHeld'
  <2>1. \A p \in Hosts : /\ pc'[p] \in Owning => owner' = p
                         /\ pc'[p] = "exclusive" => exclusive' = p
                         /\ pc'[p] \in {"shared"} \cup Working => p \in shared'
    BY <1>1 DEF Ends, StartInv, LocksHeld, Owning, Working, Processes
  <2>2. \A l \in Legacy : /\ pc'[l] \in {"unborn", "serving", "gone"}
                          /\ pc'[l] = "serving" => exclusive' = l
    BY <1>1 DEF Ends, StartInv, LocksHeld, Processes
  <2>3. exclusive' # Nobody => shared' = {}
    BY DEF Ends, StartInv, LocksHeld
  <2> QED BY <2>1, <2>2, <2>3 DEF LocksHeld
<1>4. EndpointHeld'
  BY <1>1 DEF Ends, StartInv, EndpointHeld, Open
<1>5. StaleSeen'
  BY <1>1 DEF Ends, StartInv, StaleSeen, Processes
<1>6. Recorded'
  <2>0. \A x \in noted' : /\ x \in noted /\ x # h /\ x \in Hosts
                          /\ pc[x] \in Served /\ pc'[x] = pc[x]
                          /\ record = [host |-> x, running |-> TRUE]
    BY <1>0, <1>1 DEF StartInv, Recorded, Processes
  <2>1. CASE UNCHANGED record
    BY <1>1, <2>0, <2>1 DEF StartInv, Recorded, Processes
  <2>2. CASE h \in Hosts /\ pc[h] \in Owning /\ record' = [host |-> h, running |-> FALSE]
    <3>1. \A x \in Hosts : x # h => pc[x] \notin Served
      BY <2>2 DEF StartInv, LocksHeld, Owning, Working, Served
    <3>2. noted' = {}
      BY <2>0, <3>1
    <3>3. record'.host = h /\ ~record'.running
      BY <2>2
    <3> QED BY <1>1, <2>2, <3>2, <3>3 DEF Recorded
  <2> QED BY <2>1, <2>2
<1> QED BY <1>2, <1>3, <1>4, <1>5, <1>6 DEF StartInv

\* A host goes to another stage under locks that cover it; its socket and the
\* record stay.
LEMMA StageMoves ==
    ASSUME StartInv, NEW h \in Hosts, NEW dest \in Stages, Goes(h, dest), LocksHeld',
           UNCHANGED <<path, listening, private, noteVars>>,
           owner' \in Hosts \cup {Nobody}, exclusive' \in Processes \cup {Nobody},
           shared' \subseteq Hosts \cup {Root},
           client' \in [Launchers -> {"new", "waiting", "connected", "failed"}],
           looked' \in [Hosts -> Processes \cup {Foreign, Nobody}],
           \A p \in Hosts : p # h => looked'[p] = looked[p],
           dest \notin {"bound", "serving"}, dest \in Open => pc[h] \in Open,
           pc[h] # "gone", pc[h] \in Served => dest \in Served,
           dest \in {"looked", "stale"} => looked'[h] \in Processes,
           dest = "stale" => path \in Processes \ listening
    PROVE  StartInv'
<1>1. /\ pc' \in [Processes -> Stages]
      /\ pc'[h] = dest /\ \A p \in Processes : p # h => pc'[p] = pc[p]
  BY DEF Goes, StartInv, StartTypeOK, Processes
<1>2. StartTypeOK'
  <2>1. /\ path \in Processes \cup {Foreign, Nobody} /\ private \subseteq Processes
        /\ listening \subseteq Processes
        /\ record \in [host : Hosts \cup {Nobody}, running : BOOLEAN]
        /\ noted \subseteq Hosts
    BY DEF StartInv, StartTypeOK
  <2> QED BY <1>1, <2>1 DEF StartTypeOK, noteVars
<1>3. EndpointHeld'
  BY <1>1 DEF StartInv, EndpointHeld
<1>4. StaleSeen'
  BY <1>1 DEF StartInv, StaleSeen, Processes
<1>5. Recorded'
  <2>1. UNCHANGED <<record, noted>> /\ noted \subseteq Hosts
    BY DEF StartInv, StartTypeOK, noteVars
  <2>2. \A x \in Hosts : /\ pc[x] \in Served => pc'[x] \in Served
                         /\ pc[x] = "gone" => pc'[x] = "gone"
    BY <1>1 DEF Processes
  <2> QED BY <2>1, <2>2 DEF StartInv, Recorded
<1> QED BY <1>2, <1>3, <1>4, <1>5 DEF StartInv

\* The two locks, one after the other (serve).
LEMMA LockSteps ==
    ASSUME StartInv, NEW h \in Hosts,
           TakeOwner(h) \/ TakeLifetime(h) \/ DowngradeDrops(h) \/ DowngradeShares(h)
    PROVE  StartInv'
<1>0. /\ pc \in [Processes -> Stages] /\ h \in Processes /\ StartTypeOK /\ LocksHeld
      /\ Hosts \subseteq Processes /\ Legacy \subseteq Processes
  BY DEF StartInv, StartTypeOK, Processes
<1>1. CASE Ends(h)
  <2>1. UNCHANGED <<path, private, looked, client, record, noted>>
    BY DEF TakeOwner, TakeLifetime, DowngradeDrops, DowngradeShares, socketVars, noteVars
  <2>2. pc[h] \notin Served
    BY DEF TakeOwner, TakeLifetime, DowngradeDrops, DowngradeShares, Served
  <2> QED BY <1>0, <1>1, <2>1, <2>2, EndsInv
<1>2. ASSUME TakeOwner(h), ~Ends(h) PROVE StartInv'
  <2>1. /\ owner = Nobody /\ owner' = h /\ Goes(h, "owner") /\ pc[h] = "spawned"
        /\ UNCHANGED <<exclusive, shared, listening, path, private, looked, client, noteVars>>
    BY <1>2 DEF TakeOwner
  <2>2. LocksHeld'
    BY <1>0, <2>1 DEF LocksHeld, Goes, Owning, Working
  <2> QED BY <1>0, <2>1, <2>2, StageMoves DEF StartTypeOK, Stages, Open, Working, Served
<1>3. ASSUME TakeLifetime(h), ~Ends(h) PROVE StartInv'
  <2>1. /\ exclusive = Nobody /\ shared = {} /\ exclusive' = h /\ Goes(h, "exclusive")
        /\ pc[h] = "owner"
        /\ UNCHANGED <<owner, shared, listening, path, private, looked, client, noteVars>>
    BY <1>3 DEF TakeLifetime
  <2>2. LocksHeld'
    BY <1>0, <2>1 DEF LocksHeld, Goes, Owning, Working
  <2> QED BY <1>0, <2>1, <2>2, StageMoves DEF StartTypeOK, Stages, Open, Working, Served
<1>4. ASSUME DowngradeDrops(h) PROVE StartInv'
  <2>1. /\ exclusive' = Nobody /\ Goes(h, "converting") /\ pc[h] = "exclusive"
        /\ UNCHANGED <<owner, shared, listening, path, private, looked, client, noteVars>>
    BY <1>4 DEF DowngradeDrops, socketVars
  <2>2. exclusive = h
    BY <1>0, <2>1 DEF LocksHeld
  <2>3. LocksHeld'
    BY <1>0, <2>1, <2>2 DEF LocksHeld, Goes, Owning, Working
  <2> QED BY <1>0, <2>1, <2>3, StageMoves DEF StartTypeOK, Stages, Open, Working, Served
<1>5. ASSUME DowngradeShares(h), ~Ends(h) PROVE StartInv'
  <2>1. /\ exclusive = Nobody /\ shared' = shared \cup {h} /\ Goes(h, "shared")
        /\ pc[h] = "converting"
        /\ UNCHANGED <<owner, exclusive, listening, path, private, looked, client, noteVars>>
    BY <1>5 DEF DowngradeShares
  <2>2. LocksHeld'
    BY <1>0, <2>1 DEF LocksHeld, Goes, Owning, Working
  <2> QED BY <1>0, <2>1, <2>2, StageMoves DEF StartTypeOK, Stages, Open, Working, Served
<1> QED BY <1>1, <1>2, <1>3, <1>4, <1>5

\* A start that fails under its locks says so, and so does a host that exits.
LEMMA FailInv ==
    ASSUME StartInv, NEW h \in Hosts, pc[h] \in Owning, FailStart(h)
    PROVE  StartInv'
BY EndsInv DEF FailStart, NoteExit, Processes

\* Moving on under the locks of a host that works keeps all locks.
LEMMA LocksStay ==
    ASSUME StartInv, NEW h \in Hosts, pc[h] \in {"shared"} \cup Working,
           NEW dest \in Working, Goes(h, dest), UNCHANGED lockVars
    PROVE  LocksHeld' /\ UNCHANGED <<owner, exclusive, shared>>
<1>1. /\ pc \in [Processes -> Stages] /\ Hosts \subseteq Processes
      /\ Legacy \subseteq Processes /\ LocksHeld
  BY DEF StartInv, StartTypeOK, Processes
<1>2. pc[h] \in Owning /\ dest \in Owning /\ dest # "exclusive"
  BY DEF Owning, Working
<1>3. /\ pc'[h] = dest /\ \A p \in Processes : p # h => pc'[p] = pc[p]
      /\ UNCHANGED <<owner, exclusive, shared>> /\ h \notin Legacy
  BY <1>1 DEF Goes, lockVars
<1> QED BY <1>1, <1>2, <1>3 DEF LocksHeld

\* The ledgers are read and the socket's path is looked up (serve_owned).
LEMMA LookSteps ==
    ASSUME StartInv, NEW h \in Hosts,
           \/ \E ok \in BOOLEAN : OpenLedgers(h, ok)
           \/ LookUp(h) \/ Probe(h) \/ EndLoop(h)
    PROVE  StartInv'
<1>0. /\ StartTypeOK /\ h \in Processes
      /\ pc[h] \in {"shared", "opened", "looked", "bound", "serving"} /\ pc[h] \in Owning
      /\ pc[h] \in {"shared"} \cup Working
  BY DEF StartInv, OpenLedgers, LookUp, Probe, EndLoop, Processes, Owning, Working
<1>1. CASE FailStart(h)
  BY <1>0, <1>1, FailInv
<1>2. ASSUME NEW ok \in BOOLEAN, OpenLedgers(h, ok), ~FailStart(h) PROVE StartInv'
  <2>1. /\ Goes(h, "opened") /\ pc[h] = "shared" /\ UNCHANGED lockVars
        /\ UNCHANGED <<path, listening, private, looked, client, noteVars>>
    BY <1>2 DEF OpenLedgers, socketVars
  <2>2. LocksHeld' /\ UNCHANGED <<owner, exclusive, shared>>
    BY <1>0, <2>1, LocksStay DEF Working
  <2> QED BY <1>0, <2>1, <2>2, StageMoves DEF StartTypeOK, Stages, Open, Working, Served
<1>3. ASSUME LookUp(h), ~FailStart(h) PROVE StartInv'
  <2> DEFINE dest == IF path = Nobody THEN "clear" ELSE "looked"
  <2>1. /\ Goes(h, dest) /\ pc[h] = "opened" /\ UNCHANGED lockVars /\ path # Foreign
        /\ looked' = [looked EXCEPT ![h] = path]
        /\ UNCHANGED <<path, listening, private, noteVars, client>>
    BY <1>3 DEF LookUp, socketVars
  <2>2. LocksHeld' /\ UNCHANGED <<owner, exclusive, shared>>
    BY <1>0, <2>1, LocksStay DEF Working
  <2>3. /\ looked' \in [Hosts -> Processes \cup {Foreign, Nobody}] /\ looked'[h] = path
        /\ \A p \in Hosts : p # h => looked'[p] = looked[p]
        /\ path # Nobody => path \in Processes
    BY <1>0, <2>1 DEF StartTypeOK
  <2>4. /\ dest \in Stages \ ({"bound", "serving", "stale"} \cup Open)
        /\ dest = "looked" => looked'[h] \in Processes
        /\ pc[h] # "gone" /\ pc[h] \notin Served
    BY <2>1, <2>3 DEF Stages, Open, Served
  <2> HIDE DEF dest
  <2> QED BY <1>0, <2>1, <2>2, <2>3, <2>4, StageMoves DEF StartTypeOK
<1>4. ASSUME Probe(h), ~FailStart(h) PROVE StartInv'
  <2>1. /\ Goes(h, "stale") /\ pc[h] = "looked" /\ UNCHANGED lockVars
        /\ path \in Processes \ listening
        /\ UNCHANGED <<path, listening, private, looked, client, noteVars>>
    BY <1>4 DEF Probe, socketVars
  <2>2. LocksHeld' /\ UNCHANGED <<owner, exclusive, shared>>
    BY <1>0, <2>1, LocksStay DEF Working
  <2>3. looked[h] \in Processes
    BY <2>1 DEF StartInv, StaleSeen
  <2> QED BY <1>0, <2>1, <2>2, <2>3, StageMoves DEF StartTypeOK, Stages, Open, Working, Served
<1>5. ASSUME EndLoop(h) PROVE StartInv'
  <2>1. /\ Goes(h, "stopping") /\ pc[h] \in {"bound", "serving"} /\ UNCHANGED lockVars
        /\ UNCHANGED <<path, listening, private, looked, client, noteVars>>
    BY <1>5 DEF EndLoop, socketVars
  <2>2. LocksHeld' /\ UNCHANGED <<owner, exclusive, shared>>
    BY <1>0, <2>1, LocksStay DEF Working
  <2> QED BY <1>0, <2>1, <2>2, StageMoves DEF StartTypeOK, Stages, Open, Working, Served
<1> QED BY <1>1, <1>2, <1>3, <1>4, <1>5

\* What the host at work does to the endpoint and to the record, nobody else
\* has an eye on.
LEMMA WorkerActs ==
    ASSUME StartInv, NEW h \in Hosts, pc[h] \in Working, NEW dest \in Working,
           Goes(h, dest), UNCHANGED <<owner, exclusive, shared, looked, client>>,
           dest \notin {"looked", "stale"},
           path' \in Processes \cup {Foreign, Nobody},
           listening' \subseteq Processes, private' \subseteq Processes,
           dest \in {"bound", "serving"} => path' = h,
           dest \in Open => h \in listening',
           pc[h] \in Served => dest \in Served,
           \/ UNCHANGED noteVars
           \/ /\ record' = [host |-> h, running |-> TRUE] /\ noted' = noted \cup {h}
              /\ dest = "serving"
    PROVE  StartInv'
<1>1. /\ pc \in [Processes -> Stages] /\ StartTypeOK /\ h \in Processes
      /\ Hosts \subseteq Processes /\ dest \in Stages
  BY DEF StartInv, StartTypeOK, Processes, Working, Stages
<1>2. /\ pc' \in [Processes -> Stages]
      /\ pc'[h] = dest /\ \A p \in Processes : p # h => pc'[p] = pc[p]
  BY <1>1 DEF Goes
<1>3. \A p \in Processes : p # h => pc'[p] \notin Working
  BY <1>1, <1>2, OneWorks
<1>4. StartTypeOK'
  <2>1. [host |-> h, running |-> TRUE] \in [host : Hosts \cup {Nobody}, running : BOOLEAN]
    OBVIOUS
  <2>2. record' \in [host : Hosts \cup {Nobody}, running : BOOLEAN] /\ noted' \subseteq Hosts
    BY <1>1, <2>1 DEF StartTypeOK, noteVars
  <2> QED BY <1>1, <1>2, <2>2 DEF StartTypeOK
<1>5. LocksHeld'
  BY LocksStay DEF lockVars
<1>6. EndpointHeld'
  BY <1>2, <1>3 DEF EndpointHeld, Open, Working
<1>7. StaleSeen'
  BY <1>1, <1>2, <1>3 DEF StaleSeen, Working
<1>8. Recorded'
  <2>1. pc[h] # "gone"
    BY DEF Working
  <2>2. CASE UNCHANGED noteVars
    <3>1. UNCHANGED <<record, noted>> /\ noted \subseteq Hosts
      BY <1>1, <2>2 DEF StartTypeOK, noteVars
    <3>2. \A x \in Hosts : /\ pc[x] \in Served => pc'[x] \in Served
                           /\ pc[x] = "gone" => pc'[x] = "gone"
      BY <1>1, <1>2, <2>1
    <3> QED BY <3>1, <3>2 DEF StartInv, Recorded
  <2>3. CASE /\ record' = [host |-> h, running |-> TRUE] /\ noted' = noted \cup {h}
             /\ dest = "serving"
    <3>1. \A x \in noted : x \in Processes /\ pc[x] \in Working
      BY <1>1 DEF StartInv, StartTypeOK, Recorded, Served, Working
    <3>2. \A x \in noted : x = h
      BY <1>1, <3>1, OneWorks
    <3>3. record'.host = h /\ record'.running
      BY <2>3
    <3> QED BY <1>2, <2>3, <3>2, <3>3 DEF Recorded, Served
  <2> QED BY <2>2, <2>3
<1> QED BY <1>4, <1>5, <1>6, <1>7, <1>8 DEF StartInv

\* The endpoint is replaced, published and taken away (serve_owned, SocketGuard).
LEMMA EndpointSteps ==
    ASSUME StartInv, NEW h \in Hosts,
           RemoveStale(h) \/ BindEndpoint(h) \/ Publish(h) \/ DropGuard(h)
    PROVE  StartInv'
<1>0. /\ h \in Processes /\ pc[h] \in Working /\ pc[h] \in Owning
      /\ path \in Processes \cup {Foreign, Nobody}
      /\ listening \subseteq Processes /\ private \subseteq Processes
      /\ pc[h] \in {"bound", "serving"} => path = h
      /\ pc[h] \in Open => h \in listening
  BY DEF StartInv, StartTypeOK, EndpointHeld, RemoveStale, BindEndpoint, Publish, DropGuard,
         Processes, Owning, Working
<1>1. CASE FailStart(h)
  BY <1>0, <1>1, FailInv
<1>2. ASSUME RemoveStale(h), ~FailStart(h) PROVE StartInv'
  <2>1. /\ Goes(h, "clear") /\ path' = Nobody
        /\ UNCHANGED <<owner, exclusive, shared, looked, client, listening, private, noteVars>>
    BY <1>2 DEF RemoveStale, lockVars
  <2>2. pc[h] = "stale"
    BY <1>2 DEF RemoveStale
  <2> QED BY <1>0, <2>1, <2>2, WorkerActs DEF Working, Open, Served
<1>3. ASSUME BindEndpoint(h), ~FailStart(h) PROVE StartInv'
  <2>1. /\ Goes(h, "bound") /\ path' = h /\ listening' = listening \cup {h}
        /\ UNCHANGED <<owner, exclusive, shared, looked, client, private, noteVars>>
    BY <1>3 DEF BindEndpoint, lockVars
  <2>2. pc[h] = "clear"
    BY <1>3 DEF BindEndpoint
  <2> QED BY <1>0, <2>1, <2>2, WorkerActs DEF Working, Open, Served
<1>4. ASSUME Publish(h) PROVE StartInv'
  <2>1. /\ Goes(h, "serving") /\ private' = private \cup {h} /\ pc[h] = "bound"
        /\ \/ UNCHANGED noteVars
           \/ record' = [host |-> h, running |-> TRUE] /\ noted' = noted \cup {h}
        /\ UNCHANGED <<owner, exclusive, shared, looked, client, path, listening>>
    BY <1>4 DEF Publish, NoteRunning, lockVars
  <2> QED BY <1>0, <2>1, WorkerActs DEF Working, Open, Served
<1>5. ASSUME DropGuard(h) PROVE StartInv'
  <2>1. /\ Goes(h, "unlinked") /\ path' \in {Nobody, path} /\ pc[h] = "stopping"
        /\ UNCHANGED <<owner, exclusive, shared, looked, client, listening, private, noteVars>>
    BY <1>5 DEF DropGuard, lockVars
  <2> QED BY <1>0, <2>1, WorkerActs DEF Working, Open, Served
<1> QED BY <1>1, <1>2, <1>3, <1>4, <1>5

\* What else changes the locks, the path or the stage of a process.
LEMMA OtherSteps ==
    ASSUME StartInv,
           \/ \E l \in Legacy : LegacyStart(l) \/ LegacyEnd(l)
           \/ \E h \in Hosts : ExitHost(h) \/ CrashStart(h)
           \/ ReconnectBegins \/ ReconnectEnds \/ ForeignFile
    PROVE  StartInv'
<1>0. /\ pc \in [Processes -> Stages] /\ StartTypeOK /\ LocksHeld
      /\ Hosts \subseteq Processes /\ Legacy \subseteq Processes
  BY DEF StartInv, StartTypeOK, Processes
<1>1. ASSUME NEW h \in Hosts, ExitHost(h) \/ CrashStart(h) PROVE StartInv'
  <2>1. CASE ExitHost(h)
    BY <1>0, <2>1, EndsInv DEF ExitHost, NoteExit, Owning, Working
  <2>2. CASE CrashStart(h)
    BY <1>0, <2>2, EndsInv DEF CrashStart
  <2> QED BY <1>1, <2>1, <2>2
<1>2. ASSUME NEW l \in Legacy, LegacyEnd(l) PROVE StartInv'
  BY <1>0, <1>2, EndsInv DEF LegacyEnd, noteVars
<1>3. ASSUME NEW l \in Legacy, LegacyStart(l) PROVE StartInv'
  <2>1. /\ pc[l] = "unborn" /\ exclusive = Nobody /\ shared = {}
        /\ path = Nobody \/ path \in Processes \ listening
        /\ exclusive' = l /\ path' = l /\ Goes(l, "serving")
        /\ listening' = listening \cup {l} /\ private' = private \cup {l}
        /\ UNCHANGED <<owner, shared, looked, client, record, noted>>
    BY <1>3 DEF LegacyStart, noteVars
  <2>2. /\ pc' \in [Processes -> Stages] /\ pc'[l] = "serving" /\ l \notin Hosts
        /\ \A p \in Processes : p # l => pc'[p] = pc[p]
    BY <1>0, <2>1 DEF Goes, Stages
  <2>3. \A p \in Processes : pc[p] \notin Working
    BY <1>0, <2>1 DEF LocksHeld, Working, Processes
  <2>4. StartTypeOK'
    BY <1>0, <2>1, <2>2 DEF StartTypeOK
  <2>5. LocksHeld'
    BY <1>0, <2>1, <2>2, <2>3 DEF LocksHeld
  <2>6. EndpointHeld'
    BY <2>1, <2>2, <2>3 DEF EndpointHeld, Open, Working
  <2>7. StaleSeen'
    BY <1>0, <2>1, <2>2, <2>3 DEF StaleSeen, Working
  <2>8. Recorded'
    BY <1>0, <2>1, <2>2, <2>3 DEF StartInv, Recorded, Working
  <2> QED BY <2>4, <2>5, <2>6, <2>7, <2>8 DEF StartInv
<1>4. CASE ReconnectBegins \/ ReconnectEnds
  <2>1. /\ UNCHANGED <<pc, owner, exclusive, path, listening, private, looked, client, record, noted>>
        /\ \/ exclusive = Nobody /\ shared' = shared \cup {Root}
           \/ shared' = shared \ {Root}
    BY <1>4 DEF ReconnectBegins, ReconnectEnds, socketVars, noteVars
  <2>2. StartTypeOK'
    BY <1>0, <2>1 DEF StartTypeOK
  <2>3. LocksHeld'
    BY <1>0, <2>1 DEF LocksHeld
  <2>4. EndpointHeld' /\ StaleSeen' /\ Recorded'
    BY <2>1 DEF StartInv, EndpointHeld, StaleSeen, Recorded
  <2> QED BY <2>2, <2>3, <2>4 DEF StartInv
<1>5. CASE ForeignFile
  <2>1. /\ UNCHANGED <<pc, owner, exclusive, shared, listening, private, looked, client, record, noted>>
        /\ path \in Processes \ listening /\ path' = Foreign
    BY <1>5 DEF ForeignFile, lockVars, noteVars
  <2>2. StartTypeOK' /\ LocksHeld'
    BY <1>0, <2>1 DEF StartTypeOK, LocksHeld
  <2>3. EndpointHeld'
    BY <2>1 DEF StartInv, EndpointHeld, Open
  <2>4. StaleSeen' /\ Recorded'
    BY <2>1 DEF StartInv, StaleSeen, Recorded
  <2> QED BY <2>2, <2>3, <2>4 DEF StartInv
<1> QED BY <1>1, <1>2, <1>3, <1>4, <1>5

\* Clients read the endpoint; at most they start one more process.
LEMMA ClientSteps ==
    ASSUME StartInv, NEW c \in Launchers, LauncherStep(c) \/ GiveUp(c)
    PROVE  StartInv'
<1>1. ASSUME NEW answer \in {"connected", "failed"}, Tried(c, answer) PROVE StartInv'
  <2>1. /\ UNCHANGED <<pc, owner, exclusive, shared, path, listening, private, looked, record, noted>>
        /\ client' = [client EXCEPT ![c] = answer]
    BY <1>1 DEF Tried, lockVars, socketVars, noteVars
  <2>2. StartTypeOK'
    BY <2>1 DEF StartInv, StartTypeOK
  <2>3. LocksHeld' /\ EndpointHeld' /\ StaleSeen' /\ Recorded'
    BY <2>1 DEF StartInv, LocksHeld, EndpointHeld, StaleSeen, Recorded
  <2> QED BY <2>2, <2>3 DEF StartInv
<1>2. ASSUME NEW h \in Hosts, SpawnHost(c, h) PROVE StartInv'
  <2>1. /\ pc[h] = "unborn" /\ Goes(h, "spawned")
        /\ client' = [client EXCEPT ![c] = "waiting"]
        /\ UNCHANGED <<owner, exclusive, shared, path, listening, private, looked, record, noted>>
    BY <1>2 DEF SpawnHost, lockVars, socketVars, noteVars
  <2>2. StartTypeOK /\ LocksHeld /\ pc \in [Processes -> Stages]
        /\ Hosts \subseteq Processes /\ Legacy \subseteq Processes
    BY DEF StartInv, StartTypeOK, Processes
  <2>3. LocksHeld'
    BY <2>1, <2>2 DEF LocksHeld, Goes, Owning, Working
  <2> QED BY <2>1, <2>2, <2>3, StageMoves DEF noteVars, StartTypeOK, Stages, Open, Working, Served
<1> QED BY <1>1, <1>2 DEF LauncherStep, FirstTry, Retry, GiveUp

LEMMA StartInvStep ==
    ASSUME StartInv, [StartNext]_startVars PROVE StartInv'
<1>1. ASSUME NEW h \in Hosts, ServerStep(h) PROVE StartInv'
  BY <1>1, LockSteps, LookSteps, EndpointSteps, OtherSteps DEF ServerStep
<1>2. ASSUME NEW h \in Hosts, OpenLedgers(h, FALSE) \/ EndLoop(h) \/ CrashStart(h)
      PROVE  StartInv'
  BY <1>2, LookSteps, OtherSteps
<1>3. ASSUME NEW c \in Launchers, LauncherStep(c) \/ GiveUp(c) PROVE StartInv'
  BY <1>3, ClientSteps
<1>4. CASE \/ \E l \in Legacy : LegacyStart(l) \/ LegacyEnd(l)
           \/ ReconnectBegins \/ ReconnectEnds \/ ForeignFile
  BY <1>4, OtherSteps
<1>5. CASE UNCHANGED startVars
  BY <1>5 DEF startVars, StartInv, StartTypeOK, LocksHeld, EndpointHeld, StaleSeen, Recorded
<1> QED BY <1>1, <1>2, <1>3, <1>4, <1>5 DEF StartNext, RaceNext
-----------------------------------------------------------------------------
(* The theorems.                                                           *)

(***************************************************************************)
(* The inductive invariant of hosts that start and end: what each stage of *)
(* serve holds, and what a stale socket was.                               *)
(***************************************************************************)
THEOREM StartInvariance == StartSpec => []StartInv
BY StartInvInit, StartInvStep, PTL DEF StartSpec

(***************************************************************************)
(* However hosts of both versions, clients and root reconnection race, and *)
(* whichever of them dies, one host works on the durable ledgers, its      *)
(* endpoint is the one clients reach, and host-exit.json speaks of the     *)
(* host it names (serve, serve_owned, record_exit).                        *)
(***************************************************************************)
THEOREM StartSafetyHolds == StartSpec => []StartSafety
<1>1. StartInv => StartSafety
  <2> SUFFICES ASSUME StartInv PROVE OneHostWorks /\ RecordNamesHost
    BY DEF StartSafety
  <2>1. OneHostWorks
    BY OneWorks DEF StartInv, EndpointHeld, OneHostWorks
  <2>2. RecordNamesHost
    BY DEF StartInv, Recorded, RecordNamesHost, Served
  <2> QED BY <2>1, <2>2
<1> QED BY <1>1, StartInvariance, PTL

\* Only the host at work and an older host touch the endpoint.
LEMMA EndpointStep ==
    ASSUME StartInv, [StartNext]_startVars, path' # path, path # Nobody
    PROVE  \/ path \in Processes \ listening
           \/ path \in Hosts /\ pc[path] = "stopping" /\ path' = Nobody
<1> DEFINE Kept == \/ path \in Processes \ listening
                   \/ path \in Hosts /\ pc[path] = "stopping" /\ path' = Nobody
<1>1. ASSUME NEW h \in Hosts, RemoveStale(h) PROVE Kept
  <2>1. pc[h] = "stale" /\ path = looked[h]
    BY <1>1 DEF RemoveStale, FailStart
  <2>2. looked[h] \in Processes
    BY <2>1 DEF StartInv, StaleSeen
  <2> QED BY <2>1, <2>2, StartAssumption DEF StartInv, StaleSeen, Processes
<1>2. ASSUME NEW h \in Hosts, BindEndpoint(h) PROVE FALSE
  BY <1>2 DEF BindEndpoint, FailStart
<1>3. ASSUME NEW h \in Hosts, DropGuard(h) PROVE Kept
  BY <1>3 DEF DropGuard
<1>4. CASE ForeignFile \/ \E l \in Legacy : LegacyStart(l)
  BY <1>4 DEF ForeignFile, LegacyStart
<1>5. ASSUME NEW h \in Hosts,
             \/ TakeOwner(h) \/ TakeLifetime(h) \/ DowngradeDrops(h) \/ DowngradeShares(h)
             \/ \E ok \in BOOLEAN : OpenLedgers(h, ok)
             \/ LookUp(h) \/ Probe(h) \/ Publish(h) \/ EndLoop(h)
             \/ ExitHost(h) \/ CrashStart(h)
      PROVE  FALSE
  BY <1>5 DEF TakeOwner, TakeLifetime, DowngradeDrops, DowngradeShares, OpenLedgers, LookUp,
              Probe, Publish, EndLoop, ExitHost, CrashStart, FailStart, socketVars
<1>6. ASSUME NEW c \in Launchers, LauncherStep(c) \/ GiveUp(c) PROVE FALSE
  BY <1>6 DEF LauncherStep, FirstTry, Retry, SpawnHost, GiveUp, Tried, socketVars
<1>7. CASE \/ \E l \in Legacy : LegacyEnd(l)
           \/ ReconnectBegins \/ ReconnectEnds \/ UNCHANGED startVars
  BY <1>7 DEF LegacyEnd, ReconnectBegins, ReconnectEnds, startVars, socketVars
<1> QED
  BY <1>1, <1>2, <1>3, <1>4, <1>5, <1>6, <1>7 DEF StartNext, RaceNext, ServerStep

(***************************************************************************)
(* The endpoint of a live process and a file that is no socket stay where  *)
(* they are, though a host looks at the path, asks who listens and removes *)
(* the file in three steps (remove_stale_socket, SocketGuard).             *)
(***************************************************************************)
THEOREM EndpointAlwaysPreserved == StartSpec => EndpointPreserved
<1>1. ASSUME StartInv, [StartNext]_startVars
      PROVE  [path' # path /\ path # Nobody =>
                 \/ path \in Processes \ listening
                 \/ path \in Hosts /\ pc[path] = "stopping" /\ path' = Nobody]_startVars
  BY <1>1, EndpointStep
<1> QED BY <1>1, StartInvariance, PTL DEF StartSpec, EndpointPreserved
-----------------------------------------------------------------------------
(* The inventory of a session.  A process that leaves its session does so  *)
(* before it forks (~LateDetach), so the parent of a process in the        *)
(* session is in it too, up to a child of the host.                        *)

TableTypes ==
    /\ st \in [Pids -> {"free", "alive", "zombie"}]
    /\ parent \in [Pids -> Pids \cup {Host, InitProcess}]
    /\ sess \in [Pids -> {Session, "other"}]

\* Parents that are processes of the table live, and have forked.
ParentsLive ==
    \A c \in Pids :
        st[c] # "free" /\ parent[c] \in Pids => Alive(parent[c]) /\ parent[c] \in bred
ParentsInSession ==
    \A c \in Pids :
        Occupies(c) => parent[c] = Host \/ (parent[c] \in Pids /\ sess[parent[c]] = Session)
\* No process is its own ancestor: each set has one with a parent outside.
Acyclic ==
    \A S \in SUBSET Pids :
        S # {} /\ (\A c \in S : st[c] # "free") => \E c \in S : parent[c] \notin S

TreeInv == TableTypes /\ ParentsLive /\ ParentsInSession /\ Acyclic

Vacant == \A p \in Pids : ~Occupies(p)
LeaderGone == ~(Alive(Leader) /\ sess[Leader] = Session)

\* A child of the host that can neither leave the session nor, before the host
\* has the report, be reaped.
Stays(r) == Occupies(r) /\ parent[r] = Host /\ (st[r] = "zombie" \/ r \in bred)

\* What a scan that found nothing yet still has ahead of it: if anything is in
\* the session, then a process of it that stays, or all of them.
Ahead ==
    \/ \E r \in Pids : r \in frontier /\ Stays(r)
    \/ \A c \in Pids : Occupies(c) => c \in frontier /\ parent[c] = Host

SlotInv ==
    /\ ~exited => /\ st[Leader] # "free" /\ sess[Leader] = Session
                  /\ ~done /\ ~reaped /\ phase = "idle"
    /\ ~reaped => parent[Leader] = Host
    /\ exited => LeaderGone
    /\ exited /\ ~reaped => st[Leader] = "zombie"
    /\ reaped => done
    /\ phase # "idle" => ~done /\ todo = {} /\ target = NoPid
    /\ \A e \in found : e[1] # Leader
    /\ Leader \notin todo /\ target \in (Pids \ {Leader}) \cup {NoPid}

ScanInv ==
    /\ phase = "anchored" => found = {}
    /\ phase \in {"narrow", "full"} /\ found = {} => Ahead
    /\ phase = "reported" /\ found = {} => Vacant
    /\ done => Vacant

InventoryInv == TreeInv /\ SlotInv /\ ScanInv

LEMMA LeaderIsPid == Leader \in Pids
BY InventoryAssumption DEF InventoryAssumption, Pids, Leader

LEMMA InventoryInvInit == InventoryInit => InventoryInv
<1> SUFFICES ASSUME InventoryInit PROVE InventoryInv
  OBVIOUS
<1>1. TableTypes
  BY LeaderIsPid DEF InventoryInit, TableTypes
<1>2. \A c \in Pids : st[c] # "free" => c = Leader /\ parent[c] = Host
  BY DEF InventoryInit
<1>3. Host \notin Pids
  BY InventoryAssumption DEF InventoryAssumption
<1>4. ParentsLive /\ ParentsInSession
  BY <1>2, <1>3 DEF ParentsLive, ParentsInSession, Occupies
<1>5. Acyclic
  BY <1>2, <1>3 DEF Acyclic
<1>6. SlotInv /\ ScanInv
  BY LeaderIsPid DEF InventoryInit, SlotInv, ScanInv, NoPid, Leader
<1> QED BY <1>1, <1>4, <1>5, <1>6 DEF InventoryInv, TreeInv

\* When the leader is gone and a process of the session has a parent in it, then
\* the oldest such parent is a child of the host.
LEMMA SomeStays ==
    ASSUME TreeInv, LeaderGone, NEW c \in Pids, Occupies(c), parent[c] # Host
    PROVE  \E r \in Pids : Stays(r)
<1> DEFINE B == {p \in Pids : Occupies(p) /\ \E k \in Pids : Occupies(k) /\ parent[k] = p}
<1>1. ASSUME NEW k \in Pids, Occupies(k), parent[k] # Host
      PROVE  parent[k] \in B /\ parent[k] \in bred
  <2>1. parent[k] \in Pids /\ sess[parent[k]] = Session
    BY <1>1 DEF TreeInv, ParentsInSession
  <2>2. Alive(parent[k]) /\ parent[k] \in bred
    BY <1>1, <2>1 DEF TreeInv, ParentsLive, Occupies
  <2>3. parent[k] # Leader
    BY <2>1, <2>2 DEF LeaderGone
  <2> QED BY <1>1, <2>1, <2>2, <2>3 DEF Occupies, Alive
<1>2. B # {} /\ B \in SUBSET Pids /\ \A p \in B : st[p] # "free"
  BY <1>1 DEF Occupies
<1>3. PICK r \in B : parent[r] \notin B
  BY <1>2 DEF TreeInv, Acyclic
<1>4. r \in Pids /\ Occupies(r) /\ \E k \in Pids : Occupies(k) /\ parent[k] = r
  BY <1>3
<1>5. parent[r] = Host
  BY <1>1, <1>3, <1>4
<1>6. r \in bred
  <2>1. PICK k \in Pids : Occupies(k) /\ parent[k] = r
    BY <1>4
  <2> QED BY <1>4, <2>1 DEF TreeInv, ParentsLive, Occupies
<1> QED BY <1>4, <1>5, <1>6 DEF Stays

\* A set of pids that has every child of the host is a good start.
LEMMA StartsAhead ==
    ASSUME TreeInv, LeaderGone, NEW F, \A c \in Pids : Occupies(c) /\ parent[c] = Host => c \in F
    PROVE  \/ \E r \in Pids : r \in F /\ Stays(r)
           \/ \A c \in Pids : Occupies(c) => c \in F /\ parent[c] = Host
<1>1. CASE \E r \in Pids : Stays(r)
  BY <1>1 DEF Stays
<1>2. CASE \A c \in Pids : Occupies(c) => parent[c] = Host
  BY <1>2
<1> QED BY <1>1, <1>2, SomeStays

(***************************************************************************)
(* The steps of the table: a birth, a detachment, a death, a reaping.      *)
(***************************************************************************)
BirthOf(q, p) == \/ \E n \in Pids : p = n /\ Fork(n, q)
                 \/ p = InitProcess /\ Stranger(q)

LEMMA BirthTable ==
    ASSUME TreeInv, NEW q \in Pids, NEW p, BirthOf(q, p)
    PROVE  /\ st[q] = "free" /\ st' = [st EXCEPT ![q] = "alive"]
           /\ parent' = [parent EXCEPT ![q] = p] /\ bred' = (bred \cup {p}) \cap (Pids \ {q})
           /\ p \in Pids => Alive(p) /\ sess' = [sess EXCEPT ![q] = sess[p]]
           /\ p \notin Pids => p = InitProcess /\ sess' = [sess EXCEPT ![q] = "other"]
           /\ p # q /\ p # Host
           /\ UNCHANGED <<slotVars, scanVars, reportVars>>
<1>1. InitProcess \notin Pids /\ Host \notin Pids /\ Host # InitProcess
  BY InventoryAssumption DEF InventoryAssumption
<1>2. CASE p = InitProcess /\ Stranger(q)
  BY <1>1, <1>2 DEF Stranger, Born
<1>3. CASE \E n \in Pids : p = n /\ Fork(n, q)
  BY <1>1, <1>3 DEF Fork, Born, Alive
<1> QED BY <1>2, <1>3 DEF BirthOf

\* Somebody of the session forks: a process of the session, or the leader.
LEMMA BirthOccupies ==
    ASSUME TreeInv, LeaderGone, NEW q \in Pids, NEW p, BirthOf(q, p)
    PROVE  /\ \A c \in Pids \ {q} : Occupies(c)' <=> Occupies(c)
           /\ \A c \in Pids : Occupies(c) => c # q
           /\ Occupies(q)' => p \in Pids /\ Occupies(p)
<1> USE DEF TreeInv, TableTypes
<1>1. \A c \in Pids \ {q} : Occupies(c)' <=> Occupies(c)
  BY BirthTable DEF Occupies
<1>2. \A c \in Pids : Occupies(c) => c # q
  BY BirthTable DEF Occupies
<1>3. ASSUME Occupies(q)' PROVE p \in Pids /\ Occupies(p)
  <2>1. sess'[q] = Session
    BY <1>3 DEF Occupies
  <2>2. p \in Pids /\ Alive(p) /\ sess[p] = Session
    BY <2>1, BirthTable DEF Session
  <2> QED BY <2>2 DEF Occupies, Alive, LeaderGone
<1> QED BY <1>1, <1>2, <1>3

LEMMA BirthTree ==
    ASSUME TreeInv, NEW q \in Pids, NEW p, BirthOf(q, p) PROVE TreeInv'
<1> DEFINE Used(c) == st[c] # "free"
<1>0. /\ st[q] = "free" /\ st' = [st EXCEPT ![q] = "alive"]
      /\ parent' = [parent EXCEPT ![q] = p] /\ bred' = (bred \cup {p}) \cap (Pids \ {q})
      /\ p \in Pids => Alive(p) /\ sess' = [sess EXCEPT ![q] = sess[p]]
      /\ p \notin Pids => p = InitProcess /\ sess' = [sess EXCEPT ![q] = "other"]
      /\ p # q /\ p # Host
  BY BirthTable
<1>1. TableTypes'
  BY <1>0 DEF TreeInv, TableTypes
<1>2. ASSUME NEW c \in Pids, st'[c] # "free", parent'[c] \in Pids
      PROVE  st'[parent'[c]] = "alive" /\ parent'[c] \in bred' /\ parent'[c] # q
  <2>1. CASE c = q
    BY <1>0, <1>2, <2>1 DEF TreeInv, TableTypes, Alive
  <2>2. CASE c # q
    <3>1. st[c] # "free" /\ parent'[c] = parent[c]
      BY <1>0, <1>2, <2>2 DEF TreeInv, TableTypes
    <3>2. st[parent[c]] = "alive" /\ parent[c] \in bred
      BY <1>2, <3>1 DEF TreeInv, ParentsLive, Alive
    <3> QED BY <1>0, <1>2, <3>1, <3>2 DEF TreeInv, TableTypes
  <2> QED BY <2>1, <2>2
<1>3. ParentsLive'
  BY <1>2 DEF ParentsLive, Alive
<1>4. ASSUME NEW c \in Pids, Occupies(c)'
      PROVE  parent'[c] = Host \/ (parent'[c] \in Pids /\ sess'[parent'[c]] = Session)
  <2>1. CASE c = q
    <3>1. sess'[q] = Session
      BY <1>4, <2>1 DEF Occupies
    <3>2. p \in Pids /\ sess[p] = Session
      BY <1>0, <3>1 DEF TreeInv, TableTypes, Session
    <3> QED BY <1>0, <2>1, <3>2 DEF TreeInv, TableTypes
  <2>2. CASE c # q
    <3>1. Occupies(c) /\ parent'[c] = parent[c]
      BY <1>0, <1>4, <2>2 DEF TreeInv, TableTypes, Occupies
    <3>2. parent[c] = Host \/ (parent[c] \in Pids /\ sess[parent[c]] = Session)
      BY <3>1 DEF TreeInv, ParentsInSession
    <3>3. parent[c] \in Pids => parent[c] # q
      BY <1>0, <3>1 DEF TreeInv, ParentsLive, Occupies, Alive
    <3>4. \A n \in Pids \ {q} : sess'[n] = sess[n]
      BY <1>0 DEF TreeInv, TableTypes
    <3> QED BY <3>1, <3>2, <3>3, <3>4
  <2> QED BY <2>1, <2>2
<1>5. ParentsInSession'
  BY <1>4 DEF ParentsInSession
<1>6. ASSUME NEW S \in SUBSET Pids, S # {}, \A c \in S : st'[c] # "free"
      PROVE  \E c \in S : parent'[c] \notin S
  <2> DEFINE R == S \ {q}
  <2>1. \A c \in R : c \in Pids /\ st[c] # "free" /\ parent'[c] = parent[c]
    BY <1>0, <1>6 DEF TreeInv, TableTypes
  <2>2. CASE R = {}
    BY <1>0, <1>6, <2>2 DEF TreeInv, TableTypes
  <2>3. CASE R # {}
    <3>1. PICK c \in R : parent[c] \notin R
      BY <2>1, <2>3 DEF TreeInv, Acyclic
    <3>2. parent[c] # q
      BY <1>0, <2>1, <3>1 DEF TreeInv, ParentsLive, Alive
    <3> QED BY <2>1, <3>1, <3>2
  <2> QED BY <2>2, <2>3
<1>7. Acyclic'
  BY <1>6 DEF Acyclic
<1> QED BY <1>1, <1>3, <1>5, <1>7 DEF TreeInv

LEMMA BirthAhead ==
    ASSUME TreeInv, LeaderGone, NEW q \in Pids, NEW p, BirthOf(q, p)
    PROVE  (Ahead => Ahead') /\ (Vacant => Vacant')
<1>0. /\ st[q] = "free" /\ st' = [st EXCEPT ![q] = "alive"]
      /\ parent' = [parent EXCEPT ![q] = p] /\ bred' = (bred \cup {p}) \cap (Pids \ {q})
      /\ frontier' = frontier
  BY BirthTable DEF scanVars
<1>1. Vacant => Vacant'
  BY BirthOccupies DEF Vacant
<1>2. ASSUME NEW r \in Pids, r \in frontier, Stays(r) PROVE r \in frontier' /\ Stays(r)'
  <2>1. Occupies(r) /\ r # q
    BY <1>2, BirthOccupies DEF Stays
  <2>2. Occupies(r)'
    BY <2>1, BirthOccupies
  <2> QED BY <1>0, <1>2, <2>1, <2>2 DEF Stays, TreeInv, TableTypes
<1>3. ASSUME \A c \in Pids : Occupies(c) => c \in frontier /\ parent[c] = Host
      PROVE  Ahead'
  <2>1. CASE Occupies(q)'
    <3>1. p \in Pids /\ Occupies(p) /\ p # q
      BY <2>1, BirthOccupies
    <3>2. Occupies(p)' /\ p \in frontier' /\ parent'[p] = Host /\ p \in bred'
      BY <1>0, <1>3, <3>1, BirthOccupies DEF TreeInv, TableTypes
    <3> QED BY <3>1, <3>2 DEF Ahead, Stays
  <2>2. CASE ~Occupies(q)'
    <3>1. ASSUME NEW c \in Pids, Occupies(c)' PROVE c \in frontier' /\ parent'[c] = Host
      <4>1. c # q
        BY <2>2, <3>1
      <4>2. Occupies(c)
        BY <3>1, <4>1, BirthOccupies
      <4> QED BY <1>0, <1>3, <4>1, <4>2 DEF TreeInv, TableTypes
    <3> QED BY <3>1 DEF Ahead
  <2> QED BY <2>1, <2>2
<1>4. Ahead => Ahead'
  BY <1>2, <1>3 DEF Ahead
<1> QED BY <1>1, <1>4

\* A process that leaves its session has not forked, so none is its child.
LEMMA DetachKeeps ==
    ASSUME ~LateDetach, TreeInv, NEW p \in Pids, Detach(p)
    PROVE  TreeInv' /\ (Ahead => Ahead') /\ (Vacant => Vacant')
<1>0. /\ Alive(p) /\ p # Leader /\ p \notin bred
      /\ sess' = [sess EXCEPT ![p] = "other"] /\ UNCHANGED <<st, parent, bred, frontier>>
  BY DEF Detach, scanVars
<1>1. \A c \in Pids : Occupies(c)' <=> Occupies(c) /\ c # p
  BY <1>0 DEF TreeInv, TableTypes, Occupies, Session
<1>2. TableTypes' /\ ParentsLive' /\ Acyclic'
  BY <1>0 DEF TreeInv, TableTypes, ParentsLive, Acyclic, Alive
<1>3. ASSUME NEW c \in Pids, Occupies(c)'
      PROVE  parent'[c] = Host \/ (parent'[c] \in Pids /\ sess'[parent'[c]] = Session)
  <2>1. Occupies(c) /\ parent'[c] = parent[c]
    BY <1>0, <1>1, <1>3
  <2>2. parent[c] = Host \/ (parent[c] \in Pids /\ sess[parent[c]] = Session)
    BY <2>1 DEF TreeInv, ParentsInSession
  <2>3. parent[c] \in Pids => parent[c] # p
    BY <1>0, <2>1 DEF TreeInv, ParentsLive, Occupies
  <2> QED BY <1>0, <2>1, <2>2, <2>3 DEF TreeInv, TableTypes
<1>4. TreeInv'
  BY <1>2, <1>3 DEF TreeInv, ParentsInSession
<1>5. Vacant => Vacant'
  BY <1>1 DEF Vacant
<1>6. ASSUME NEW r \in Pids, r \in frontier, Stays(r) PROVE r \in frontier' /\ Stays(r)'
  <2>1. r # p
    BY <1>0, <1>6 DEF Stays, Alive
  <2> QED BY <1>0, <1>1, <1>6, <2>1 DEF Stays
<1>7. Ahead => Ahead'
  BY <1>0, <1>1, <1>6 DEF Ahead
<1> QED BY <1>4, <1>5, <1>7

\* The host adopts the children of a process that ends.
LEMMA DeathKeeps ==
    ASSUME TreeInv, NEW p \in Pids, Alive(p), Dies(p), UNCHANGED <<sess, bred, frontier>>
    PROVE  TreeInv' /\ (LeaderGone /\ Ahead => Ahead') /\ (Vacant => Vacant')
<1>0. /\ st' = [st EXCEPT ![p] = "zombie"] /\ st[p] = "alive"
      /\ parent' = [c \in Pids |-> IF parent[c] = p THEN Host ELSE parent[c]]
      /\ sess' = sess /\ bred' = bred /\ frontier' = frontier /\ Host \notin Pids
  BY InventoryAssumption DEF Dies, Alive, InventoryAssumption
<1>1. \A c \in Pids : (st'[c] # "free" <=> st[c] # "free") /\ (Occupies(c)' <=> Occupies(c))
  BY <1>0 DEF TreeInv, TableTypes, Occupies
<1>2. TableTypes'
  BY <1>0 DEF TreeInv, TableTypes
<1>3. \A c \in Pids : parent'[c] = Host \/ (parent'[c] = parent[c] /\ parent[c] # p)
  BY <1>0
<1>4. ASSUME NEW c \in Pids, st'[c] # "free", parent'[c] \in Pids
      PROVE  st'[parent'[c]] = "alive" /\ parent'[c] \in bred'
  <2>1. parent'[c] = parent[c] /\ parent[c] # p /\ st[c] # "free"
    BY <1>0, <1>1, <1>3, <1>4
  <2>2. st[parent[c]] = "alive" /\ parent[c] \in bred
    BY <1>4, <2>1 DEF TreeInv, ParentsLive, Alive
  <2> QED BY <1>0, <1>4, <2>1, <2>2 DEF TreeInv, TableTypes
<1>5. ParentsLive'
  BY <1>4 DEF ParentsLive, Alive
<1>6. ASSUME NEW c \in Pids, Occupies(c)'
      PROVE  parent'[c] = Host \/ (parent'[c] \in Pids /\ sess'[parent'[c]] = Session)
  BY <1>0, <1>1, <1>3, <1>6 DEF TreeInv, ParentsInSession
<1>7. ASSUME NEW S \in SUBSET Pids, S # {}, \A c \in S : st'[c] # "free"
      PROVE  \E c \in S : parent'[c] \notin S
  <2>1. \A c \in S : st[c] # "free"
    BY <1>1, <1>7
  <2>2. PICK c \in S : parent[c] \notin S
    BY <1>7, <2>1 DEF TreeInv, Acyclic
  <2> QED BY <1>0, <1>3, <2>2
<1>8. TreeInv'
  BY <1>2, <1>5, <1>6, <1>7 DEF TreeInv, ParentsInSession, Acyclic
<1>9. Vacant => Vacant'
  BY <1>1 DEF Vacant
<1>10. ASSUME NEW r \in Pids, r \in frontier, Stays(r) PROVE r \in frontier' /\ Stays(r)'
  <2>1. Occupies(r)' /\ parent'[r] = Host /\ r \in frontier'
    BY <1>0, <1>1, <1>10 DEF Stays
  <2>2. st'[r] = "zombie" \/ r \in bred'
    BY <1>0, <1>10 DEF Stays, TreeInv, TableTypes
  <2> QED BY <2>1, <2>2 DEF Stays
<1>11. ASSUME \A c \in Pids : Occupies(c) => c \in frontier /\ parent[c] = Host PROVE Ahead'
  BY <1>0, <1>1, <1>3, <1>11 DEF Ahead
<1> QED BY <1>8, <1>9, <1>10, <1>11 DEF Ahead

\* A pid is free again when its process, which has ended, is reaped.
LEMMA ReapingKeeps ==
    ASSUME TreeInv, NEW p \in Pids, st[p] = "zombie", Freed(p), UNCHANGED <<parent, sess, bred, frontier>>
    PROVE  TreeInv' /\ (parent[p] # Host /\ Ahead => Ahead') /\ (Vacant => Vacant')
<1>0. st' = [st EXCEPT ![p] = "free"] /\ parent' = parent /\ sess' = sess /\ bred' = bred /\ frontier' = frontier
  BY DEF Freed
<1>1. /\ \A c \in Pids : st'[c] # "free" <=> st[c] # "free" /\ c # p
      /\ \A c \in Pids : Occupies(c)' <=> Occupies(c) /\ c # p
  BY <1>0 DEF TreeInv, TableTypes, Occupies
<1>2. TableTypes'
  BY <1>0 DEF TreeInv, TableTypes
<1>3. ASSUME NEW c \in Pids, st'[c] # "free", parent'[c] \in Pids
      PROVE  st'[parent'[c]] = "alive" /\ parent'[c] \in bred'
  <2>1. st[parent[c]] = "alive" /\ parent[c] \in bred
    BY <1>0, <1>1, <1>3 DEF TreeInv, ParentsLive, Alive
  <2> QED BY <1>0, <1>3, <2>1 DEF TreeInv, TableTypes
<1>4. ParentsInSession' /\ ParentsLive'
  BY <1>0, <1>1, <1>3 DEF TreeInv, ParentsInSession, ParentsLive, Alive
<1>5. ASSUME NEW S \in SUBSET Pids, S # {}, \A c \in S : st'[c] # "free"
      PROVE  \E c \in S : parent'[c] \notin S
  BY <1>0, <1>1, <1>5 DEF TreeInv, Acyclic
<1>6. TreeInv'
  BY <1>2, <1>4, <1>5 DEF TreeInv, Acyclic
<1>7. Vacant => Vacant'
  BY <1>1 DEF Vacant
<1>8. ASSUME parent[p] # Host, NEW r \in Pids, r \in frontier, Stays(r) PROVE r \in frontier' /\ Stays(r)'
  <2>1. r # p
    BY <1>8 DEF Stays
  <2> QED BY <1>0, <1>1, <1>8, <2>1 DEF Stays, TreeInv, TableTypes
<1>9. ASSUME \A c \in Pids : Occupies(c) => c \in frontier /\ parent[c] = Host PROVE Ahead'
  BY <1>0, <1>1, <1>9 DEF Ahead
<1> QED BY <1>6, <1>7, <1>8, <1>9 DEF Ahead

(***************************************************************************)
(* The invariant under these steps, with what the host has of them.        *)
(***************************************************************************)
HostFrame == UNCHANGED <<exited, done, phase, found>>

LEMMA ScanKept ==
    ASSUME InventoryInv, HostFrame, Vacant => Vacant', phase \in {"narrow", "full"} /\ Ahead => Ahead'
    PROVE  ScanInv'
BY DEF HostFrame, InventoryInv, ScanInv

LEMMA BirthInv ==
    ASSUME InventoryInv, NEW q \in Pids, NEW p, BirthOf(q, p) PROVE InventoryInv'
<1>0. /\ st[q] = "free" /\ st' = [st EXCEPT ![q] = "alive"]
      /\ parent' = [parent EXCEPT ![q] = p]
      /\ p \in Pids => Alive(p) /\ sess' = [sess EXCEPT ![q] = sess[p]]
      /\ p \notin Pids => sess' = [sess EXCEPT ![q] = "other"]
      /\ HostFrame /\ UNCHANGED <<reaped, todo, target>>
  BY BirthTable DEF InventoryInv, HostFrame, slotVars, scanVars, reportVars
<1>1. TreeInv'
  BY BirthTree DEF InventoryInv
<1>2. ASSUME LeaderGone PROVE (Ahead => Ahead') /\ (Vacant => Vacant')
  BY <1>2, BirthAhead DEF InventoryInv
<1>3. ~exited => q # Leader /\ phase = "idle"
  BY <1>0 DEF InventoryInv, SlotInv
<1>4. exited => LeaderGone
  BY DEF InventoryInv, SlotInv
<1>5. SlotInv'
  <2>1. CASE q # Leader
    <3>1. st'[Leader] = st[Leader] /\ sess'[Leader] = sess[Leader] /\ parent'[Leader] = parent[Leader]
      BY <1>0, <2>1, LeaderIsPid DEF InventoryInv, TreeInv, TableTypes
    <3> QED BY <1>0, <3>1 DEF InventoryInv, SlotInv, HostFrame, LeaderGone, Alive
  <2>2. CASE q = Leader
    <3>1. exited /\ reaped /\ done /\ Vacant /\ LeaderGone
      BY <1>0, <2>2 DEF InventoryInv, SlotInv, ScanInv
    <3>2. sess'[Leader] # Session
      <4>1. CASE p \in Pids
        <5>1. p # Leader /\ st[p] # "free"
          BY <1>0, <2>2, <4>1 DEF Alive
        <5>2. sess[p] # Session
          BY <3>1, <4>1, <5>1 DEF Vacant, Occupies
        <5> QED BY <1>0, <2>2, <4>1, <5>2 DEF InventoryInv, TreeInv, TableTypes
      <4>2. CASE p \notin Pids
        BY <1>0, <2>2, <4>2 DEF InventoryInv, TreeInv, TableTypes, Session
      <4> QED BY <4>1, <4>2
    <3> QED BY <1>0, <3>1, <3>2 DEF InventoryInv, SlotInv, HostFrame, LeaderGone
  <2> QED BY <2>1, <2>2
<1>6. ScanInv'
  <2>1. CASE exited
    BY <1>0, <1>2, <1>4, <2>1, ScanKept
  <2>2. CASE ~exited
    <3>1. ~done /\ phase = "idle"
      BY <2>2 DEF InventoryInv, SlotInv
    <3> QED BY <1>0, <3>1 DEF ScanInv, HostFrame
  <2> QED BY <2>1, <2>2
<1> QED BY <1>1, <1>5, <1>6 DEF InventoryInv

LEMMA DetachInv ==
    ASSUME ~LateDetach, InventoryInv, NEW p \in Pids, Detach(p) PROVE InventoryInv'
<1>0. /\ p # Leader /\ sess' = [sess EXCEPT ![p] = "other"]
      /\ HostFrame /\ UNCHANGED <<st, parent, reaped, todo, target>>
  BY DEF Detach, HostFrame, slotVars, scanVars, reportVars
<1>1. TreeInv' /\ (Ahead => Ahead') /\ (Vacant => Vacant')
  BY DetachKeeps DEF InventoryInv
<1>2. sess'[Leader] = sess[Leader]
  BY <1>0, LeaderIsPid DEF InventoryInv, TreeInv, TableTypes
<1>3. SlotInv'
  BY <1>0, <1>2 DEF InventoryInv, SlotInv, HostFrame, LeaderGone, Alive
<1> QED BY <1>0, <1>1, <1>3, ScanKept DEF InventoryInv

LEMMA DeathInv ==
    ASSUME InventoryInv, NEW p \in Pids, Alive(p), Dies(p), HostFrame,
           UNCHANGED <<sess, bred, frontier, reaped, todo>>, target' \in {target, NoPid}
    PROVE  InventoryInv'
<1>1. TreeInv' /\ (LeaderGone /\ Ahead => Ahead') /\ (Vacant => Vacant')
  BY DeathKeeps DEF InventoryInv
<1>2. /\ st'[Leader] = IF p = Leader THEN "zombie" ELSE st[Leader]
      /\ parent'[Leader] = IF parent[Leader] = p THEN Host ELSE parent[Leader]
  BY LeaderIsPid DEF Dies, InventoryInv, TreeInv, TableTypes
<1>3. p = Leader => st[Leader] = "alive"
  BY DEF Alive
<1>4. SlotInv'
  <2>1. target' \in (Pids \ {Leader}) \cup {NoPid}
    BY DEF InventoryInv, SlotInv
  <2> QED BY <1>2, <1>3, <2>1 DEF InventoryInv, SlotInv, HostFrame, LeaderGone, Alive
<1>5. phase # "idle" => LeaderGone
  BY DEF InventoryInv, SlotInv
<1> QED BY <1>1, <1>4, <1>5, ScanKept DEF InventoryInv

\* The host reaps only between scans, and the leader last.
LEMMA ReapInv ==
    ASSUME InventoryInv, NEW p \in Pids, st[p] = "zombie", Freed(p), HostFrame,
           UNCHANGED <<parent, sess, bred, frontier, target>>, todo' \subseteq todo,
           reaped => reaped', reaped' => exited /\ done, p = Leader => reaped',
           parent[p] = Host => phase = "idle"
    PROVE  InventoryInv'
<1>1. TreeInv' /\ (parent[p] # Host /\ Ahead => Ahead') /\ (Vacant => Vacant')
  BY ReapingKeeps DEF InventoryInv
<1>2. st'[Leader] = IF p = Leader THEN "free" ELSE st[Leader]
  BY LeaderIsPid DEF Freed, InventoryInv, TreeInv, TableTypes
<1>3. SlotInv'
  BY <1>2 DEF InventoryInv, SlotInv, HostFrame, LeaderGone, Alive
<1> QED BY <1>1, <1>3, ScanKept DEF InventoryInv

\* Steps of the host that leave the table alone.
LEMMA StillInv ==
    ASSUME InventoryInv, UNCHANGED <<st, parent, sess, bred>>, SlotInv', ScanInv'
    PROVE  InventoryInv'
<1>1. TreeInv'
  BY DEF InventoryInv, TreeInv, TableTypes, ParentsLive, ParentsInSession, Acyclic, Alive, Occupies
<1> QED BY <1>1 DEF InventoryInv

\* Where the table stays as it is.
TableStays == UNCHANGED <<st, parent, sess, bred>>

LEMMA SameTable ==
    ASSUME TableStays
    PROVE  /\ Vacant' <=> Vacant
           /\ LeaderGone' <=> LeaderGone
           /\ \A c \in Pids : (Occupies(c)' <=> Occupies(c)) /\ (Stays(c)' <=> Stays(c))
BY DEF TableStays, Vacant, Occupies, Stays, LeaderGone, Alive

LEMMA ReadHostInv == ASSUME InventoryInv, ReadHost PROVE InventoryInv'
<1>0. /\ phase = "anchored" /\ phase' = "narrow" /\ frontier' = frontier \cup Children(Host)
      /\ TableStays /\ UNCHANGED <<found, exited, done, reaped, todo, target>>
  BY DEF ReadHost, TableStays, tableVars, slotVars, reportVars
<1>1. LeaderGone /\ ~done
  BY <1>0 DEF InventoryInv, SlotInv
<1>2. \A c \in Pids : Occupies(c) /\ parent[c] = Host => c \in frontier'
  BY <1>0 DEF Children, Occupies
<1>3. \/ \E r \in Pids : r \in frontier' /\ Stays(r)
      \/ \A c \in Pids : Occupies(c) => c \in frontier' /\ parent[c] = Host
  BY <1>1, <1>2, StartsAhead DEF InventoryInv
<1>4. Ahead'
  BY <1>0, <1>3, SameTable DEF Ahead, TableStays
<1>5. ScanInv'
  BY <1>0, <1>1, <1>4 DEF ScanInv
<1>6. SlotInv'
  BY <1>0, SameTable DEF InventoryInv, SlotInv, TableStays
<1> QED BY <1>0, <1>5, <1>6, StillInv DEF TableStays

LEMMA FallBackInv == ASSUME InventoryInv, FallBack PROVE InventoryInv'
<1>0. /\ phase # "idle" /\ phase' = "full" /\ frontier' = Pids /\ found' = {}
      /\ TableStays /\ UNCHANGED <<exited, done, reaped, todo, target>>
  BY DEF FallBack, TableStays, tableVars, slotVars, reportVars
<1>1. LeaderGone /\ ~done
  BY <1>0 DEF InventoryInv, SlotInv
<1>2. \/ \E r \in Pids : r \in frontier' /\ Stays(r)
      \/ \A c \in Pids : Occupies(c) => c \in frontier' /\ parent[c] = Host
  BY <1>0, <1>1, StartsAhead DEF InventoryInv
<1>3. Ahead'
  BY <1>0, <1>2, SameTable DEF Ahead, TableStays
<1>4. ScanInv'
  BY <1>0, <1>1, <1>3 DEF ScanInv
<1>5. SlotInv'
  BY <1>0, SameTable DEF InventoryInv, SlotInv, TableStays
<1> QED BY <1>0, <1>4, <1>5, StillInv DEF TableStays

\* Who is looked at and not counted was not in the session.
LEMMA LookInv ==
    ASSUME InventoryInv, NEW p, phase \in {"narrow", "full"}, frontier \ {p} \subseteq frontier',
           found' = found \cup Counted(p), TableStays,
           UNCHANGED <<phase, exited, done, reaped, todo, target>>
    PROVE  InventoryInv'
<1>1. ~done
  BY DEF InventoryInv, SlotInv
<1>2. ASSUME found' = {} PROVE Ahead'
  <2>1. ~Occupies(p) /\ found = {}
    BY <1>2 DEF Counted
  <2>2. Ahead
    BY <2>1 DEF InventoryInv, ScanInv
  <2>3. \A c \in Pids : Occupies(c) /\ c \in frontier => c \in frontier'
    BY <2>1
  <2>4. parent' = parent
    BY DEF TableStays
  <2> QED BY <2>2, <2>3, <2>4, SameTable DEF Ahead, Stays
<1>3. ScanInv'
  BY <1>1, <1>2 DEF ScanInv
<1>4. \A e \in found' : e[1] # Leader
  BY DEF InventoryInv, SlotInv, Counted, Occupies
<1>5. SlotInv'
  BY <1>4, SameTable DEF InventoryInv, SlotInv, TableStays
<1> QED BY <1>3, <1>5, StillInv DEF TableStays

LEMMA WalkInv == ASSUME InventoryInv, WalkStep \/ FallBack \/ Abandon PROVE InventoryInv'
<1>1. CASE Schedule
  <2>0. /\ exited /\ ~done /\ todo = {} /\ target = NoPid /\ phase' = "anchored" /\ found' = {}
        /\ TableStays /\ UNCHANGED <<exited, done, reaped, todo, target>>
    BY <1>1 DEF Schedule, TableStays, tableVars, slotVars, reportVars
  <2>1. ScanInv'
    BY <2>0 DEF ScanInv
  <2>2. SlotInv'
    BY <2>0, SameTable DEF InventoryInv, SlotInv, TableStays
  <2> QED BY <2>0, <2>1, <2>2, StillInv DEF TableStays
<1>2. CASE Walked \/ ScannedAll
  <2>0. /\ phase \in {"narrow", "full"} /\ frontier = {} /\ phase' = "reported"
        /\ TableStays /\ UNCHANGED <<found, exited, done, reaped, todo, target>>
    BY <1>2 DEF Walked, ScannedAll, TableStays, tableVars, slotVars, reportVars
  <2>1. found = {} => Vacant
    BY <2>0 DEF InventoryInv, ScanInv, Ahead, Vacant
  <2>2. ScanInv'
    BY <2>0, <2>1, SameTable DEF InventoryInv, ScanInv
  <2>3. SlotInv'
    BY <2>0, SameTable DEF InventoryInv, SlotInv, TableStays
  <2> QED BY <2>0, <2>2, <2>3, StillInv DEF TableStays
<1>3. CASE Abandon
  <2>0. /\ phase = "full" /\ phase' = "failed"
        /\ TableStays /\ UNCHANGED <<found, exited, done, reaped, todo, target>>
    BY <1>3 DEF Abandon, TableStays, tableVars, slotVars, reportVars
  <2>1. ScanInv'
    BY <2>0, SameTable DEF InventoryInv, ScanInv
  <2>2. SlotInv'
    BY <2>0, SameTable DEF InventoryInv, SlotInv, TableStays
  <2> QED BY <2>0, <2>1, <2>2, StillInv DEF TableStays
<1>4. ASSUME NEW p \in Pids, Visit(p) PROVE InventoryInv'
  <2>1. /\ phase = "narrow" /\ frontier \ {p} \subseteq frontier' /\ found' = found \cup Counted(p)
        /\ TableStays /\ UNCHANGED <<phase, exited, done, reaped, todo, target>>
    BY <1>4 DEF Visit, TableStays, tableVars, slotVars, reportVars
  <2> QED BY <2>1, LookInv
<1>5. CASE VisitEntry
  <2>1. \E p : /\ phase = "full" /\ frontier \ {p} \subseteq frontier' /\ found' = found \cup Counted(p)
               /\ TableStays /\ UNCHANGED <<phase, exited, done, reaped, todo, target>>
    BY <1>5 DEF VisitEntry, TableStays, tableVars, slotVars, reportVars
  <2> QED BY <2>1, LookInv
<1> QED BY <1>1, <1>2, <1>3, <1>4, <1>5, ReadHostInv, FallBackInv DEF WalkStep

LEMMA ActorInv == ASSUME InventoryInv, ActorStep PROVE InventoryInv'
<1>1. CASE ObserveLeaderExit
  <2>0. /\ st[Leader] = "zombie" /\ exited' = TRUE
        /\ TableStays /\ UNCHANGED <<done, reaped, phase, frontier, found, todo, target>>
    BY <1>1 DEF ObserveLeaderExit, TableStays, tableVars, scanVars, reportVars
  <2>1. LeaderGone
    BY <2>0 DEF LeaderGone, Alive
  <2>2. SlotInv'
    BY <2>0, <2>1, SameTable DEF InventoryInv, SlotInv, TableStays
  <2>3. Ahead' <=> Ahead
    BY <2>0, SameTable DEF Ahead, TableStays
  <2>4. ScanInv'
    BY <2>0, <2>3, SameTable DEF InventoryInv, ScanInv
  <2> QED BY <2>0, <2>2, <2>4, StillInv DEF TableStays
<1>2. CASE TakeReport
  <2>0. /\ phase \in {"reported", "failed"} /\ phase' = "idle"
        /\ todo' = {e[1] : e \in {x \in found : x[2] = Host}}
        /\ done' = (phase = "reported" /\ found = {})
        /\ TableStays /\ UNCHANGED <<found, target, exited, reaped>>
    BY <1>2 DEF TakeReport, TableStays, tableVars
  <2>1. exited /\ ~done /\ ~reaped
    BY <2>0 DEF InventoryInv, SlotInv
  <2>2. Leader \notin todo'
    BY <2>0 DEF InventoryInv, SlotInv
  <2>3. done' => Vacant
    BY <2>0 DEF InventoryInv, ScanInv
  <2>4. SlotInv'
    BY <2>0, <2>1, <2>2, SameTable DEF InventoryInv, SlotInv, TableStays
  <2>5. ScanInv'
    BY <2>0, <2>3, SameTable DEF ScanInv
  <2> QED BY <2>0, <2>4, <2>5, StillInv DEF TableStays
<1>3. ASSUME NEW p \in Pids, VerifyFails(p) \/ Verify(p) PROVE InventoryInv'
  <2>0. /\ p \in todo /\ todo' = todo \ {p} /\ target' \in {p, target}
        /\ TableStays /\ UNCHANGED <<exited, done, reaped, phase, frontier, found>>
    BY <1>3 DEF VerifyFails, Verify, TableStays, tableVars, slotVars, scanVars
  <2>1. phase = "idle"
    BY <2>0 DEF InventoryInv, SlotInv
  <2>2. SlotInv'
    BY <2>0, <2>1, SameTable DEF InventoryInv, SlotInv, TableStays
  <2>3. ScanInv'
    BY <2>0, <2>1, SameTable DEF InventoryInv, ScanInv
  <2> QED BY <2>0, <2>2, <2>3, StillInv DEF TableStays
<1>4. ASSUME NEW p \in Pids, ReapChild(p) PROVE InventoryInv'
  <2>1. /\ st[p] = "zombie" /\ Freed(p) /\ HostFrame /\ p \in todo /\ todo' \subseteq todo
        /\ UNCHANGED <<parent, sess, bred, frontier, target, reaped>>
    BY <1>4 DEF ReapChild, HostFrame, scanVars
  <2>2. p # Leader /\ phase = "idle" /\ (reaped => exited /\ done)
    BY <2>1 DEF InventoryInv, SlotInv
  <2> QED BY <2>1, <2>2, ReapInv
<1>5. CASE Finish
  <2>1. /\ Freed(Leader) /\ HostFrame /\ exited /\ ~reaped /\ done /\ reaped' = TRUE
        /\ UNCHANGED <<parent, sess, bred, frontier, target, todo>>
    BY <1>5 DEF Finish, HostFrame, scanVars, reportVars
  <2>2. st[Leader] = "zombie" /\ phase = "idle"
    BY <2>1 DEF InventoryInv, SlotInv
  <2> QED BY <2>1, <2>2, LeaderIsPid, ReapInv
<1>6. CASE Signal
  <2>0. /\ target # NoPid /\ target' = NoPid /\ Struck(target, request) /\ HostFrame
        /\ UNCHANGED <<sess, bred, frontier, reaped, todo>>
    BY <1>6 DEF Signal, HostFrame, scanVars
  <2>1. CASE UNCHANGED <<st, parent>>
    <3>1. TableStays
      BY <2>0, <2>1 DEF TableStays
    <3>2. phase = "idle"
      BY <2>0 DEF InventoryInv, SlotInv
    <3>3. SlotInv'
      BY <2>0, <3>1, <3>2, SameTable DEF InventoryInv, SlotInv, TableStays, HostFrame
    <3>4. ScanInv'
      BY <2>0, <3>1, <3>2, SameTable DEF InventoryInv, ScanInv, HostFrame
    <3> QED BY <3>1, <3>3, <3>4, StillInv DEF TableStays
  <2>2. CASE Alive(target) /\ Dies(target)
    <3>1. target \in Pids
      BY <2>0 DEF InventoryInv, SlotInv
    <3> QED BY <2>0, <2>2, <3>1, DeathInv
  <2> QED BY <2>0, <2>1, <2>2 DEF Struck
<1> QED BY <1>1, <1>2, <1>3, <1>4, <1>5, <1>6 DEF ActorStep

LEMMA CloseInv == ASSUME InventoryInv, NEW kind, RequestClose(kind) PROVE InventoryInv'
<1>0. /\ IF exited THEN UNCHANGED <<st, parent>> ELSE Struck(Leader, Forced(kind))
      /\ HostFrame /\ UNCHANGED <<sess, bred, frontier, reaped, todo, target>>
  BY DEF RequestClose, HostFrame, scanVars, reportVars
<1>1. CASE UNCHANGED <<st, parent>>
  <2>1. TableStays
    BY <1>0, <1>1 DEF TableStays
  <2>2. SlotInv'
    BY <1>0, <2>1, SameTable DEF InventoryInv, SlotInv, TableStays, HostFrame
  <2>3. (Vacant => Vacant') /\ (Ahead => Ahead')
    BY <1>0, <2>1, SameTable DEF Ahead, TableStays
  <2>4. ScanInv'
    BY <1>0, <2>3, ScanKept
  <2> QED BY <2>1, <2>2, <2>4, StillInv DEF TableStays
<1>2. CASE Alive(Leader) /\ Dies(Leader)
  BY <1>0, <1>2, LeaderIsPid, DeathInv
<1> QED BY <1>0, <1>1, <1>2 DEF Struck

LEMMA InventoryInvStep ==
    ASSUME ~LateDetach, InventoryInv, [InventoryNext]_inventoryVars PROVE InventoryInv'
<1>1. ASSUME NEW p \in Pids, NEW q \in Pids, Fork(p, q) PROVE InventoryInv'
  <2>1. BirthOf(q, p)
    BY <1>1 DEF BirthOf
  <2> QED BY <2>1, BirthInv
<1>2. ASSUME NEW q \in Pids, Stranger(q) PROVE InventoryInv'
  <2>1. BirthOf(q, InitProcess)
    BY <1>2 DEF BirthOf
  <2> QED BY <2>1, BirthInv
<1>3. ASSUME NEW p \in Pids, Detach(p) PROVE InventoryInv'
  BY <1>3, DetachInv
<1>4. ASSUME NEW p \in Pids, Exit(p) PROVE InventoryInv'
  <2>1. /\ Alive(p) /\ Dies(p) /\ HostFrame
        /\ UNCHANGED <<sess, bred, frontier, reaped, todo, target>>
    BY <1>4 DEF Exit, HostFrame, slotVars, scanVars, reportVars
  <2> QED BY <2>1, DeathInv
<1>5. ASSUME NEW p \in Pids, ReapedByParent(p) PROVE InventoryInv'
  <2>1. /\ st[p] = "zombie" /\ Freed(p) /\ HostFrame
        /\ UNCHANGED <<parent, sess, bred, frontier, reaped, todo, target>>
    BY <1>5 DEF ReapedByParent, HostFrame, slotVars, scanVars, reportVars
  <2>2. parent[p] # Host
    BY <1>5, InventoryAssumption DEF InventoryAssumption, ReapedByParent, AutoReaped
  <2>3. (p = Leader => reaped) /\ (reaped => exited /\ done)
    BY <2>2 DEF InventoryInv, SlotInv
  <2> QED BY <2>1, <2>2, <2>3, ReapInv
<1>6. CASE UNCHANGED inventoryVars
  <2>1. TableStays /\ HostFrame /\ UNCHANGED <<frontier, reaped, todo, target>>
    BY <1>6 DEF inventoryVars, tableVars, slotVars, scanVars, reportVars, TableStays, HostFrame
  <2>2. SlotInv'
    BY <2>1, SameTable DEF InventoryInv, SlotInv, TableStays, HostFrame
  <2>3. (Vacant => Vacant') /\ (Ahead => Ahead')
    BY <2>1, SameTable DEF Ahead, TableStays
  <2>4. ScanInv'
    BY <2>1, <2>3, ScanKept
  <2> QED BY <2>1, <2>2, <2>4, StillInv DEF TableStays
<1> QED BY <1>1, <1>2, <1>3, <1>4, <1>5, <1>6, CloseInv, WalkInv, ActorInv
        DEF InventoryNext, CompleteScans

(***************************************************************************)
(* An inventory that confirms the end of a session is right, whatever the  *)
(* processes do while it reads /proc, and whether it walks the tree or     *)
(* falls back on all pids: as long as a process leaves the session before  *)
(* it forks (children.rs:90-93, actor.rs:1405-1407).                       *)
(***************************************************************************)
THEOREM SessionAlwaysEmpty == ASSUME ~LateDetach PROVE InventorySpec => []EmptySession
<1>1. InventoryInv => EmptySession
  BY DEF InventoryInv, SlotInv, ScanInv, Vacant, EmptySession
<1>2. InventoryInv /\ [InventoryNext]_inventoryVars => InventoryInv'
  BY InventoryInvStep
<1> QED BY <1>1, <1>2, InventoryInvInit, PTL DEF InventorySpec

\* What the actor is about to signal is a child of the host that only the host
\* can reap, so nobody else has its pid.
OwnInv ==
    /\ TableTypes /\ own \in [Pids -> BOOLEAN]
    /\ \A c \in Pids : Occupies(c) => own[c]
    /\ \A e \in found : e[1] # Leader
    /\ Leader \notin todo /\ target \in (Pids \ {Leader}) \cup {NoPid}
    /\ target # NoPid => own[target] /\ st[target] # "free" /\ parent[target] = Host

LEMMA OwnInvInit == InventoryInit => OwnInv
BY LeaderIsPid DEF InventoryInit, OwnInv, TableTypes, Occupies, NoPid, Leader

\* What a step of the table may do to a process that is there.
TableMoves ==
    /\ TableTypes' /\ own' \in [Pids -> BOOLEAN]
    /\ \A c \in Pids : Occupies(c)' => own'[c]
    /\ \A c \in Pids \ {Leader} :
          st[c] # "free" /\ parent[c] = Host =>
             (target = c => st'[c] # "free") /\ parent'[c] = Host /\ own'[c] = own[c]

LEMMA OwnKept ==
    ASSUME OwnInv, TableMoves, UNCHANGED found, todo' \subseteq todo, target' \in {target, NoPid}
    PROVE  OwnInv'
<1>1. target' # NoPid => target' = target /\ target \in Pids \ {Leader}
  BY DEF OwnInv
<1>2. target' # NoPid => own'[target'] /\ st'[target'] # "free" /\ parent'[target'] = Host
  BY <1>1 DEF OwnInv, TableMoves
<1>3. target' \in (Pids \ {Leader}) \cup {NoPid}
  BY <1>1
<1> QED BY <1>2, <1>3 DEF OwnInv, TableMoves

LEMMA BornMoves ==
    ASSUME OwnInv, NEW q \in Pids, NEW p, NEW s, NEW ours, Born(q, p, s, ours),
           \/ p \in Pids /\ s = sess[p] /\ ours = own[p] /\ own[p]
           \/ p = InitProcess /\ s = "other" /\ ours = FALSE
    PROVE  TableMoves
<1>1. /\ st[q] = "free" /\ st' = [st EXCEPT ![q] = "alive"] /\ parent' = [parent EXCEPT ![q] = p]
      /\ sess' = [sess EXCEPT ![q] = s] /\ own' = [own EXCEPT ![q] = ours]
  BY DEF Born
<1>2. TableTypes' /\ own' \in [Pids -> BOOLEAN]
  BY <1>1 DEF OwnInv, TableTypes
<1>3. ASSUME NEW c \in Pids, Occupies(c)' PROVE own'[c]
  <2>1. CASE c = q
    <3>1. sess'[q] = s /\ own'[q] = ours
      BY <1>1 DEF OwnInv, TableTypes
    <3> QED BY <1>3, <2>1, <3>1 DEF Occupies, Session
  <2>2. CASE c # q
    BY <1>1, <1>3, <2>2 DEF OwnInv, TableTypes, Occupies
  <2> QED BY <2>1, <2>2
<1> QED BY <1>1, <1>2, <1>3 DEF TableMoves, OwnInv, TableTypes

LEMMA DiesMoves ==
    ASSUME OwnInv, NEW p \in Pids, Alive(p), Dies(p), UNCHANGED <<sess, own>> PROVE TableMoves
BY DEF OwnInv, TableMoves, TableTypes, Alive, Dies, Occupies

LEMMA FreedMoves ==
    ASSUME OwnInv, NEW p \in Pids, Freed(p), UNCHANGED <<parent, sess, own>>,
           target = p => parent[p] # Host
    PROVE  TableMoves
BY DEF OwnInv, TableMoves, TableTypes, Freed, Occupies

LEMMA StillMoves == ASSUME OwnInv, UNCHANGED <<st, parent, sess, own>> PROVE TableMoves
BY DEF OwnInv, TableMoves, TableTypes, Occupies

LEMMA OwnInvStep == ASSUME OwnInv, [InventoryNext]_inventoryVars PROVE OwnInv'
<1> DEFINE Quiet == UNCHANGED found /\ todo' \subseteq todo /\ target' \in {target, NoPid}
<1>1. ASSUME NEW p \in Pids, NEW q \in Pids, Fork(p, q) PROVE OwnInv'
  <2>1. TableMoves
    BY <1>1, BornMoves DEF Fork
  <2> QED BY <1>1, <2>1, OwnKept DEF Fork, Born, scanVars, reportVars
<1>2. ASSUME NEW q \in Pids, Stranger(q) PROVE OwnInv'
  <2>1. TableMoves
    BY <1>2, BornMoves DEF Stranger
  <2> QED BY <1>2, <2>1, OwnKept DEF Stranger, Born, scanVars, reportVars
<1>3. ASSUME NEW p \in Pids, Detach(p) PROVE OwnInv'
  <2>1. TableMoves
    BY <1>3 DEF Detach, OwnInv, TableMoves, TableTypes, Occupies, Session
  <2> QED BY <1>3, <2>1, OwnKept DEF Detach, scanVars, reportVars
<1>4. ASSUME NEW p \in Pids, Exit(p) PROVE OwnInv'
  BY <1>4, DiesMoves, OwnKept DEF Exit, scanVars, reportVars
<1>5. ASSUME NEW p \in Pids, ReapedByParent(p) PROVE OwnInv'
  <2>1. parent[p] # Host
    BY <1>5, InventoryAssumption DEF InventoryAssumption, ReapedByParent, AutoReaped
  <2> QED BY <1>5, <2>1, FreedMoves, OwnKept DEF ReapedByParent, scanVars, reportVars
<1>6. ASSUME NEW kind, RequestClose(kind) PROVE OwnInv'
  <2>1. TableMoves
    BY <1>6, LeaderIsPid, DiesMoves, StillMoves DEF RequestClose, Struck
  <2> QED BY <1>6, <2>1, OwnKept DEF RequestClose, scanVars, reportVars
<1>7. CASE WalkStep \/ FallBack \/ Abandon
  <2>1. UNCHANGED <<tableVars, todo, target>>
    BY <1>7 DEF WalkStep, FallBack, Abandon, Schedule, ReadHost, Walked, VisitEntry, ScannedAll, Visit,
               tableVars, reportVars
  <2>2. TableMoves
    BY <2>1, StillMoves DEF tableVars
  <2>3. \A e \in found' : e[1] # Leader
    <3>1. found' \in {found, {}} \/ \E p : found' = found \cup Counted(p)
      BY <1>7 DEF WalkStep, FallBack, Abandon, Schedule, ReadHost, Walked, VisitEntry, ScannedAll, Visit
    <3>2. \A p : \A e \in Counted(p) : e[1] # Leader
      BY DEF Counted, Occupies
    <3> QED BY <3>1, <3>2 DEF OwnInv
  <2> QED BY <2>1, <2>2, <2>3 DEF OwnInv, TableMoves, tableVars
<1>8. CASE ObserveLeaderExit
  BY <1>8, StillMoves, OwnKept DEF ObserveLeaderExit, tableVars, scanVars, reportVars
<1>9. CASE TakeReport
  <2>1. TableMoves /\ UNCHANGED <<tableVars, found, target>>
    BY <1>9, StillMoves DEF TakeReport, tableVars
  <2>2. Leader \notin todo'
    BY <1>9 DEF TakeReport, OwnInv
  <2> QED BY <2>1, <2>2 DEF OwnInv, TableMoves, tableVars
<1>10. ASSUME NEW p \in Pids, VerifyFails(p) \/ ReapChild(p) PROVE OwnInv'
  <2>1. TableMoves
    <3>1. CASE VerifyFails(p)
      BY <3>1, StillMoves DEF VerifyFails, tableVars
    <3>2. CASE ReapChild(p)
      <4>1. target # p
        BY <3>2 DEF ReapChild, NoPid, Pids
      <4> QED BY <3>2, <4>1, FreedMoves DEF ReapChild
    <3> QED BY <1>10, <3>1, <3>2
  <2> QED BY <1>10, <2>1, OwnKept DEF VerifyFails, ReapChild, scanVars
<1>11. ASSUME NEW p \in Pids, Verify(p) PROVE OwnInv'
  <2>1. p \in todo /\ todo' = todo \ {p} /\ target' \in {p, NoPid} /\ UNCHANGED <<tableVars, found>>
    BY <1>11 DEF Verify, scanVars
  <2>2. st[p] # "free" /\ parent[p] = Host /\ p # Leader /\ own[p]
    BY <1>11 DEF Verify, IsOurs, OwnInv, Occupies
  <2>3. TableMoves
    BY <2>1, StillMoves DEF tableVars
  <2> QED BY <2>1, <2>2, <2>3 DEF OwnInv, TableMoves, tableVars
<1>12. CASE Signal
  <2>1. /\ target # NoPid /\ Struck(target, request) /\ target' = NoPid
        /\ UNCHANGED <<sess, own, found, todo>>
    BY <1>12 DEF Signal, scanVars
  <2>2. target \in Pids
    BY <2>1 DEF OwnInv
  <2>3. TableMoves
    BY <2>1, <2>2, DiesMoves, StillMoves DEF Struck
  <2> QED BY <2>1, <2>3, OwnKept
<1>13. CASE Finish
  <2>1. Freed(Leader) /\ UNCHANGED <<parent, sess, own, found, todo, target>> /\ target # Leader
    BY <1>13, LeaderIsPid DEF Finish, scanVars, reportVars, OwnInv, NoPid, Leader
  <2> QED BY <2>1, LeaderIsPid, FreedMoves, OwnKept
<1>14. CASE UNCHANGED inventoryVars
  BY <1>14, StillMoves, OwnKept DEF inventoryVars, tableVars, scanVars, reportVars
<1> QED BY <1>1, <1>2, <1>3, <1>4, <1>5, <1>6, <1>7, <1>8, <1>9, <1>10, <1>11, <1>12, <1>13, <1>14
        DEF InventoryNext, CompleteScans, ActorStep

SignalsInv == signals = [p \in Pids |-> signals[p]]

\* Only Signal sets a mark, and only for its target; a mark is removed with
\* the process.
LEMMA SignalsStep ==
    ASSUME SignalsInv, [InventoryNext]_inventoryVars
    PROVE  /\ SignalsInv'
           /\ \A p \in Pids : signals'[p] \in {"none", signals[p]} \/ (target = p /\ target # NoPid)
<1> SUFFICES ASSUME \/ signals' = signals
                    \/ \E p \in Pids : signals' = Forget(p)
                    \/ target # NoPid /\ signals' = [signals EXCEPT ![target] = request]
             PROVE  /\ SignalsInv'
                    /\ \A p \in Pids : signals'[p] \in {"none", signals[p]} \/ (target = p /\ target # NoPid)
  BY DEF InventoryNext, CompleteScans, ActorStep, WalkStep, Fork, Stranger, Born, Detach, Exit,
         ReapedByParent, RequestClose, Schedule, ReadHost, Walked, VisitEntry, ScannedAll, Visit, FallBack,
         Abandon, ObserveLeaderExit, TakeReport, VerifyFails, ReapChild, Verify, Signal, Finish,
         inventoryVars, slotVars
<1> QED BY DEF SignalsInv, Forget

(***************************************************************************)
(* A signal hits only a process that was born into this terminal, whatever *)
(* pids are reused between the scan and the signal, also where processes   *)
(* leave the session late: only the host could give away the pid of what   *)
(* verify_child confirmed, and it signals first (children.rs:258-259).     *)
(***************************************************************************)
THEOREM OnlyOwnAlwaysSignalled == InventorySpec => OnlyOwnProcesses
<1> DEFINE Inv == OwnInv /\ SignalsInv
           Own == signals' # signals =>
                    \A p \in Pids : signals'[p] \notin {"none", signals[p]} => own[p]
<1>1. InventoryInit => Inv
  BY OwnInvInit DEF InventoryInit, SignalsInv
<1>2. Inv /\ [InventoryNext]_inventoryVars => Inv'
  BY OwnInvStep, SignalsStep
<1>3. Inv /\ [InventoryNext]_inventoryVars => [Own]_inventoryVars
  BY SignalsStep DEF OwnInv
<1>4. [][Own]_inventoryVars => OnlyOwnProcesses
  BY DEF OnlyOwnProcesses
<1> HIDE DEF Inv, Own
<1> QED BY <1>1, <1>2, <1>3, <1>4, PTL DEF InventorySpec

-----------------------------------------------------------------------------
(***************************************************************************)
(* InputUnderAttachment and ReopenSafety, for every number of terminals,   *)
(* clients and sessions.  An input is typed only where its sender is the   *)
(* owner in its epoch; that this is the attachment it was sent under needs *)
(* that a live session's epoch counts every change of hands (SlotSound),   *)
(* and that a session is not live any more when a restart resets it.  What *)
(* lives stays live on disk because every save writes all slots, and the   *)
(* slot of a shell is live until the shell is gone (ShellSound).  And a    *)
(* terminal that was opened is not opened again because a key is never     *)
(* dropped, from the slots or from the tombstones (KeysKept).              *)
(***************************************************************************)

Seen == [session : Nat, epoch : Nat, era : Nat]
BatchType ==
    [state : {"none", "running", "paused", "cancelled", "complete"},
     remaining : Seq(KeySet), waiting : Sessions \cup {None}]

TerminalsTypeOK ==
    /\ slot \in [Tracked -> Slot]
    /\ ledger \in [DOMAIN ledger -> [key : KeySet, state : Live \cup Ended]]
    /\ next \in Nat \ {0}
    /\ up \in BOOLEAN /\ quiescing \in BOOLEAN /\ launchDead \in BOOLEAN
    /\ stage \in [Sessions -> {"none", "queued", "refused", "spawned"}]
    /\ process \in [Sessions -> {"none", "alive", "exited", "gone"}]
    /\ opened \in [DOMAIN opened -> [key : KeySet, reopen : BOOLEAN]]
    /\ batch \in BatchType
    /\ known \in [Viewers -> Seen]
    /\ inputs \subseteq [client : Viewers, seen : Seen]
    /\ era \in [Sessions -> Nat]

\* A new session is not known anywhere.
Fresh ==
    /\ \A s \in Tracked \cup DOMAIN ledger \cup DOMAIN opened \cup bootstrapped :
          s \in Sessions /\ s < next
    /\ \A s \in Sessions : s >= next => stage[s] = "none" /\ process[s] = "none" /\ era[s] = 0

SlotSound(s) ==
    /\ slot[s].runtime => IsLive(s) /\ ~slot[s].preparing
    /\ IsLive(s) => slot[s].epoch = era[s]
    /\ s \in bootstrapped => slot[s].state # "preparing"

\* A shell that is being prepared, or is not gone, has its slot.
ShellSound(s) ==
    /\ stage[s] # "none" => s \in Tracked /\ slot[s].preparing /\ IsLive(s)
    /\ stage[s] \in {"queued", "refused"} => process[s] = "none"
    /\ process[s] \in {"alive", "exited"} =>
          s \in Tracked /\ (stage[s] = "spawned" \/ slot[s].runtime)

Lives(s) == stage[s] # "none" \/ process[s] \in {"alive", "exited"}
RecordSound(s) ==
    /\ Lives(s) => s \in DOMAIN ledger /\ ledger[s].state \in Live
    /\ s \in bootstrapped /\ s \in DOMAIN ledger => ledger[s].state # "preparing"

KeysKept ==
    \A s \in DOMAIN opened :
        /\ up => \E t \in Tracked : slot[t].key = opened[s].key
        /\ \E t \in DOMAIN ledger : ledger[t].key = opened[s].key

\* A client has learnt the epoch and the attachment together.
SeenSound ==
    /\ \A c \in Viewers : known[c].epoch = known[c].era
    /\ \A m \in inputs : m.seen.epoch = m.seen.era

TerminalsInv ==
    /\ TerminalsTypeOK /\ Fresh /\ KeysKept /\ SeenSound
    /\ NeverSilentlyReopened /\ InputUnderAttachment
    /\ \A s \in Tracked : SlotSound(s)
    /\ \A s \in Sessions : ShellSound(s) /\ RecordSound(s)
    /\ ~up => Tracked = {}

USE TerminalsAssumption

LEMMA TerminalsInvInit == TerminalsInit => TerminalsInv
<1> SUFFICES ASSUME TerminalsInit PROVE TerminalsInv
  OBVIOUS
<1>1. /\ slot = <<>> /\ ledger = <<>> /\ opened = <<>>
      /\ Tracked = {} /\ DOMAIN ledger = {} /\ DOMAIN opened = {}
  BY DEF TerminalsInit, Tracked
<1>2. slot \in [Tracked -> Slot]
  BY <1>1 DEF Tracked
<1>3. ledger \in [DOMAIN ledger -> [key : KeySet, state : Live \cup Ended]]
  BY <1>1
<1>4. opened \in [DOMAIN opened -> [key : KeySet, reopen : BOOLEAN]]
  BY <1>1
<1>5. TerminalsTypeOK
  <2>1. batch \in BatchType
    BY DEF TerminalsInit, NoBatch, BatchType
  <2>2. known \in [Viewers -> Seen]
    BY DEF TerminalsInit, Seen
  <2>3. /\ stage \in [Sessions -> {"none", "queued", "refused", "spawned"}]
        /\ process \in [Sessions -> {"none", "alive", "exited", "gone"}]
        /\ era \in [Sessions -> Nat]
    BY DEF TerminalsInit
  <2>4. next \in Nat \ {0} /\ inputs \subseteq [client : Viewers, seen : Seen]
    BY DEF TerminalsInit
  <2>5. up \in BOOLEAN /\ quiescing \in BOOLEAN /\ launchDead \in BOOLEAN
    BY DEF TerminalsInit
  <2> QED BY <2>5, <1>2, <1>3, <1>4, <2>1, <2>2, <2>3, <2>4 DEF TerminalsTypeOK
<1>6. Fresh
  BY <1>1 DEF TerminalsInit, Fresh
<1>7. \A s \in Sessions : ShellSound(s) /\ RecordSound(s)
  BY <1>1 DEF TerminalsInit, ShellSound, RecordSound, Lives
<1> QED
  BY <1>1, <1>5, <1>6, <1>7 DEF TerminalsInit, TerminalsInv, KeysKept, SeenSound,
     NeverSilentlyReopened, InputUnderAttachment
-----------------------------------------------------------------------------
(* What a save and a change of the slots keep.                             *)

Tombstone == [key : KeySet, state : Live \cup Ended]

LEMMA TombstonesTyped ==
    ASSUME NEW slots, slots \in [DOMAIN slots -> Slot]
    PROVE  /\ Tombstones(slots) \in [DOMAIN slots -> Tombstone]
           /\ DOMAIN Tombstones(slots) = DOMAIN slots
           /\ \A s \in DOMAIN slots : /\ Tombstones(slots)[s].key = slots[s].key
                                      /\ Tombstones(slots)[s].state = slots[s].state
<1>1. ASSUME NEW s \in DOMAIN slots
      PROVE  [key |-> slots[s].key, state |-> slots[s].state] \in Tombstone
  <2>1. slots[s] \in Slot
    OBVIOUS
  <2>2. slots[s].key \in KeySet /\ slots[s].state \in Live \cup Ended
    BY <2>1 DEF Slot, KeySet
  <2> QED BY <2>2 DEF Tombstone
<1> QED BY <1>1 DEF Tombstones

\* The slots change in place, and the tombstones of slots like the new ones
\* are on disk unless the save failed: what is alive was alive, and its slot
\* and its record are live.
LEMMA SlotsSaved ==
    ASSUME TerminalsInv, up, UNCHANGED <<next, up, opened>>,
           slot' \in [Tracked -> Slot],
           NEW saved \in [Tracked -> Slot], ledger' \in {ledger, Tombstones(saved)},
           \A s \in Tracked : /\ saved[s].key = slot[s].key
                              /\ slot'[s].state \in Live => saved[s].state \in Live
                              /\ s \in bootstrapped' => saved[s].state # "preparing",
           bootstrapped \subseteq bootstrapped', bootstrapped' \subseteq bootstrapped \cup Tracked,
           bootstrapped' = bootstrapped \/ ledger' = Tombstones(saved),
           quiescing' \in BOOLEAN, launchDead' \in BOOLEAN,
           batch' \in BatchType,
           stage' \in [Sessions -> {"none", "queued", "refused", "spawned"}],
           process' \in [Sessions -> {"none", "alive", "exited", "gone"}],
           era' \in [Sessions -> Nat], known' \in [Viewers -> Seen],
           inputs' \subseteq [client : Viewers, seen : Seen],
           \A s \in Tracked : slot'[s].key = slot[s].key /\ SlotSound(s)',
           \A s \in Sessions : ShellSound(s)' /\ (Lives(s)' => Lives(s)),
           \A s \in Sessions : s >= next =>
              stage'[s] = stage[s] /\ process'[s] = process[s] /\ era'[s] = era[s],
           SeenSound', InputUnderAttachment'
    PROVE  TerminalsInv'
<1>1. /\ Tracked' = Tracked /\ DOMAIN slot' = Tracked /\ DOMAIN saved = Tracked
      /\ TerminalsTypeOK /\ Fresh /\ KeysKept
      /\ ledger \in [DOMAIN ledger -> Tombstone]
  BY DEF Tracked, TerminalsInv, TerminalsTypeOK, Tombstone
<1>2. /\ Tombstones(saved) \in [Tracked -> Tombstone]
      /\ DOMAIN Tombstones(saved) = Tracked
      /\ \A s \in Tracked : /\ Tombstones(saved)[s].key = slot[s].key
                            /\ Tombstones(saved)[s].state = saved[s].state
  BY <1>1, TombstonesTyped
<1>3. ledger' \in [DOMAIN ledger' -> Tombstone] /\ DOMAIN ledger' \in {DOMAIN ledger, Tracked}
  BY <1>1, <1>2
<1>4. TerminalsTypeOK'
  BY <1>1, <1>3 DEF TerminalsTypeOK, Tombstone
<1>5. Fresh'
  BY <1>1, <1>3 DEF Fresh
<1>6. ASSUME NEW s \in Sessions PROVE RecordSound(s)'
  <2>1. RecordSound(s)
    BY DEF TerminalsInv
  <2>2. CASE ledger' = ledger /\ bootstrapped' = bootstrapped
    BY <2>1, <2>2 DEF RecordSound
  <2>3. CASE ledger' = Tombstones(saved)
    <3>1. Lives(s)' => s \in Tracked /\ slot'[s].state \in Live
      BY <1>1 DEF Lives, ShellSound, SlotSound, IsLive
    <3> QED BY <1>2, <2>3, <3>1 DEF RecordSound
  <2> QED BY <2>2, <2>3
<1>7. KeysKept'
  <2> SUFFICES ASSUME NEW s \in DOMAIN opened
               PROVE  /\ \E t \in Tracked : slot'[t].key = opened[s].key
                      /\ \E t \in DOMAIN ledger' : ledger'[t].key = opened[s].key
    BY <1>1 DEF KeysKept
  <2>1. \E t \in Tracked : slot[t].key = opened[s].key
    BY <1>1 DEF KeysKept
  <2>2. CASE ledger' = ledger
    BY <1>1, <2>2 DEF KeysKept
  <2>3. CASE ledger' = Tombstones(saved)
    BY <1>2, <2>1, <2>3
  <2> QED BY <2>1, <2>2, <2>3
<1>8. NeverSilentlyReopened'
  BY DEF TerminalsInv, NeverSilentlyReopened
<1> QED BY <1>1, <1>4, <1>5, <1>6, <1>7, <1>8 DEF TerminalsInv

\* The usual step: it saves the slots as they are now, and no shell is
\* given its bootstrap.
LEMMA SlotsChange ==
    ASSUME TerminalsInv, up, UNCHANGED <<next, up, opened, bootstrapped>>,
           slot' \in [Tracked -> Slot], ledger' \in {ledger, Tombstones(slot')},
           quiescing' \in BOOLEAN, launchDead' \in BOOLEAN,
           batch' \in BatchType,
           stage' \in [Sessions -> {"none", "queued", "refused", "spawned"}],
           process' \in [Sessions -> {"none", "alive", "exited", "gone"}],
           era' \in [Sessions -> Nat], known' \in [Viewers -> Seen],
           inputs' \subseteq [client : Viewers, seen : Seen],
           \A s \in Tracked : slot'[s].key = slot[s].key /\ SlotSound(s)',
           \A s \in Sessions : ShellSound(s)' /\ (Lives(s)' => Lives(s)),
           \A s \in Sessions : s >= next =>
              stage'[s] = stage[s] /\ process'[s] = process[s] /\ era'[s] = era[s],
           SeenSound', InputUnderAttachment'
    PROVE  TerminalsInv'
<1>1. \A s \in Tracked : s \in bootstrapped' => slot'[s].state # "preparing"
  BY DEF SlotSound
<1> QED BY <1>1, SlotsSaved
-----------------------------------------------------------------------------
(* The steps that leave the slots and the shells alone.                    *)

LEMMA QuietStep ==
    ASSUME TerminalsInv, UNCHANGED <<actorVars, shellVars, era>>,
           batch' \in BatchType, known' \in [Viewers -> Seen],
           inputs' \subseteq [client : Viewers, seen : Seen],
           SeenSound', InputUnderAttachment'
    PROVE  TerminalsInv'
<1>1. /\ UNCHANGED <<slot, ledger, next, up, quiescing, launchDead>>
      /\ UNCHANGED <<stage, process, bootstrapped, opened, era>>
      /\ Tracked' = Tracked
  BY DEF actorVars, shellVars, Tracked
<1>2. TerminalsTypeOK'
  BY <1>1 DEF TerminalsInv, TerminalsTypeOK
<1>3. Fresh' /\ KeysKept' /\ NeverSilentlyReopened'
  BY <1>1 DEF TerminalsInv, Fresh, KeysKept, NeverSilentlyReopened
<1>4. \A s \in Tracked : SlotSound(s)'
  BY <1>1 DEF TerminalsInv, SlotSound, IsLive
<1>5. \A s \in Sessions : ShellSound(s)' /\ RecordSound(s)'
  BY <1>1 DEF TerminalsInv, ShellSound, RecordSound, Lives, IsLive
<1> QED BY <1>1, <1>2, <1>3, <1>4, <1>5 DEF TerminalsInv

LEMMA CancelledBatchTyped ==
    ASSUME batch \in BatchType
    PROVE  CancelledBatch \in BatchType
<1>1. <<>> \in Seq(KeySet)
  OBVIOUS
<1>2. [state |-> "cancelled", remaining |-> <<>>, waiting |-> None] \in BatchType
  BY <1>1 DEF BatchType
<1>3. [batch EXCEPT !.remaining = <<>>, !.waiting = None] \in BatchType
  BY <1>1 DEF BatchType
<1> QED BY <1>2, <1>3 DEF CancelledBatch

LEMMA KeysTyped == Keys \in Seq(KeySet)
BY DEF KeySet, TerminalsAssumption

LEMMA BatchQuiet ==
    ASSUME TerminalsInv, StartDefaults \/ BatchPauses \/ ContinueDefaults \/ CancelDefaults
    PROVE  TerminalsInv'
<1>1. batch \in BatchType /\ known \in [Viewers -> Seen]
      /\ inputs \subseteq [client : Viewers, seen : Seen] /\ SeenSound /\ InputUnderAttachment
  BY DEF TerminalsInv, TerminalsTypeOK
<1>2. UNCHANGED <<actorVars, shellVars, viewerVars>>
  BY DEF StartDefaults, BatchPauses, ContinueDefaults, CancelDefaults
<1>3. UNCHANGED <<known, inputs, era, typed>> /\ SeenSound' /\ InputUnderAttachment'
  BY <1>1, <1>2 DEF viewerVars, SeenSound, InputUnderAttachment
<1>4. batch' \in BatchType
  <2>1. CASE StartDefaults
    BY <2>1, KeysTyped DEF StartDefaults, BatchType
  <2>2. CASE BatchPauses \/ ContinueDefaults
    BY <1>1, <2>2 DEF BatchPauses, ContinueDefaults, BatchType
  <2>3. CASE CancelDefaults
    BY <1>1, <2>3, CancelledBatchTyped DEF CancelDefaults
  <2> QED BY <2>1, <2>2, <2>3
<1> QED BY <1>1, <1>2, <1>3, <1>4, QuietStep

LEMMA SendInputStep ==
    ASSUME TerminalsInv, NEW c \in Viewers, SendInput(c)
    PROVE  TerminalsInv'
<1>1. batch \in BatchType /\ known \in [Viewers -> Seen]
      /\ inputs \subseteq [client : Viewers, seen : Seen] /\ SeenSound /\ InputUnderAttachment
  BY DEF TerminalsInv, TerminalsTypeOK
<1>2. inputs' \subseteq [client : Viewers, seen : Seen]
  BY <1>1 DEF SendInput
<1>3. SeenSound'
  BY <1>1 DEF SendInput, SeenSound
<1>4. InputUnderAttachment'
  BY <1>1 DEF SendInput, InputUnderAttachment
<1> QED BY <1>1, <1>2, <1>3, <1>4, QuietStep DEF SendInput

\* An input reaches a shell only in the epoch its sender learnt, and the epoch
\* of a live session counts its changes of hands.
LEMMA InputStep ==
    ASSUME TerminalsInv, NEW m \in inputs, Input(m)
    PROVE  TerminalsInv'
<1>1. batch \in BatchType /\ known \in [Viewers -> Seen]
      /\ inputs \subseteq [client : Viewers, seen : Seen] /\ SeenSound /\ InputUnderAttachment
  BY DEF TerminalsInv, TerminalsTypeOK
<1>2. inputs' \subseteq [client : Viewers, seen : Seen] /\ SeenSound'
  BY <1>1 DEF Input, SeenSound
<1>3. InputUnderAttachment'
  <2> DEFINE s == m.seen.session
             lands == s \in Tracked /\ Owns(m.client, s, m.seen.epoch)
                      /\ slot[s].state = "running" /\ process[s] = "alive"
  <2>1. typed' = IF lands THEN [sent |-> m.seen.era, arrived |-> era[s]] ELSE typed
    BY DEF Input
  <2>2. CASE lands
    <3>1. IsLive(s) /\ slot[s].epoch = era[s]
      BY <2>2 DEF TerminalsInv, SlotSound, IsLive, Live
    <3>2. m.seen.epoch = m.seen.era
      BY <1>1 DEF SeenSound
    <3>3. m.seen.era = era[s]
      BY <2>2, <3>1, <3>2 DEF Owns
    <3> HIDE DEF s, lands
    <3> QED BY <2>1, <2>2, <3>3 DEF InputUnderAttachment
  <2>3. CASE ~lands
    <3> HIDE DEF s, lands
    <3> QED BY <1>1, <2>1, <2>3 DEF InputUnderAttachment
  <2> QED BY <2>2, <2>3
<1> QED BY <1>1, <1>2, <1>3, QuietStep DEF Input
-----------------------------------------------------------------------------
(* The steps that change slots in place.                                   *)

\* What every one of those steps starts from.
LEMMA Held ==
    ASSUME TerminalsInv
    PROVE  /\ slot \in [Tracked -> Slot] /\ next \in Nat
           /\ quiescing \in BOOLEAN /\ launchDead \in BOOLEAN
           /\ batch \in BatchType
           /\ stage \in [Sessions -> {"none", "queued", "refused", "spawned"}]
           /\ process \in [Sessions -> {"none", "alive", "exited", "gone"}]
           /\ known \in [Viewers -> Seen] /\ inputs \subseteq [client : Viewers, seen : Seen]
           /\ era \in [Sessions -> Nat]
           /\ SeenSound /\ InputUnderAttachment
           /\ \A s \in Tracked : s \in Sessions /\ s < next /\ SlotSound(s)
           /\ \A s \in Sessions : ShellSound(s)
           /\ \A s \in Sessions : s >= next => stage[s] = "none" /\ process[s] = "none"
BY DEF TerminalsInv, TerminalsTypeOK, Fresh

LEMMA PrepareStep ==
    ASSUME TerminalsInv, NEW s \in Sessions, Prepare(s)
    PROVE  TerminalsInv'
<1> USE Held
<1>1. /\ up /\ UNCHANGED <<slot, ledger, next, up, quiescing, launchDead>>
      /\ UNCHANGED <<bootstrapped, opened, batch, known, inputs, era, typed>>
      /\ Tracked' = Tracked
  BY DEF Prepare, actorVars, viewerVars, Tracked
<1>2. /\ stage[s] = "queued" /\ process[s] = "none"
      /\ s \in Tracked /\ slot[s].preparing /\ IsLive(s)
  BY DEF Prepare, ShellSound
<1>3. /\ \/ stage' = [stage EXCEPT ![s] = "refused"] /\ process' = process
         \/ /\ stage' = [stage EXCEPT ![s] = "spawned"]
            /\ process' = [process EXCEPT ![s] = "alive"]
      /\ stage' \in [Sessions -> {"none", "queued", "refused", "spawned"}]
      /\ process' \in [Sessions -> {"none", "alive", "exited", "gone"}]
  BY DEF Prepare
<1>4. \A t \in Tracked : slot'[t].key = slot[t].key /\ SlotSound(t)'
  BY <1>1 DEF SlotSound, IsLive
<1>5. \A t \in Sessions : ShellSound(t)' /\ (Lives(t)' => Lives(t))
  <2> TAKE t \in Sessions
  <2>1. CASE t = s
    BY <1>1, <1>2, <1>3, <2>1 DEF ShellSound, Lives, IsLive
  <2>2. CASE t # s
    BY <1>1, <1>3, <2>2 DEF ShellSound, Lives, IsLive
  <2> QED BY <2>1, <2>2
<1>6. \A t \in Sessions : t >= next =>
         stage'[t] = stage[t] /\ process'[t] = process[t] /\ era'[t] = era[t]
  BY <1>1, <1>2, <1>3
<1>7. SeenSound' /\ InputUnderAttachment'
  BY <1>1 DEF SeenSound, InputUnderAttachment
<1> QED BY <1>1, <1>3, <1>4, <1>5, <1>6, <1>7, SlotsChange

\* A slot stays a slot when the fields that a step sets get values of theirs.
LEMMA SlotsTyped ==
    ASSUME slot \in [Tracked -> Slot], NEW s \in Tracked, NEW v \in Slot, DOMAIN slot' = Tracked,
           \A t \in Tracked : slot'[t] = IF t = s THEN v ELSE slot[t],
           slot' = [t \in Tracked |-> slot'[t]]
    PROVE  slot' \in [Tracked -> Slot] /\ Tracked' = Tracked
BY DEF Tracked

LEMMA SettlesStep ==
    ASSUME TerminalsInv, NEW s \in Sessions, Settles(s)
    PROVE  TerminalsInv'
<1> USE Held
<1>1. /\ up /\ UNCHANGED <<ledger, next, up, quiescing, launchDead>>
      /\ UNCHANGED <<stage, process, bootstrapped, opened, batch, known, inputs, era, typed>>
      /\ s \in Tracked /\ slot' = [slot EXCEPT ![s].settled = TRUE]
  BY DEF Settles, shellVars, viewerVars
<1>2. slot' \in [Tracked -> Slot] /\ Tracked' = Tracked
  <2> DEFINE v == [slot[s] EXCEPT !.settled = TRUE]
  <2>1. slot[s] \in Slot
    BY <1>1
  <2>2. v \in Slot
    BY <2>1 DEF Slot
  <2>3. /\ DOMAIN slot = Tracked /\ DOMAIN slot' = Tracked
        /\ slot' = [t \in Tracked |-> slot'[t]]
        /\ \A t \in Tracked : slot'[t] = IF t = s THEN v ELSE slot[t]
    BY <1>1 DEF Tracked
  <2> HIDE DEF v
  <2> QED BY <1>1, <2>2, <2>3, SlotsTyped
<1>3. \A t \in Tracked :
         /\ slot'[t].key = slot[t].key /\ slot'[t].state = slot[t].state
         /\ slot'[t].runtime = slot[t].runtime /\ slot'[t].preparing = slot[t].preparing
         /\ slot'[t].epoch = slot[t].epoch
  BY <1>1 DEF Slot
<1>4. \A t \in Tracked : SlotSound(t)'
  BY <1>1, <1>3 DEF SlotSound, IsLive
<1>5. \A t \in Sessions : ShellSound(t)' /\ (Lives(t)' => Lives(t))
  BY <1>1, <1>2, <1>3 DEF ShellSound, Lives, IsLive
<1>6. SeenSound' /\ InputUnderAttachment'
  BY <1>1 DEF SeenSound, InputUnderAttachment
<1> QED BY <1>1, <1>2, <1>3, <1>4, <1>5, <1>6, SlotsChange

LEMMA ShellExitsStep ==
    ASSUME TerminalsInv, NEW s \in Sessions, ShellExits(s)
    PROVE  TerminalsInv'
<1> USE Held
<1>1. /\ UNCHANGED <<slot, ledger, next, up, quiescing, launchDead>>
      /\ UNCHANGED <<stage, bootstrapped, opened, batch, known, inputs, era, typed>>
      /\ Tracked' = Tracked
      /\ process[s] = "alive" /\ process' = [process EXCEPT ![s] = "exited"]
  BY DEF ShellExits, actorVars, viewerVars, Tracked
<1>2. s \in Tracked /\ up
  BY <1>1 DEF ShellSound, TerminalsInv
<1>3. process' \in [Sessions -> {"none", "alive", "exited", "gone"}]
  BY <1>1
<1>4. \A t \in Tracked : slot'[t].key = slot[t].key /\ SlotSound(t)'
  BY <1>1 DEF SlotSound, IsLive
<1>5. \A t \in Sessions : ShellSound(t)' /\ (Lives(t)' => Lives(t))
  BY <1>1 DEF ShellSound, Lives, IsLive
<1>6. \A t \in Sessions : t >= next =>
         stage'[t] = stage[t] /\ process'[t] = process[t] /\ era'[t] = era[t]
  BY <1>1
<1>7. SeenSound' /\ InputUnderAttachment'
  BY <1>1 DEF SeenSound, InputUnderAttachment
<1> QED BY <1>1, <1>2, <1>3, <1>4, <1>5, <1>6, <1>7, SlotsChange

\* What a save leaves on disk.
LEMMA SaveOutcomes ==
    ASSUME NEW slots, NEW ok, Persisted(slots, ok)
    PROVE  ledger' \in {ledger, Tombstones(slots)}
BY DEF Persisted

LEMMA ObserveShellExitStep ==
    ASSUME TerminalsInv, NEW s \in Sessions, NEW ok \in BOOLEAN, ObserveShellExit(s, ok)
    PROVE  TerminalsInv'
<1> USE Held
<1>1. /\ up /\ UNCHANGED <<next, up, quiescing, launchDead>>
      /\ UNCHANGED <<stage, process, bootstrapped, opened, batch, known, inputs, era, typed>>
      /\ s \in Tracked /\ slot[s].runtime
      /\ slot' = [slot EXCEPT ![s].exit = TRUE, ![s].state = "closing"]
      /\ ledger' \in {ledger, Tombstones(slot')}
  BY SaveOutcomes DEF ObserveShellExit, shellVars, viewerVars
<1>2. slot' \in [Tracked -> Slot] /\ Tracked' = Tracked
  <2> DEFINE v == [slot[s] EXCEPT !.exit = TRUE, !.state = "closing"]
  <2>1. slot[s] \in Slot
    BY <1>1
  <2>2. v \in Slot
    BY <2>1 DEF Slot, Live
  <2>3. /\ DOMAIN slot = Tracked /\ DOMAIN slot' = Tracked
        /\ slot' = [t \in Tracked |-> slot'[t]]
        /\ \A t \in Tracked : slot'[t] = IF t = s THEN v ELSE slot[t]
    BY <1>1 DEF Tracked
  <2> HIDE DEF v
  <2> QED BY <1>1, <2>2, <2>3, SlotsTyped
<1>3. \A t \in Tracked :
         /\ slot'[t].key = slot[t].key
         /\ slot'[t].state = (IF t = s THEN "closing" ELSE slot[t].state)
         /\ slot'[t].runtime = slot[t].runtime /\ slot'[t].preparing = slot[t].preparing
         /\ slot'[t].epoch = slot[t].epoch
  BY <1>1 DEF Slot
<1>4. \A t \in Tracked : SlotSound(t)'
  BY <1>1, <1>3 DEF SlotSound, IsLive, Live
<1>5. \A t \in Sessions : ShellSound(t)' /\ (Lives(t)' => Lives(t))
  BY <1>1, <1>2, <1>3 DEF ShellSound, Lives, IsLive, Live
<1>6. SeenSound' /\ InputUnderAttachment'
  BY <1>1 DEF SeenSound, InputUnderAttachment
<1> QED BY <1>1, <1>2, <1>3, <1>4, <1>5, <1>6, SlotsChange

LEMMA ReapShellStep ==
    ASSUME TerminalsInv, NEW s \in Sessions, NEW ok \in BOOLEAN, ReapShell(s, ok)
    PROVE  TerminalsInv'
<1> USE Held
<1>1. /\ up /\ UNCHANGED <<next, up, quiescing, launchDead>>
      /\ UNCHANGED <<stage, bootstrapped, opened, batch, known, inputs, era, typed>>
      /\ s \in Tracked /\ slot[s].runtime
      /\ process' = [process EXCEPT ![s] = "gone"]
      /\ slot' = [slot EXCEPT ![s].runtime = FALSE, ![s].owner = None,
                            ![s].state = IF slot[s].requested THEN "closed" ELSE "exited"]
      /\ ledger' \in {ledger, Tombstones(slot')}
  BY SaveOutcomes DEF ReapShell, shellVars, viewerVars
<1>2. slot' \in [Tracked -> Slot] /\ Tracked' = Tracked
  <2> DEFINE v == [slot[s] EXCEPT !.runtime = FALSE, !.owner = None,
                                  !.state = IF slot[s].requested THEN "closed" ELSE "exited"]
  <2>1. slot[s] \in Slot
    BY <1>1
  <2>2. v \in Slot
    BY <2>1 DEF Slot, Ended
  <2>3. /\ DOMAIN slot = Tracked /\ DOMAIN slot' = Tracked
        /\ slot' = [t \in Tracked |-> slot'[t]]
        /\ \A t \in Tracked : slot'[t] = IF t = s THEN v ELSE slot[t]
    BY <1>1 DEF Tracked
  <2> HIDE DEF v
  <2> QED BY <1>1, <2>2, <2>3, SlotsTyped
<1>3. \A t \in Tracked :
         /\ slot'[t].key = slot[t].key
         /\ t # s => slot'[t] = slot[t]
         /\ t = s => slot'[t].state \in Ended /\ ~slot'[t].runtime
  BY <1>1 DEF Slot, Ended
<1>4. \A t \in Tracked : SlotSound(t)'
  BY <1>1, <1>3 DEF SlotSound, IsLive, Live, Ended
<1>5. stage[s] = "none" /\ process'[s] = "gone"
  BY <1>1 DEF SlotSound, ShellSound
<1>6. \A t \in Sessions : ShellSound(t)' /\ (Lives(t)' => Lives(t))
  <2> TAKE t \in Sessions
  <2>1. CASE t = s
    BY <1>1, <1>5, <2>1 DEF ShellSound, Lives
  <2>2. CASE t # s
    BY <1>1, <1>2, <1>3, <2>2 DEF ShellSound, Lives, IsLive
  <2> QED BY <2>1, <2>2
<1>7. SeenSound' /\ InputUnderAttachment'
  BY <1>1 DEF SeenSound, InputUnderAttachment
<1>8. /\ \A t \in Sessions : t >= next =>
            stage'[t] = stage[t] /\ process'[t] = process[t] /\ era'[t] = era[t]
      /\ process' \in [Sessions -> {"none", "alive", "exited", "gone"}]
  BY <1>1 DEF Sessions
<1> QED BY <1>1, <1>2, <1>3, <1>4, <1>6, <1>7, <1>8, SlotsChange

LEMMA AcceptRefusedStep ==
    ASSUME TerminalsInv, NEW s \in Sessions, NEW ok \in BOOLEAN, AcceptRefused(s, ok)
    PROVE  TerminalsInv'
<1> USE Held
<1>1. /\ up /\ UNCHANGED <<next, up, quiescing, launchDead>>
      /\ UNCHANGED <<process, bootstrapped, opened, batch, known, inputs, era, typed>>
      /\ stage[s] = "refused" /\ stage' = [stage EXCEPT ![s] = "none"]
      /\ slot' = [slot EXCEPT ![s].preparing = FALSE, ![s].owner = None,
                            ![s].state = IF slot[s].cancel THEN "closed" ELSE "failed"]
      /\ ledger' \in {ledger, Tombstones(slot')}
  BY SaveOutcomes DEF AcceptRefused, viewerVars
<1>2. /\ s \in Tracked /\ process[s] = "none" /\ ~slot[s].runtime
  BY <1>1 DEF ShellSound, SlotSound
<1>3. slot' \in [Tracked -> Slot] /\ Tracked' = Tracked
  <2> DEFINE v == [slot[s] EXCEPT !.preparing = FALSE, !.owner = None,
                                  !.state = IF slot[s].cancel THEN "closed" ELSE "failed"]
  <2>1. slot[s] \in Slot
    BY <1>2
  <2>2. v \in Slot
    BY <2>1 DEF Slot, Ended
  <2>3. /\ DOMAIN slot = Tracked /\ DOMAIN slot' = Tracked
        /\ slot' = [t \in Tracked |-> slot'[t]]
        /\ \A t \in Tracked : slot'[t] = IF t = s THEN v ELSE slot[t]
    BY <1>1, <1>2 DEF Tracked
  <2> HIDE DEF v
  <2> QED BY <1>1, <1>2, <2>2, <2>3, SlotsTyped
<1>4. \A t \in Tracked :
         /\ slot'[t].key = slot[t].key
         /\ t # s => slot'[t] = slot[t]
         /\ t = s => slot'[t].state \in Ended /\ ~slot'[t].runtime
  BY <1>1, <1>2 DEF Slot, Ended
<1>5. \A t \in Tracked : SlotSound(t)'
  BY <1>1, <1>4 DEF SlotSound, IsLive, Live, Ended
<1>6. \A t \in Sessions : ShellSound(t)' /\ (Lives(t)' => Lives(t))
  <2> TAKE t \in Sessions
  <2>1. CASE t = s
    BY <1>1, <1>2, <2>1 DEF ShellSound, Lives
  <2>2. CASE t # s
    BY <1>1, <1>3, <1>4, <2>2 DEF ShellSound, Lives, IsLive
  <2> QED BY <2>1, <2>2
<1>7. SeenSound' /\ InputUnderAttachment'
  BY <1>1 DEF SeenSound, InputUnderAttachment
<1>8. /\ \A t \in Sessions : t >= next =>
            stage'[t] = stage[t] /\ process'[t] = process[t] /\ era'[t] = era[t]
      /\ stage' \in [Sessions -> {"none", "queued", "refused", "spawned"}]
  BY <1>1
<1> QED BY <1>1, <1>3, <1>4, <1>5, <1>6, <1>7, <1>8, SlotsChange

\* A close asks for the end of the sessions in S, which live.
LEMMA Closing ==
    ASSUME TerminalsInv, up, NEW S, S \subseteq Tracked, \A s \in S : IsLive(s),
           slot' = [s \in Tracked |-> IF s \in S THEN Closed(slot[s]) ELSE slot[s]],
           UNCHANGED <<next, up, launchDead, shellVars, viewerVars>>,
           quiescing' \in BOOLEAN, batch' \in BatchType,
           ledger' \in {ledger, Tombstones(slot')}
    PROVE  TerminalsInv'
<1> USE Held
<1>1. UNCHANGED <<stage, process, bootstrapped, opened, known, inputs, era, typed>>
  BY DEF shellVars, viewerVars
<1>2. slot' \in [Tracked -> Slot] /\ Tracked' = Tracked
  <2>1. ASSUME NEW s \in Tracked PROVE Closed(slot[s]) \in Slot
    <3>1. slot[s] \in Slot
      OBVIOUS
    <3> QED BY <3>1 DEF Closed, Slot, Live
  <2> QED BY <2>1 DEF Tracked
<1>3. \A t \in Tracked :
         /\ slot'[t].key = slot[t].key
         /\ slot'[t].state = (IF t \in S THEN "closing" ELSE slot[t].state)
         /\ slot'[t].runtime = slot[t].runtime /\ slot'[t].preparing = slot[t].preparing
         /\ slot'[t].epoch = slot[t].epoch
  <2> TAKE t \in Tracked
  <2>1. slot[t] \in Slot /\ slot'[t] = (IF t \in S THEN Closed(slot[t]) ELSE slot[t])
    OBVIOUS
  <2> QED BY <2>1 DEF Closed, Slot
<1>4. \A t \in Tracked : SlotSound(t)'
  BY <1>1, <1>3 DEF SlotSound, IsLive, Live
<1>5. \A t \in Sessions : ShellSound(t)' /\ (Lives(t)' => Lives(t))
  BY <1>1, <1>2, <1>3 DEF ShellSound, Lives, IsLive, Live
<1>6. SeenSound' /\ InputUnderAttachment'
  BY <1>1 DEF SeenSound, InputUnderAttachment
<1> QED BY <1>1, <1>2, <1>3, <1>4, <1>5, <1>6, SlotsChange

LEMMA CloseTerminalStep ==
    ASSUME TerminalsInv, NEW c \in Viewers, NEW s \in Sessions, NEW ok \in BOOLEAN,
           CloseTerminal(c, s, ok)
    PROVE  TerminalsInv'
<1>1. /\ up /\ s \in Tracked /\ IsLive(s)
      /\ UNCHANGED <<next, up, quiescing, launchDead, shellVars, batch, viewerVars>>
      /\ slot' = [slot EXCEPT ![s] = Closed(@)] /\ ledger' \in {ledger, Tombstones(slot')}
  BY SaveOutcomes DEF CloseTerminal, LiveSessions
<1>2. slot' = [t \in Tracked |-> IF t \in {s} THEN Closed(slot[t]) ELSE slot[t]]
  BY <1>1, Held
<1> QED BY <1>1, <1>2, Held, Closing

LEMMA CloseReviewedStep ==
    ASSUME TerminalsInv, NEW shutdown \in BOOLEAN, NEW ok \in BOOLEAN,
           CloseReviewed(shutdown, ok)
    PROVE  TerminalsInv'
<1>1. /\ up /\ UNCHANGED <<next, up, launchDead, shellVars, viewerVars>>
      /\ quiescing' \in BOOLEAN /\ batch' = CancelledBatch
      /\ slot' = [s \in Tracked |-> IF IsLive(s) THEN Closed(slot[s]) ELSE slot[s]]
      /\ ledger' \in {ledger, Tombstones(slot')}
  BY SaveOutcomes DEF CloseReviewed
<1>2. slot' = [t \in Tracked |-> IF t \in LiveSessions THEN Closed(slot[t]) ELSE slot[t]]
  BY <1>1 DEF LiveSessions
<1>3. LiveSessions \subseteq Tracked /\ \A s \in LiveSessions : IsLive(s)
  BY DEF LiveSessions
<1> QED BY <1>1, <1>2, <1>3, Held, CancelledBatchTyped, Closing

LEMMA LaunchWorkerDiesStep ==
    ASSUME TerminalsInv, NEW ok \in BOOLEAN, LaunchWorkerDies(ok)
    PROVE  TerminalsInv'
<1> USE Held
<1>1. /\ up /\ UNCHANGED <<next, up, quiescing>> /\ launchDead' \in BOOLEAN
      /\ UNCHANGED <<bootstrapped, opened, batch, known, inputs, era, typed>>
      /\ stage' = [s \in Sessions |-> "none"]
      /\ process' = [s \in Sessions |-> IF stage[s] = "spawned" THEN "gone" ELSE process[s]]
      /\ slot' = [s \in Tracked |->
                   IF slot[s].preparing
                   THEN [slot[s] EXCEPT !.preparing = FALSE, !.state = "failed", !.owner = None]
                   ELSE slot[s]]
      /\ ledger' \in {ledger, Tombstones(slot')}
  BY SaveOutcomes DEF LaunchWorkerDies, viewerVars
<1>2. slot' \in [Tracked -> Slot] /\ Tracked' = Tracked
  <2>1. ASSUME NEW s \in Tracked
        PROVE  [slot[s] EXCEPT !.preparing = FALSE, !.state = "failed", !.owner = None] \in Slot
    <3>1. slot[s] \in Slot
      OBVIOUS
    <3> QED BY <3>1 DEF Slot, Ended
  <2> QED BY <1>1, <2>1 DEF Tracked
<1>3. \A t \in Tracked :
         /\ slot'[t].key = slot[t].key
         /\ slot[t].preparing => slot'[t].state = "failed" /\ slot'[t].runtime = slot[t].runtime
         /\ ~slot[t].preparing => slot'[t] = slot[t]
  <2> TAKE t \in Tracked
  <2>1. slot[t] \in Slot
    OBVIOUS
  <2>2. slot'[t] = IF slot[t].preparing
                   THEN [slot[t] EXCEPT !.preparing = FALSE, !.state = "failed", !.owner = None]
                   ELSE slot[t]
    BY <1>1
  <2> QED BY <2>1, <2>2 DEF Slot
<1>4. \A t \in Tracked : SlotSound(t)'
  BY <1>1, <1>3 DEF SlotSound, IsLive, Live
<1>5. \A t \in Sessions : ShellSound(t)' /\ (Lives(t)' => Lives(t))
  <2> TAKE t \in Sessions
  <2>1. CASE process'[t] \in {"alive", "exited"}
    <3>1. t \in Tracked /\ slot[t].runtime /\ stage[t] # "spawned" /\ process[t] = process'[t]
      BY <1>1, <2>1 DEF ShellSound
    <3>2. slot'[t] = slot[t]
      BY <1>3, <3>1 DEF SlotSound
    <3> QED BY <1>1, <1>2, <3>1, <3>2 DEF ShellSound, Lives
  <2>2. CASE process'[t] \notin {"alive", "exited"}
    BY <1>1, <2>2 DEF ShellSound, Lives
  <2> QED BY <2>1, <2>2
<1>6. SeenSound' /\ InputUnderAttachment'
  BY <1>1 DEF SeenSound, InputUnderAttachment
<1>7. /\ \A t \in Sessions : t >= next =>
            stage'[t] = stage[t] /\ process'[t] = process[t] /\ era'[t] = era[t]
      /\ stage' \in [Sessions -> {"none", "queued", "refused", "spawned"}]
      /\ process' \in [Sessions -> {"none", "alive", "exited", "gone"}]
  BY <1>1
<1> QED BY <1>1, <1>2, <1>3, <1>4, <1>5, <1>6, <1>7, SlotsChange

\* The slot of s changes hands: its epoch and its era count it both.
LEMMA Handover ==
    ASSUME TerminalsInv, up, NEW s \in Tracked, IsLive(s), slot[s].epoch < MaxEpoch,
           NEW o \in Viewers \cup {None},
           slot' = [slot EXCEPT ![s].owner = o, ![s].epoch = @ + 1],
           era' = [era EXCEPT ![s] = @ + 1],
           UNCHANGED <<ledger, next, up, quiescing, launchDead, shellVars, inputs, typed, batch>>,
           known' \in [Viewers -> Seen], SeenSound'
    PROVE  TerminalsInv'
<1> USE Held
<1>1. UNCHANGED <<stage, process, bootstrapped, opened>>
  BY DEF shellVars
<1>2. slot' \in [Tracked -> Slot] /\ Tracked' = Tracked
  <2> DEFINE v == [slot[s] EXCEPT !.owner = o, !.epoch = @ + 1]
  <2>1. slot[s] \in Slot
    OBVIOUS
  <2>2. slot[s].epoch \in Nat /\ slot[s].epoch + 1 \in 0..MaxEpoch
    BY <2>1, TerminalsAssumption DEF Slot
  <2>3. v \in Slot
    BY <2>1, <2>2 DEF Slot
  <2>4. /\ DOMAIN slot = Tracked /\ DOMAIN slot' = Tracked
        /\ slot' = [t \in Tracked |-> slot'[t]]
        /\ \A t \in Tracked : slot'[t] = IF t = s THEN v ELSE slot[t]
    BY DEF Tracked
  <2> HIDE DEF v
  <2> QED BY <2>3, <2>4, SlotsTyped
<1>3. \A t \in Tracked :
         /\ slot'[t].key = slot[t].key /\ slot'[t].state = slot[t].state
         /\ slot'[t].runtime = slot[t].runtime /\ slot'[t].preparing = slot[t].preparing
         /\ slot'[t].epoch = (IF t = s THEN slot[t].epoch + 1 ELSE slot[t].epoch)
  BY DEF Slot
<1>4. \A t \in Tracked : SlotSound(t)'
  BY <1>1, <1>3 DEF SlotSound, IsLive
<1>5. \A t \in Sessions : ShellSound(t)' /\ (Lives(t)' => Lives(t))
  BY <1>1, <1>2, <1>3 DEF ShellSound, Lives, IsLive
<1>6. InputUnderAttachment'
  BY DEF InputUnderAttachment
<1>7. /\ \A t \in Sessions : t >= next =>
            stage'[t] = stage[t] /\ process'[t] = process[t] /\ era'[t] = era[t]
      /\ era' \in [Sessions -> Nat]
  BY <1>1 DEF Sessions
<1> QED BY <1>1, <1>2, <1>3, <1>4, <1>5, <1>6, <1>7, SlotsChange

LEMMA AttachStep ==
    ASSUME TerminalsInv, NEW c \in Viewers, NEW s \in Sessions, NEW takeover \in BOOLEAN,
           Attach(c, s, takeover)
    PROVE  TerminalsInv'
<1> USE Held
<1>1. /\ up /\ s \in Tracked /\ IsLive(s) /\ slot[s].epoch = era[s] /\ slot[s] \in Slot
  BY DEF Attach, LiveSessions, SlotSound
<1>2. /\ slot'[s].epoch = era'[s] /\ era'[s] \in Nat /\ s \in Nat
      /\ inputs' = inputs
  <2>1. s \in Nat /\ slot[s].epoch \in Nat /\ era[s] \in Nat /\ inputs' = inputs
    BY <1>1 DEF Attach, Slot, Sessions
  <2>2. CASE slot[s].owner = c
    BY <1>1, <2>1, <2>2 DEF Attach
  <2>3. CASE slot[s].owner # c
    <3>1. /\ slot' = [slot EXCEPT ![s].owner = c, ![s].epoch = @ + 1]
          /\ era' = [era EXCEPT ![s] = @ + 1]
      BY <2>3 DEF Attach
    <3>2. slot'[s].epoch = slot[s].epoch + 1
      BY <1>1, <3>1 DEF Slot
    <3>3. era'[s] = era[s] + 1
      BY <1>1, <3>1
    <3> QED BY <1>1, <2>1, <3>2, <3>3
  <2> QED BY <2>2, <2>3
<1>3. known' = [known EXCEPT ![c] = [session |-> s, epoch |-> slot'[s].epoch, era |-> era'[s]]]
  BY DEF Attach
<1>4. known' \in [Viewers -> Seen] /\ SeenSound'
  BY <1>2, <1>3 DEF Seen, SeenSound
<1>5. CASE slot[s].owner = c
  <2>1. UNCHANGED <<actorVars, shellVars, era, inputs, typed, batch>>
    BY <1>5 DEF Attach, actorVars
  <2>2. InputUnderAttachment'
    BY <2>1 DEF InputUnderAttachment
  <2> QED BY <1>4, <2>1, <2>2, QuietStep
<1>6. CASE slot[s].owner # c
  BY <1>1, <1>4, <1>6, Handover DEF Attach
<1> QED BY <1>5, <1>6

LEMMA DetachStep ==
    ASSUME TerminalsInv, NEW c \in Viewers, NEW s \in Sessions, DetachTerminal(c, s)
    PROVE  TerminalsInv'
<1>1. s \in Tracked /\ IsLive(s) /\ up /\ slot[s].epoch < MaxEpoch
  BY DEF DetachTerminal, LiveSessions
<1>2. known' = known /\ inputs' = inputs
  BY DEF DetachTerminal
<1>3. known' \in [Viewers -> Seen] /\ SeenSound'
  BY <1>2, Held DEF SeenSound
<1> QED BY <1>1, <1>3, Handover DEF DetachTerminal

\* The first save of an accepted shell names it running or closing; only when
\* that save went well is the bootstrap written.
LEMMA AcceptRuntimeStep ==
    ASSUME TerminalsInv, NEW s \in Sessions, NEW ok \in BOOLEAN, NEW write \in BOOLEAN,
           NEW again \in BOOLEAN, AcceptRuntime(s, ok, write, again)
    PROVE  TerminalsInv'
<1> USE Held
<1> DEFINE cancelled == slot[s].cancel \/ quiescing
           f == [slot[s] EXCEPT !.preparing = FALSE, !.runtime = TRUE,
                                !.state = IF cancelled THEN "closing" ELSE "running"]
           first == [slot EXCEPT ![s] = f]
           closing == [slot EXCEPT ![s] = [f EXCEPT !.state = "closing", !.requested = TRUE]]
           written == MayBootstrap(s, ok) /\ write
           final == IF written THEN first ELSE closing
<1>1. /\ up /\ UNCHANGED <<next, up, quiescing, launchDead>>
      /\ UNCHANGED <<process, opened, batch, known, inputs, era, typed>>
      /\ stage[s] = "spawned" /\ stage' = [stage EXCEPT ![s] = "none"]
  BY DEF AcceptRuntime, viewerVars
<1>2. s \in Tracked /\ slot[s].preparing /\ IsLive(s) /\ slot[s] \in Slot
  BY <1>1 DEF ShellSound
<1>3. /\ f \in Slot /\ [f EXCEPT !.state = "closing", !.requested = TRUE] \in Slot
      /\ f.key = slot[s].key /\ f.epoch = slot[s].epoch
      /\ f.runtime = TRUE /\ f.preparing = FALSE /\ f.state \in {"closing", "running"}
  <2> DEFINE reached == IF cancelled THEN "closing" ELSE "running"
  <2>1. reached \in {"closing", "running"} /\ slot[s] \in Slot
    BY <1>2
  <2>2. f = [slot[s] EXCEPT !.preparing = FALSE, !.runtime = TRUE, !.state = reached]
    OBVIOUS
  <2> HIDE DEF f, reached
  <2>3. reached \in Live /\ "closing" \in Live
    BY <2>1 DEF Live
  <2>4. f \in Slot
    BY <2>1, <2>2, <2>3 DEF Slot
  <2>5. [f EXCEPT !.state = "closing", !.requested = TRUE] \in Slot
    BY <2>3, <2>4 DEF Slot
  <2>6. /\ f.key = slot[s].key /\ f.epoch = slot[s].epoch
        /\ f.runtime = TRUE /\ f.preparing = FALSE /\ f.state = reached
    BY <2>1, <2>2 DEF Slot
  <2> QED BY <2>1, <2>4, <2>5, <2>6
<1>4. /\ slot' = final
      /\ bootstrapped' = IF written THEN bootstrapped \cup {s} ELSE bootstrapped
      /\ \/ ledger' = Tombstones(final)
         \/ ledger' = Tombstones(first)
         \/ ~ok /\ ledger' = ledger
  <2>1. /\ first = [slot EXCEPT ![s].preparing = FALSE, ![s].runtime = TRUE,
                                ![s].state = IF cancelled THEN "closing" ELSE "running"]
        /\ closing = [first EXCEPT ![s].state = "closing", ![s].requested = TRUE]
    BY <1>2
  <2>2. /\ slot' = final
        /\ bootstrapped' = IF written THEN bootstrapped \cup {s} ELSE bootstrapped
        /\ IF again THEN ledger' = Tombstones(final)
           ELSE ledger' \in {Tombstones(first), Tombstones(final)} \cup (IF ok THEN {} ELSE {ledger})
    <3> HIDE DEF f
    <3> QED BY <2>1 DEF AcceptRuntime
  <2> HIDE DEF final, first, written
  <2> QED BY <2>2
<1>5. /\ first \in [Tracked -> Slot] /\ closing \in [Tracked -> Slot]
      /\ \A t \in Tracked : t # s => first[t] = slot[t] /\ closing[t] = slot[t]
      /\ first[s] = f /\ closing[s] = [f EXCEPT !.state = "closing", !.requested = TRUE]
  <2> HIDE DEF f
  <2> QED BY <1>2, <1>3
<1>6. \A sv \in {first, closing} : \A t \in Tracked :
         /\ sv[t].key = slot[t].key /\ sv[t].epoch = slot[t].epoch
         /\ t # s => sv[t] = slot[t]
         /\ t = s => /\ sv[t].state \in {"closing", "running"}
                     /\ sv[t].runtime /\ ~sv[t].preparing
  <2>1. [f EXCEPT !.state = "closing", !.requested = TRUE].key = f.key
        /\ [f EXCEPT !.state = "closing", !.requested = TRUE].epoch = f.epoch
        /\ [f EXCEPT !.state = "closing", !.requested = TRUE].runtime = f.runtime
        /\ [f EXCEPT !.state = "closing", !.requested = TRUE].preparing = f.preparing
        /\ [f EXCEPT !.state = "closing", !.requested = TRUE].state = "closing"
    <3> HIDE DEF f
    <3> QED BY <1>3 DEF Slot
  <2> HIDE DEF f, first, closing
  <2> TAKE sv \in {first, closing}
  <2> TAKE t \in Tracked
  <2>2. CASE t # s
    BY <1>5, <2>2
  <2>3. CASE t = s
    <3>1. CASE sv = first
      BY <1>3, <1>5, <2>3, <3>1
    <3>2. CASE sv = closing
      <4>1. sv[t] = [f EXCEPT !.state = "closing", !.requested = TRUE]
        BY <1>5, <2>3, <3>2
      <4> QED BY <1>3, <2>1, <2>3, <4>1
    <3> QED BY <3>1, <3>2
  <2> QED BY <2>2, <2>3
<1>7. final \in {first, closing}
  OBVIOUS
<1>8. written => ok
  BY DEF MayBootstrap
<1> HIDE DEF f, first, closing, final, written
<1>9. slot' \in [Tracked -> Slot] /\ Tracked' = Tracked
  BY <1>4, <1>5, <1>7 DEF Tracked
<1>10. \A t \in Tracked : slot'[t].key = slot[t].key /\ SlotSound(t)'
  <2>1. \A t \in Tracked :
         /\ slot'[t].key = slot[t].key /\ slot'[t].epoch = slot[t].epoch
         /\ t # s => slot'[t] = slot[t]
         /\ t = s => /\ slot'[t].state \in {"closing", "running"}
                     /\ slot'[t].runtime /\ ~slot'[t].preparing
    BY <1>4, <1>6, <1>7
  <2> TAKE t \in Tracked
  <2>2. CASE t = s
    BY <1>1, <1>2, <2>1, <2>2 DEF SlotSound, IsLive, Live
  <2>3. CASE t # s
    BY <1>1, <1>4, <2>1, <2>3 DEF SlotSound, IsLive
  <2> QED BY <2>1, <2>2, <2>3
<1>11. \A t \in Sessions : ShellSound(t)' /\ (Lives(t)' => Lives(t))
  <2> TAKE t \in Sessions
  <2>1. CASE t = s
    BY <1>1, <1>2, <1>4, <1>6, <1>7, <1>9, <2>1 DEF ShellSound, Lives, IsLive, Live
  <2>2. CASE t # s
    BY <1>1, <1>4, <1>6, <1>7, <1>9, <2>2 DEF ShellSound, Lives, IsLive
  <2> QED BY <2>1, <2>2
<1>12. /\ \A t \in Sessions : t >= next =>
             stage'[t] = stage[t] /\ process'[t] = process[t] /\ era'[t] = era[t]
       /\ stage' \in [Sessions -> {"none", "queued", "refused", "spawned"}]
  BY <1>1
<1>13. SeenSound' /\ InputUnderAttachment'
  BY <1>1 DEF SeenSound, InputUnderAttachment
<1>14. /\ bootstrapped \subseteq bootstrapped' /\ bootstrapped' \subseteq bootstrapped \cup Tracked
       /\ bootstrapped' = bootstrapped \/ written
  BY <1>2, <1>4
<1>15. ASSUME NEW sv \in {first, closing}, NEW t \in Tracked
       PROVE  /\ slot'[t].state \in Live => sv[t].state \in Live
              /\ t \in bootstrapped' => sv[t].state # "preparing"
  <2>1. CASE t = s
    BY <1>6, <2>1 DEF Live
  <2>2. CASE t # s
    BY <1>4, <1>6, <1>7, <2>2 DEF SlotSound
  <2> QED BY <2>1, <2>2
<1>16. ASSUME NEW sv \in {first, closing}, ledger' = Tombstones(sv)
       PROVE  TerminalsInv'
  <2>1. sv \in [Tracked -> Slot] /\ \A t \in Tracked : sv[t].key = slot[t].key
    BY <1>5, <1>6
  <2>2. \A t \in Tracked : /\ sv[t].key = slot[t].key
                           /\ slot'[t].state \in Live => sv[t].state \in Live
                           /\ t \in bootstrapped' => sv[t].state # "preparing"
    BY <1>15, <2>1
  <2>3. /\ ledger' \in {ledger, Tombstones(sv)}
        /\ bootstrapped' = bootstrapped \/ ledger' = Tombstones(sv)
    BY <1>16
  <2>4. quiescing' \in BOOLEAN /\ launchDead' \in BOOLEAN /\ batch' \in BatchType
    BY <1>1
  <2>5. /\ process' \in [Sessions -> {"none", "alive", "exited", "gone"}]
        /\ era' \in [Sessions -> Nat] /\ known' \in [Viewers -> Seen]
        /\ inputs' \subseteq [client : Viewers, seen : Seen]
    BY <1>1
  <2>6. up /\ UNCHANGED <<next, up, opened>>
    BY <1>1
  <2>7. bootstrapped \subseteq bootstrapped' /\ bootstrapped' \subseteq bootstrapped \cup Tracked
    BY <1>14
  <2> QED
    BY <1>9, <1>10, <1>11, <1>12, <1>13, <2>1, <2>2, <2>3, <2>4, <2>5, <2>6, <2>7, SlotsSaved
<1>17. CASE ~ok /\ ledger' = ledger
  <2>1. bootstrapped' = bootstrapped
    BY <1>8, <1>14, <1>17
  <2> QED BY <1>1, <1>9, <1>10, <1>11, <1>12, <1>13, <1>17, <2>1, SlotsChange
<1> QED BY <1>4, <1>7, <1>16, <1>17
-----------------------------------------------------------------------------
(* The steps that open a session, or fail to.                              *)

\* The slots of a schedule: the new session instead of the ended ones of its
\* key.  No key is lost, and nothing that is alive.
LEMMA ScheduledSlots ==
    ASSUME TerminalsInv, NEW k \in KeySet, NEW reopen \in BOOLEAN, Admitted(k, reopen)
    PROVE  /\ up /\ next \in Sessions /\ next \notin Tracked
           /\ With(k) \in [DOMAIN With(k) -> Slot]
           /\ DOMAIN With(k) = (Tracked \ OfKey(k)) \cup {next}
           /\ With(k)[next] = FreshSlot(k)
           /\ \A s \in Tracked \ OfKey(k) : With(k)[s] = slot[s]
           /\ \A s \in Sessions : Lives(s) => s \in Tracked \ OfKey(k) /\ IsLive(s)
           /\ \A s \in DOMAIN opened :
                \E t \in DOMAIN With(k) : With(k)[t].key = opened[s].key
           /\ \A s \in DOMAIN opened : opened[s].key = k => reopen
<1> USE Held
<1>1. up /\ next \in Sessions /\ \A s \in OfKey(k) : ~IsLive(s) /\ reopen
  BY DEF Admitted
<1>2. next \notin Tracked
  <2>1. \A s \in Tracked : s < next
    OBVIOUS
  <2> QED BY <1>1, <2>1 DEF Sessions
<1>3. FreshSlot(k) \in Slot
  BY TerminalsAssumption DEF FreshSlot, Slot, Live, KeySet
<1>4. /\ DOMAIN With(k) = (Tracked \ OfKey(k)) \cup {next}
      /\ With(k)[next] = FreshSlot(k)
      /\ \A s \in Tracked \ OfKey(k) : With(k)[s] = slot[s]
      /\ With(k) = [x \in DOMAIN With(k) |-> With(k)[x]]
  BY <1>2 DEF With
<1>5. With(k) \in [DOMAIN With(k) -> Slot]
  <2>1. \A x \in DOMAIN With(k) : With(k)[x] \in Slot
    BY <1>3, <1>4
  <2> QED BY <1>4, <2>1
<1>6. ASSUME NEW s \in Sessions, Lives(s) PROVE s \in Tracked \ OfKey(k) /\ IsLive(s)
  <2>1. s \in Tracked /\ IsLive(s)
    BY <1>6 DEF Lives, ShellSound, SlotSound
  <2> QED BY <1>1, <2>1
<1>7. ASSUME NEW s \in DOMAIN opened
      PROVE  /\ \E t \in DOMAIN With(k) : With(k)[t].key = opened[s].key
             /\ opened[s].key = k => reopen
  <2>1. PICK t \in Tracked : slot[t].key = opened[s].key
    BY <1>1 DEF TerminalsInv, KeysKept
  <2>2. CASE t \in OfKey(k)
    <3>1. slot[t].key = k
      BY <2>2 DEF OfKey
    <3>2. With(k)[next].key = k
      BY <1>4 DEF FreshSlot
    <3> QED BY <1>1, <1>4, <2>1, <2>2, <3>1, <3>2
  <2>3. CASE t \notin OfKey(k)
    BY <1>4, <2>1, <2>3 DEF OfKey
  <2> QED BY <2>2, <2>3
<1> QED BY <1>1, <1>2, <1>4, <1>5, <1>6, <1>7

LEMMA ScheduledStep ==
    ASSUME TerminalsInv, NEW k \in KeySet, NEW reopen \in BOOLEAN,
           Admitted(k, reopen), Scheduled(k, reopen), batch' \in BatchType,
           UNCHANGED <<up, quiescing, launchDead, process, bootstrapped, viewerVars>>
    PROVE  TerminalsInv'
<1> USE Held
<1> DEFINE W == With(k)
<1>1. /\ slot' = W /\ ledger' = Tombstones(W) /\ next' = next + 1
      /\ stage' = [stage EXCEPT ![next] = "queued"]
      /\ opened' = [s \in DOMAIN opened \cup {next} |->
                     IF s = next THEN [key |-> k, reopen |-> reopen] ELSE opened[s]]
      /\ UNCHANGED <<known, inputs, era, typed>>
  BY DEF Scheduled, Persisted, viewerVars
<1>2. /\ up /\ next \in Sessions /\ next \notin Tracked
      /\ W \in [DOMAIN W -> Slot]
      /\ DOMAIN W = (Tracked \ OfKey(k)) \cup {next}
      /\ W[next] = FreshSlot(k)
      /\ \A s \in Tracked \ OfKey(k) : W[s] = slot[s]
      /\ \A s \in Sessions : Lives(s) => s \in Tracked \ OfKey(k) /\ IsLive(s)
      /\ \A s \in DOMAIN opened :
           \E t \in DOMAIN W : W[t].key = opened[s].key
      /\ \A s \in DOMAIN opened : opened[s].key = k => reopen
  BY ScheduledSlots, ZenonT(40)
<1>3. /\ Tombstones(W) \in [DOMAIN W -> Tombstone] /\ DOMAIN Tombstones(W) = DOMAIN W
      /\ \A s \in DOMAIN W : /\ Tombstones(W)[s].key = W[s].key
                             /\ Tombstones(W)[s].state = W[s].state
  BY <1>2, TombstonesTyped
<1>4. /\ TerminalsTypeOK /\ Fresh
      /\ \A s \in DOMAIN opened : s \in Sessions /\ s < next
      /\ stage[next] = "none" /\ process[next] = "none" /\ era[next] = 0
      /\ next \notin bootstrapped
  <2>1. next \in Nat /\ next >= next /\ ~(next < next)
    BY DEF Sessions
  <2> QED BY <1>2, <2>1 DEF TerminalsInv, Fresh
<1>5. /\ Tracked' = DOMAIN W /\ DOMAIN ledger' = DOMAIN W
      /\ DOMAIN opened' = DOMAIN opened \cup {next}
      /\ opened'[next] = [key |-> k, reopen |-> reopen]
      /\ \A s \in DOMAIN opened : opened'[s] = opened[s]
  <2> HIDE DEF W
  <2>1. \A s \in DOMAIN opened : s # next
    BY <1>4 DEF Sessions
  <2> QED BY <1>1, <1>3, <2>1 DEF Tracked
<1>6. /\ W[next].key = k /\ W[next].state = "preparing" /\ W[next].epoch = 0
      /\ W[next].preparing = TRUE /\ W[next].runtime = FALSE
  BY <1>2 DEF FreshSlot
<1> HIDE DEF W
<1>7. TerminalsTypeOK'
  <2>1. slot' \in [Tracked' -> Slot]
    BY <1>1, <1>2, <1>5
  <2>2. ledger' \in [DOMAIN ledger' -> [key : KeySet, state : Live \cup Ended]]
    BY <1>1, <1>3, <1>5 DEF Tombstone
  <2>3. opened' \in [DOMAIN opened' -> [key : KeySet, reopen : BOOLEAN]]
    BY <1>1, <1>4, <1>5 DEF TerminalsTypeOK
  <2>4. stage' \in [Sessions -> {"none", "queued", "refused", "spawned"}]
    BY <1>1, <1>2
  <2>5. next' \in Nat \ {0}
    BY <1>1, <1>2 DEF Sessions
  <2> QED BY <1>1, <1>4, <2>1, <2>2, <2>3, <2>4, <2>5 DEF TerminalsTypeOK
<1>8. Fresh'
  <2>1. ASSUME NEW s \in Tracked' \cup DOMAIN ledger' \cup DOMAIN opened' \cup bootstrapped'
        PROVE  s \in Sessions /\ s < next'
    <3>1. s = next \/ s \in Tracked \/ s \in DOMAIN opened \/ s \in bootstrapped
      BY <1>2, <1>5, <2>1
    <3>2. s \in Sessions /\ (s = next \/ s < next)
      BY <1>2, <1>4, <3>1 DEF Fresh
    <3> QED BY <1>1, <3>2 DEF Sessions
  <2>2. ASSUME NEW s \in Sessions, s >= next'
        PROVE  stage'[s] = "none" /\ process'[s] = "none" /\ era'[s] = 0
    <3>1. s >= next /\ s # next
      BY <1>1, <2>2 DEF Sessions
    <3> QED BY <1>1, <1>4, <3>1 DEF Fresh
  <2> QED BY <2>1, <2>2 DEF Fresh
<1>9. ASSUME NEW s \in DOMAIN W PROVE SlotSound(s)'
  <2>1. CASE s = next
    BY <1>1, <1>4, <1>6, <2>1 DEF SlotSound, IsLive, Live
  <2>2. CASE s # next
    <3>1. s \in Tracked /\ slot'[s] = slot[s] /\ SlotSound(s)
      BY <1>1, <1>2, <1>9, <2>2
    <3> QED BY <1>1, <3>1 DEF SlotSound, IsLive
  <2> QED BY <2>1, <2>2
<1>10. ASSUME NEW s \in Sessions PROVE ShellSound(s)' /\ RecordSound(s)'
  <2>1. CASE s = next
    <3>1. ShellSound(s)'
      BY <1>1, <1>2, <1>4, <1>5, <1>6, <2>1 DEF ShellSound, IsLive, Live
    <3>2. RecordSound(s)'
      BY <1>1, <1>2, <1>3, <1>4, <1>5, <1>6, <2>1 DEF RecordSound, Live
    <3> QED BY <3>1, <3>2
  <2>2. CASE s # next
    <3>1. stage'[s] = stage[s] /\ process'[s] = process[s] /\ ShellSound(s)
      BY <1>1, <1>2, <2>2
    <3>2. Lives(s) => s \in Tracked' /\ slot'[s] = slot[s] /\ IsLive(s)
      BY <1>1, <1>2, <1>5
    <3>3. ShellSound(s)'
      BY <3>1, <3>2 DEF ShellSound, Lives, IsLive
    <3>4. s \in bootstrapped /\ s \in DOMAIN ledger' => ledger'[s].state # "preparing"
      <4>1. s \in bootstrapped /\ s \in DOMAIN ledger' =>
               s \in Tracked /\ slot[s].state # "preparing" /\ ledger'[s].state = slot[s].state
        BY <1>1, <1>2, <1>3, <1>5, <2>2 DEF SlotSound
      <4> QED BY <4>1
    <3>5. Lives(s) => s \in DOMAIN ledger' /\ ledger'[s].state \in Live
      BY <1>1, <1>2, <1>3, <1>5, <3>2 DEF IsLive
    <3>6. bootstrapped' = bootstrapped /\ Lives(s)' = Lives(s)
      BY <3>1 DEF Lives
    <3> QED BY <3>3, <3>4, <3>5, <3>6 DEF RecordSound
  <2> QED BY <2>1, <2>2
<1>11. KeysKept'
  <2>1. ASSUME NEW s \in DOMAIN opened'
        PROVE  \E t \in DOMAIN W : W[t].key = opened'[s].key
    BY <1>2, <1>5, <1>6
  <2>2. ASSUME NEW s \in DOMAIN opened'
        PROVE  /\ \E t \in Tracked' : slot'[t].key = opened'[s].key
               /\ \E t \in DOMAIN ledger' : ledger'[t].key = opened'[s].key
    <3>1. PICK t \in DOMAIN W : W[t].key = opened'[s].key
      BY <2>1
    <3>2. t \in Tracked' /\ slot'[t].key = opened'[s].key
      BY <1>1, <1>5, <3>1
    <3>3. t \in DOMAIN ledger' /\ ledger'[t].key = opened'[s].key
      BY <1>1, <1>3, <1>5, <3>1
    <3> QED BY <3>2, <3>3
  <2> QED BY <2>2 DEF KeysKept
<1>12. NeverSilentlyReopened'
  <2> SUFFICES ASSUME NEW s \in DOMAIN opened', NEW t \in DOMAIN opened',
                      s < t, opened'[s].key = opened'[t].key
               PROVE  opened'[t].reopen
    BY DEF NeverSilentlyReopened
  <2>1. CASE t = next
    <3>1. s # next /\ s \in DOMAIN opened
      BY <1>2, <1>5, <2>1 DEF Sessions
    <3> QED BY <1>2, <1>5, <2>1, <3>1
  <2>2. CASE t # next
    <3>1. t \in DOMAIN opened /\ s \in DOMAIN opened
      BY <1>2, <1>4, <1>5, <2>2 DEF Sessions
    <3> QED BY <1>5, <3>1 DEF TerminalsInv, NeverSilentlyReopened
  <2> QED BY <2>1, <2>2
<1>13. SeenSound' /\ InputUnderAttachment'
  BY <1>1 DEF SeenSound, InputUnderAttachment
<1>14. up'
  BY <1>2
<1> QED BY <1>5, <1>7, <1>8, <1>9, <1>10, <1>11, <1>12, <1>13, <1>14 DEF TerminalsInv

\* The tombstones may hold the session that failed to be scheduled.
LEMMA NotScheduledStep ==
    ASSUME TerminalsInv, NEW k \in KeySet, NEW reopen \in BOOLEAN,
           Admitted(k, reopen), NotScheduled(k), batch' \in BatchType,
           UNCHANGED <<up, quiescing, launchDead, process, bootstrapped, viewerVars>>
    PROVE  TerminalsInv'
<1> USE Held
<1> DEFINE W == With(k)
<1>1. /\ ledger' \in {ledger, Tombstones(W), Tombstones(slot)} /\ next' = next + 1
      /\ UNCHANGED <<slot, stage, opened, known, inputs, era, typed>>
      /\ Tracked' = Tracked
  BY DEF NotScheduled, viewerVars, Tracked
<1>2. /\ up /\ next \in Sessions /\ next \notin Tracked
      /\ W \in [DOMAIN W -> Slot]
      /\ DOMAIN W = (Tracked \ OfKey(k)) \cup {next}
      /\ W[next] = FreshSlot(k)
      /\ \A s \in Tracked \ OfKey(k) : W[s] = slot[s]
      /\ \A s \in Sessions : Lives(s) => s \in Tracked \ OfKey(k) /\ IsLive(s)
      /\ \A s \in DOMAIN opened :
           \E t \in DOMAIN W : W[t].key = opened[s].key
      /\ \A s \in DOMAIN opened : opened[s].key = k => reopen
  BY ScheduledSlots, ZenonT(40)
<1> HIDE DEF W
<1>3. /\ TerminalsTypeOK /\ Fresh /\ KeysKept /\ slot \in [DOMAIN slot -> Slot]
      /\ next \notin bootstrapped
      /\ ledger \in [DOMAIN ledger -> Tombstone]
  BY <1>2 DEF TerminalsInv, Fresh, Tracked, TerminalsTypeOK, Tombstone, Sessions
\* Whichever of the two was saved: its domain, its keys, its live records.
<1>4. ASSUME NEW sv \in {W, slot}
      PROVE  /\ sv \in [DOMAIN sv -> Slot]
             /\ DOMAIN sv \subseteq Tracked \cup {next}
             /\ \A s \in Sessions : Lives(s) => s \in DOMAIN sv /\ sv[s].state \in Live
             /\ \A s \in DOMAIN sv : s \in bootstrapped => sv[s].state # "preparing"
             /\ \A s \in DOMAIN opened :
                  \E t \in DOMAIN sv : sv[t].key = opened[s].key
  <2>1. CASE sv = slot
    <3>1. DOMAIN slot = Tracked
      BY DEF Tracked
    <3> QED BY <1>2, <1>3, <2>1, <3>1 DEF KeysKept, SlotSound, IsLive
  <2>2. CASE sv = W
    <3>1. \A s \in Sessions : Lives(s) => s \in DOMAIN W /\ W[s].state \in Live
      BY <1>2 DEF IsLive
    <3>2. \A s \in DOMAIN W : s \in bootstrapped => W[s].state # "preparing"
      BY <1>2, <1>3 DEF SlotSound
    <3> QED BY <1>2, <2>2, <3>1, <3>2
  <2> QED BY <2>1, <2>2
<1>5. /\ ledger' \in [DOMAIN ledger' -> Tombstone]
      /\ DOMAIN ledger' \subseteq DOMAIN ledger \cup Tracked \cup {next}
      /\ \A s \in Sessions : Lives(s) => s \in DOMAIN ledger' /\ ledger'[s].state \in Live
      /\ \A s \in DOMAIN ledger' : s \in bootstrapped => ledger'[s].state # "preparing"
      /\ \A s \in DOMAIN opened :
           \E t \in DOMAIN ledger' : ledger'[t].key = opened[s].key
  <2>1. CASE ledger' = ledger
    <3>1. \A s \in DOMAIN ledger : s \in Sessions
      BY <1>3 DEF Fresh
    <3> QED BY <1>3, <2>1, <3>1 DEF KeysKept, TerminalsInv, RecordSound
  <2>2. CASE ledger' # ledger
    <3>1. PICK sv \in {W, slot} : ledger' = Tombstones(sv)
      BY <1>1, <2>2
    <3>2. /\ sv \in [DOMAIN sv -> Slot]
          /\ DOMAIN sv \subseteq Tracked \cup {next}
          /\ \A s \in Sessions : Lives(s) => s \in DOMAIN sv /\ sv[s].state \in Live
          /\ \A s \in DOMAIN sv : s \in bootstrapped => sv[s].state # "preparing"
          /\ \A s \in DOMAIN opened :
               \E t \in DOMAIN sv : sv[t].key = opened[s].key
      BY <1>4
    <3>3. /\ ledger' \in [DOMAIN sv -> Tombstone] /\ DOMAIN ledger' = DOMAIN sv
          /\ \A s \in DOMAIN sv : /\ ledger'[s].key = sv[s].key
                                  /\ ledger'[s].state = sv[s].state
      BY <3>1, <3>2, TombstonesTyped
    <3>4. \A s \in Sessions : Lives(s) => s \in DOMAIN ledger' /\ ledger'[s].state \in Live
      BY <3>2, <3>3
    <3>5. \A s \in DOMAIN ledger' : s \in bootstrapped => ledger'[s].state # "preparing"
      BY <3>2, <3>3
    <3>6. \A s \in DOMAIN opened : \E t \in DOMAIN ledger' : ledger'[t].key = opened[s].key
      BY <3>2, <3>3
    <3> QED BY <3>2, <3>3, <3>4, <3>5, <3>6
  <2> QED BY <2>1, <2>2
<1>6. TerminalsTypeOK'
  BY <1>1, <1>2, <1>3, <1>5 DEF TerminalsTypeOK, Tombstone, Sessions
<1>7. Fresh'
  <2>1. ASSUME NEW s \in Tracked' \cup DOMAIN ledger' \cup DOMAIN opened' \cup bootstrapped'
        PROVE  s \in Sessions /\ s < next'
    <3>1. s \in Sessions /\ (s = next \/ s < next)
      BY <1>1, <1>2, <1>3, <1>5, <2>1 DEF Fresh
    <3> QED BY <1>1, <3>1 DEF Sessions
  <2>2. \A s \in Sessions : s >= next' => s >= next
    BY <1>1 DEF Sessions
  <2> QED BY <1>1, <1>3, <2>1, <2>2 DEF Fresh
<1>8. \A s \in Tracked : SlotSound(s)'
  BY <1>1 DEF SlotSound, IsLive
<1>9. \A s \in Sessions : ShellSound(s)'
  BY <1>1 DEF ShellSound, IsLive
<1>10. \A s \in Sessions : RecordSound(s)'
  <2>1. \A s \in Sessions : Lives(s)' = Lives(s)
    BY <1>1 DEF Lives
  <2> QED BY <1>5, <2>1 DEF RecordSound
<1>11. KeysKept' /\ NeverSilentlyReopened' /\ SeenSound' /\ InputUnderAttachment'
  BY <1>1, <1>3, <1>5
     DEF KeysKept, TerminalsInv, NeverSilentlyReopened, SeenSound, InputUnderAttachment
<1> QED BY <1>1, <1>2, <1>6, <1>7, <1>8, <1>9, <1>10, <1>11 DEF TerminalsInv

LEMMA StartTerminalStep ==
    ASSUME TerminalsInv, NEW k \in KeySet, NEW reopen \in BOOLEAN, StartTerminal(k, reopen)
    PROVE  TerminalsInv'
BY ScheduledStep, NotScheduledStep, Held DEF StartTerminal

LEMMA BatchStepStep ==
    ASSUME TerminalsInv, BatchStep
    PROVE  TerminalsInv'
<1> USE Held
<1>1. CASE batch.remaining = <<>>
  <2>1. /\ UNCHANGED <<actorVars, shellVars, era, known, inputs, typed>>
        /\ batch' = [batch EXCEPT !.state = "complete", !.waiting = None]
    BY <1>1 DEF BatchStep, actorVars, shellVars, viewerVars
  <2>2. batch' \in BatchType
    BY <2>1 DEF BatchType
  <2>3. known' \in [Viewers -> Seen] /\ SeenSound' /\ InputUnderAttachment'
        /\ inputs' \subseteq [client : Viewers, seen : Seen]
    BY <2>1 DEF SeenSound, InputUnderAttachment
  <2> QED BY <2>1, <2>2, <2>3, QuietStep
<1>2. CASE batch.remaining # <<>>
  <2> DEFINE k == Head(batch.remaining)
             rest == [batch EXCEPT !.remaining = Tail(@), !.waiting = None]
  <2>1. k \in KeySet /\ Tail(batch.remaining) \in Seq(KeySet)
    <3>1. batch.remaining \in Seq(KeySet)
      BY DEF BatchType
    <3> QED BY <1>2, <3>1
  <2>2. rest \in BatchType
    BY <2>1 DEF BatchType
  <2>3. \A w \in Sessions : [rest EXCEPT !.waiting = w] \in BatchType
    <3> HIDE DEF rest
    <3> QED BY <2>2 DEF BatchType
  <2>4. /\ \/ Admitted(k, FALSE) /\ Scheduled(k, FALSE) /\ batch' = [rest EXCEPT !.waiting = next]
           \/ Admitted(k, FALSE) /\ NotScheduled(k) /\ batch' = rest
           \/ /\ batch' = IF Given(k) = {} THEN rest
                          ELSE [rest EXCEPT !.waiting = CHOOSE s \in Given(k) : TRUE]
              /\ UNCHANGED <<slot, ledger, next, stage, opened>>
        /\ UNCHANGED <<up, quiescing, launchDead, process, bootstrapped, viewerVars>>
    BY <1>2 DEF BatchStep
  <2> HIDE DEF k, rest
  <2>5. CASE Admitted(k, FALSE) /\ Scheduled(k, FALSE) /\ batch' = [rest EXCEPT !.waiting = next]
    <3>1. batch' \in BatchType
      BY <2>3, <2>5 DEF Admitted
    <3> QED BY <2>1, <2>4, <2>5, <3>1, ScheduledStep
  <2>6. CASE Admitted(k, FALSE) /\ NotScheduled(k) /\ batch' = rest
    BY <2>1, <2>2, <2>4, <2>6, NotScheduledStep
  <2>7. CASE /\ batch' = IF Given(k) = {} THEN rest
                         ELSE [rest EXCEPT !.waiting = CHOOSE s \in Given(k) : TRUE]
             /\ UNCHANGED <<slot, ledger, next, stage, opened>>
    <3>1. Given(k) # {} => (CHOOSE s \in Given(k) : TRUE) \in Sessions
      <4>1. Given(k) \subseteq Sessions
        BY DEF Given, OfKey
      <4> QED BY <4>1
    <3>2. batch' \in BatchType
      BY <2>2, <2>3, <2>7, <3>1
    <3>3. UNCHANGED <<actorVars, shellVars, era, known, inputs, typed>>
      BY <2>4, <2>7 DEF actorVars, shellVars, viewerVars
    <3>4. known' \in [Viewers -> Seen] /\ SeenSound' /\ InputUnderAttachment'
          /\ inputs' \subseteq [client : Viewers, seen : Seen]
      BY <3>3 DEF SeenSound, InputUnderAttachment
    <3> QED BY <3>2, <3>3, <3>4, QuietStep
  <2> QED BY <2>4, <2>5, <2>6, <2>7
<1> QED BY <1>1, <1>2
-----------------------------------------------------------------------------
(* The end and the start of the host.                                      *)

LEMMA HostEndsStep ==
    ASSUME TerminalsInv, HostEnds
    PROVE  TerminalsInv'
<1> USE Held
<1>1. /\ up' = FALSE /\ slot' = <<>> /\ quiescing' = FALSE /\ launchDead' = FALSE
      /\ batch' = NoBatch
      /\ stage' = [s \in Sessions |-> "none"]
      /\ process' = [s \in Sessions |-> IF process[s] = "none" THEN "none" ELSE "gone"]
      /\ UNCHANGED <<ledger, next, bootstrapped, opened, known, inputs, era, typed>>
      /\ Tracked' = {}
  BY DEF HostEnds, viewerVars, Tracked
<1>2. batch' \in BatchType
  BY <1>1 DEF NoBatch, BatchType
<1>3. slot' \in [Tracked' -> Slot]
  BY <1>1
<1>4. TerminalsTypeOK'
  BY <1>1, <1>2, <1>3 DEF TerminalsInv, TerminalsTypeOK
<1>5. Fresh'
  BY <1>1 DEF TerminalsInv, Fresh
<1>6. KeysKept' /\ NeverSilentlyReopened' /\ SeenSound' /\ InputUnderAttachment'
  BY <1>1 DEF TerminalsInv, KeysKept, NeverSilentlyReopened, SeenSound, InputUnderAttachment
<1>7. \A s \in Sessions : stage'[s] = "none" /\ process'[s] \notin {"alive", "exited"}
  BY <1>1
<1>8. \A s \in Sessions : ShellSound(s)' /\ RecordSound(s)'
  BY <1>1, <1>7 DEF TerminalsInv, ShellSound, RecordSound, Lives
<1> QED BY <1>1, <1>4, <1>5, <1>6, <1>8 DEF TerminalsInv

\* Whatever the last host left is restored as ended, and no shell is alive.
LEMMA HostStartsStep ==
    ASSUME TerminalsInv, HostStarts
    PROVE  TerminalsInv'
<1> USE Held
<1>1. /\ ~up /\ up'
      /\ slot' = [s \in DOMAIN ledger |-> Restored(ledger[s])]
      /\ ledger' = Tombstones(slot')
      /\ UNCHANGED <<next, quiescing, launchDead, batch, known, inputs, era, typed>>
      /\ UNCHANGED <<stage, process, bootstrapped, opened>>
      /\ Tracked' = DOMAIN ledger
  BY DEF HostStarts, shellVars, viewerVars, Tracked
<1>2. /\ Tracked = {} /\ Fresh /\ TerminalsTypeOK /\ KeysKept
      /\ ledger \in [DOMAIN ledger -> Tombstone]
      /\ DOMAIN ledger \subseteq Sessions
  BY <1>1 DEF TerminalsInv, TerminalsTypeOK, Tombstone, Fresh
<1>3. \A s \in DOMAIN ledger :
         /\ slot'[s] \in Slot /\ slot'[s].key = ledger[s].key
         /\ slot'[s].state \in Ended /\ ~slot'[s].runtime
  <2> TAKE s \in DOMAIN ledger
  <2>1. slot'[s] = Restored(ledger[s]) /\ ledger[s] \in Tombstone
    BY <1>1, <1>2
  <2>2. 0 \in 0..MaxEpoch
    BY TerminalsAssumption
  <2>3. /\ (IF ledger[s].state \in Live THEN "unknown" ELSE ledger[s].state) \in Ended
        /\ ledger[s].key \in KeySet
    BY <2>1 DEF Tombstone, Ended
  <2> QED BY <2>1, <2>2, <2>3 DEF Restored, Slot, KeySet
<1>4. slot' \in [Tracked' -> Slot]
  BY <1>1, <1>3
<1>5. /\ ledger' \in [Tracked' -> Tombstone] /\ DOMAIN ledger' = Tracked'
      /\ \A s \in Tracked' : /\ ledger'[s].key = slot'[s].key
                             /\ ledger'[s].state = slot'[s].state
  <2>1. DOMAIN slot' = Tracked'
    BY <1>4
  <2> QED BY <1>1, <1>4, <2>1, TombstonesTyped
<1>6. TerminalsTypeOK'
  BY <1>1, <1>2, <1>4, <1>5 DEF TerminalsTypeOK, Tombstone
<1>7. Fresh'
  BY <1>1, <1>2, <1>5 DEF Fresh
<1>8. \A s \in Tracked' : SlotSound(s)'
  BY <1>1, <1>3 DEF SlotSound, IsLive, Live, Ended
<1>9. \A s \in Sessions : ~Lives(s)' /\ stage'[s] = "none" /\ process'[s] \notin {"alive", "exited"}
  BY <1>1, <1>2 DEF ShellSound, Lives
<1>10. \A s \in Sessions : ShellSound(s)'
  BY <1>9 DEF ShellSound
<1>11. \A s \in Sessions : RecordSound(s)'
  <2>1. ASSUME NEW s \in DOMAIN ledger' PROVE ledger'[s].state # "preparing"
    <3>1. s \in Tracked' /\ ledger'[s].state = slot'[s].state
      BY <1>5
    <3> QED BY <1>1, <1>3, <3>1 DEF Ended
  <2> QED BY <1>9, <2>1 DEF RecordSound
<1>12. KeysKept'
  <2> SUFFICES ASSUME NEW s \in DOMAIN opened
               PROVE  /\ \E t \in Tracked' : slot'[t].key = opened[s].key
                      /\ \E t \in DOMAIN ledger' : ledger'[t].key = opened[s].key
    BY <1>1 DEF KeysKept
  <2>1. PICK t \in DOMAIN ledger : ledger[t].key = opened[s].key
    BY <1>2 DEF KeysKept
  <2> QED BY <1>1, <1>3, <1>5, <2>1
<1>13. NeverSilentlyReopened' /\ SeenSound' /\ InputUnderAttachment'
  BY <1>1 DEF TerminalsInv, NeverSilentlyReopened, SeenSound, InputUnderAttachment
<1> QED BY <1>1, <1>6, <1>7, <1>8, <1>10, <1>11, <1>12, <1>13 DEF TerminalsInv
-----------------------------------------------------------------------------
LEMMA SessionStepStep ==
    ASSUME TerminalsInv, NEW s \in Sessions, SessionStep(s)
    PROVE  TerminalsInv'
BY PrepareStep, SettlesStep, ShellExitsStep, AcceptRefusedStep, ObserveShellExitStep,
   ReapShellStep, AcceptRuntimeStep DEF SessionStep

LEMMA ViewerStepStep ==
    ASSUME TerminalsInv, NEW c \in Viewers, ViewerStep(c)
    PROVE  TerminalsInv'
BY SendInputStep, AttachStep, DetachStep, CloseTerminalStep DEF ViewerStep

LEMMA TerminalsInvStep == TerminalsInv /\ [TerminalsNext]_terminalVars => TerminalsInv'
<1> SUFFICES ASSUME TerminalsInv, [TerminalsNext]_terminalVars PROVE TerminalsInv'
  OBVIOUS
<1>1. ASSUME NEW k \in KeySet, NEW reopen \in BOOLEAN, StartTerminal(k, reopen)
      PROVE  TerminalsInv'
  BY <1>1, StartTerminalStep
<1>2. ASSUME NEW s \in Sessions, SessionStep(s) PROVE TerminalsInv'
  BY <1>2, SessionStepStep
<1>3. ASSUME NEW c \in Viewers, ViewerStep(c) PROVE TerminalsInv'
  BY <1>3, ViewerStepStep
<1>4. ASSUME NEW m \in inputs, Input(m) PROVE TerminalsInv'
  BY <1>4, InputStep
<1>5. ASSUME NEW shutdown \in BOOLEAN, NEW ok \in BOOLEAN, CloseReviewed(shutdown, ok)
      PROVE  TerminalsInv'
  BY <1>5, CloseReviewedStep
<1>6. ASSUME NEW ok \in BOOLEAN, LaunchWorkerDies(ok) PROVE TerminalsInv'
  BY <1>6, LaunchWorkerDiesStep
<1>7. CASE BatchNext
  BY <1>7, BatchQuiet, BatchStepStep DEF BatchNext
<1>8. CASE HostEnds \/ HostStarts
  BY <1>8, HostEndsStep, HostStartsStep
<1>9. CASE UNCHANGED terminalVars
  <2>1. /\ UNCHANGED <<actorVars, shellVars, era, known, inputs, typed, batch>>
        /\ batch \in BatchType /\ known \in [Viewers -> Seen]
        /\ inputs \subseteq [client : Viewers, seen : Seen] /\ SeenSound /\ InputUnderAttachment
    BY <1>9, Held DEF terminalVars, viewerVars
  <2>2. SeenSound' /\ InputUnderAttachment'
    BY <2>1 DEF SeenSound, InputUnderAttachment
  <2> QED BY <2>1, <2>2, QuietStep
<1> QED BY <1>1, <1>2, <1>3, <1>4, <1>5, <1>6, <1>7, <1>8, <1>9 DEF TerminalsNext

\* TerminalsInv is an inductive invariant of the terminals of a host and of
\* the hosts that follow it: through schedules that fail, a launch worker that
\* dies, saves that fail or become visible anyway, takeovers and restarts
\* (host/actor.rs, host/launch.rs).
THEOREM TerminalsInvariance == TerminalsSpec => []TerminalsInv
<1>1. TerminalsInit => TerminalsInv
  BY TerminalsInvInit
<1>2. TerminalsInv /\ [TerminalsNext]_terminalVars => TerminalsInv'
  BY TerminalsInvStep
<1> QED BY <1>1, <1>2, PTL DEF TerminalsSpec

\* What a client types reaches a shell only under the attachment it was typed
\* under, however late it arrives: a takeover, a detach, or another attachment
\* of the same client moves the epoch (actor.rs:105-115).
THEOREM InputAlwaysUnderAttachment == TerminalsSpec => []InputUnderAttachment
<1>1. TerminalsInv => InputUnderAttachment
  BY DEF TerminalsInv
<1> QED BY <1>1, TerminalsInvariance, PTL

\* A terminal that any host opened before is opened again only on request, and
\* what lives is recorded as live, so that the host after a crash reports it
\* as unknown instead of starting it a second time (actor.rs:911, 1668, 1907).
THEOREM ReopenAlwaysSafe == TerminalsSpec => []ReopenSafety
<1>1. TerminalsInv => ReopenSafety
  <2> SUFFICES ASSUME TerminalsInv PROVE ReopenSafety
    OBVIOUS
  <2>1. NeverSilentlyReopened
    BY DEF TerminalsInv
  <2>2. DOMAIN stage = Sessions
    BY DEF TerminalsInv, TerminalsTypeOK
  <2>3. \A s \in Sessions : RecordSound(s)
    BY DEF TerminalsInv
  <2> QED BY <2>1, <2>2, <2>3 DEF ReopenSafety, TombstonesCover, RecordSound, Lives
<1> QED BY <1>1, TerminalsInvariance, PTL

-----------------------------------------------------------------------------
\* Nothing is taken away that belongs to a living other: only processes of the
\* terminal are signalled (actor.rs:1360), and no host's socket is removed
\* while it listens (host.rs, remove_stale_socket).
THEOREM NothingForeignEverTaken == StartSpec /\ InventorySpec => NothingForeignTaken
BY EndpointAlwaysPreserved, OnlyOwnAlwaysSignalled DEF NothingForeignTaken
=============================================================================
