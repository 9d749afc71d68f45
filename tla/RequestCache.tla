---------------------------- MODULE RequestCache ----------------------------
(***************************************************************************)
(* How a request travels from a client to the actor of a host: it is bound *)
(* to one host instance and one deadline (client.rs, protocol.rs), it may  *)
(* be lost or sent again unchanged, and the actor remembers the answer of  *)
(* every mutation until the deadline, so that a second copy is answered    *)
(* and not executed (Actor::respond_checked in host/actor.rs).             *)
(*                                                                         *)
(* Time is a counter.  It may advance between the actor's validation of a  *)
(* copy and the handling of it, because the code reads the clock twice.    *)
(***************************************************************************)
EXTENDS Naturals, FiniteSets

CONSTANTS
  Clients,        \* client identities
  Envelopes,      \* requests the clients may make
  ClientOf,       \* the client that makes an envelope
  Key,            \* its client and request ID: the key of the retry cache
  Mutating,       \* the envelopes whose request is_mutating
  Lifetime,       \* the longest deadline a request may have
  IdentityTTL,    \* how long a silent client is remembered
  ClientLimit,    \* at most so many remembered clients
  CacheLimit,     \* at most so many cached answers
  MaxTime, MaxInstances, MaxCopies   \* bounds of the exploration

ASSUME CacheAssumption ==
  /\ ClientOf \in [Envelopes -> Clients]
  /\ Mutating \subseteq Envelopes
  /\ \A e, f \in Envelopes : Key[e] = Key[f] => ClientOf[e] = ClientOf[f]
  /\ {Lifetime, IdentityTTL, ClientLimit, CacheLimit} \subseteq Nat
  /\ {MaxTime, MaxInstances, MaxCopies} \subseteq Nat

NoHost == 0
Unseen == MaxTime + 1     \* not a time: the actor does not know the client

VARIABLES
  now,         \* the monotonic clock both sides read
  instance,    \* the running host, NoHost when none runs
  started,     \* the number of hosts started
  view,        \* the instance each client's handshake named
  addressed,   \* the instance an envelope names, NoHost before it is made
  deadline,    \* its deadline
  copies,      \* copies of it in a connection or in the actor's queue
  handling,    \* the set of validated copies the actor handles: one or none
  seen,        \* when the actor last heard of a client, or Unseen
  cache,       \* the envelopes whose answers are cached
  runs,        \* how often a mutation was executed
  ranOn        \* the hosts that executed it

vars == <<now, instance, started, view, addressed, deadline, copies,
          handling, seen, cache, runs, ranOn>>

hostVars == <<instance, started>>
clientVars == <<view, addressed, deadline>>
effectVars == <<runs, ranOn>>

Init ==
  /\ now = 0
  /\ instance = NoHost /\ started = 0
  /\ view = [c \in Clients |-> NoHost]
  /\ addressed = [e \in Envelopes |-> NoHost]
  /\ deadline = [e \in Envelopes |-> 0]
  /\ copies = [e \in Envelopes |-> 0]
  /\ handling = {}
  /\ seen = [c \in Clients |-> Unseen]
  /\ cache = {}
  /\ runs = [e \in Envelopes |-> 0]
  /\ ranOn = [e \in Envelopes |-> {}]

-----------------------------------------------------------------------------
(* What every request does first.                                          *)

Valid(e) == deadline[e] > now /\ deadline[e] <= now + Lifetime

\* Clients that were heard of lately, and those that own some input, which is
\* state of the terminals and of the Git bridge.
RememberedClients(known) ==
  /\ known \subseteq {c \in Clients : seen[c] # Unseen}
  /\ \A c \in Clients :
        seen[c] # Unseen /\ now < seen[c] + IdentityTTL => c \in known

Refreshed(known, c) ==
  [d \in Clients |->
     IF d = c THEN now ELSE IF d \in known THEN seen[d] ELSE Unseen]

Retained == {e \in cache : deadline[e] > now}

-----------------------------------------------------------------------------
(* The client.                                                             *)

\* The handshake, the one request that names no host and registers a client.
\* Every connection takes a new identity, so a client whose handshake was heard
\* never repeats it; one that was not heard counts until it is forgotten.
Hello(c) ==
  /\ instance # NoHost /\ handling = {}
  /\ view[c] = NoHost /\ seen[c] = Unseen
  /\ \E known \in SUBSET Clients :
        /\ RememberedClients(known)
        /\ Cardinality(known) < ClientLimit
        /\ seen' = Refreshed(known, c)
  /\ cache' = Retained
  /\ \/ view' = [view EXCEPT ![c] = instance]
     \/ UNCHANGED view
  /\ UNCHANGED <<now, hostVars, addressed, deadline, copies, handling, effectVars>>

Make(e, lifetime) ==
  /\ view[ClientOf[e]] # NoHost /\ addressed[e] = NoHost
  /\ addressed' = [addressed EXCEPT ![e] = view[ClientOf[e]]]
  /\ deadline' = [deadline EXCEPT ![e] = now + lifetime]
  /\ UNCHANGED <<now, hostVars, view, copies, handling, seen, cache, effectVars>>

\* The same envelope, once or again: a client that is unsure of the outcome may
\* repeat it unchanged, to whatever host answers at the socket.
Send(e) ==
  /\ addressed[e] # NoHost /\ Valid(e)
  /\ instance # NoHost /\ copies[e] < MaxCopies
  /\ copies' = [copies EXCEPT ![e] = @ + 1]
  /\ UNCHANGED <<now, hostVars, clientVars, handling, seen, cache, effectVars>>

\* The connection breaks or the queue of the actor is full.
Lose(e) ==
  /\ copies[e] > 0
  /\ copies' = [copies EXCEPT ![e] = @ - 1]
  /\ UNCHANGED <<now, hostVars, clientVars, handling, seen, cache, effectVars>>

-----------------------------------------------------------------------------
(* The actor: respond_checked.                                             *)

\* Mutant: the host an envelope names is not compared.
AcceptsMutant(e) == Valid(e)

Accepts(e) == Valid(e) /\ addressed[e] = instance

\* The deadline is validated and the host compared; a refused copy is gone.
Check(e) ==
  /\ instance # NoHost /\ handling = {} /\ copies[e] > 0
  /\ copies' = [copies EXCEPT ![e] = @ - 1]
  /\ handling' = IF Accepts(e) THEN {e} ELSE {}
  /\ UNCHANGED <<now, hostVars, clientVars, seen, cache, effectVars>>

Cached(e) == \E f \in Retained : Key[f] = Key[e]
CacheFull == Cardinality(Retained) >= CacheLimit

\* A forgotten client is refused before the cache is looked at.
Forgotten(e) ==
  /\ e \in handling
  /\ \E known \in SUBSET Clients :
        /\ RememberedClients(known) /\ ClientOf[e] \notin known
        /\ seen' = [c \in Clients |-> IF c \in known THEN seen[c] ELSE Unseen]
  /\ handling' = {}
  /\ UNCHANGED <<now, hostVars, clientVars, copies, cache, effectVars>>

Known(e) ==
  /\ e \in handling
  /\ \E known \in SUBSET Clients :
        /\ RememberedClients(known) /\ ClientOf[e] \in known
        /\ seen' = Refreshed(known, ClientOf[e])
  /\ handling' = {}

\* A copy of what was answered gets the cached answer; the key with another
\* content, a mutation that finds the cache full, and a read change nothing.
Answer(e) ==
  /\ Known(e)
  /\ Cached(e) \/ e \notin Mutating \/ CacheFull
  /\ cache' = Retained
  /\ UNCHANGED <<now, hostVars, clientVars, copies, effectVars>>

\* Mutant: a full cache is emptied to make room.
ExecuteFullMutant(e) ==
  /\ Known(e)
  /\ ~Cached(e) /\ e \in Mutating
  /\ cache' = (IF CacheFull THEN {} ELSE Retained) \cup {e}
  /\ runs' = [runs EXCEPT ![e] = @ + 1]
  /\ ranOn' = [ranOn EXCEPT ![e] = @ \cup {instance}]
  /\ UNCHANGED <<now, hostVars, clientVars, copies>>

\* A mutation is executed, whatever its outcome, and its answer kept.
Execute(e) ==
  /\ Known(e)
  /\ ~Cached(e) /\ e \in Mutating /\ ~CacheFull
  /\ cache' = Retained \cup {e}
  /\ runs' = [runs EXCEPT ![e] = @ + 1]
  /\ ranOn' = [ranOn EXCEPT ![e] = @ \cup {instance}]
  /\ UNCHANGED <<now, hostVars, clientVars, copies>>

-----------------------------------------------------------------------------
(* Time, and the life of hosts.                                            *)

Tick ==
  /\ now < MaxTime
  /\ now' = now + 1
  /\ UNCHANGED <<hostVars, clientVars, copies, handling, seen, cache, effectVars>>

Start ==
  /\ instance = NoHost /\ started < MaxInstances
  /\ started' = started + 1
  /\ instance' = started + 1
  /\ UNCHANGED <<now, clientVars, copies, handling, seen, cache, effectVars>>

\* A host that ends takes its connections, its queue and its cache with it.
Crash ==
  /\ instance # NoHost
  /\ instance' = NoHost
  /\ copies' = [e \in Envelopes |-> 0]
  /\ handling' = {} /\ cache' = {}
  /\ seen' = [c \in Clients |-> Unseen]
  /\ UNCHANGED <<now, started, clientVars, effectVars>>

Next ==
  \/ \E c \in Clients : Hello(c)
  \/ \E e \in Envelopes, lifetime \in 1..Lifetime : Make(e, lifetime)
  \/ \E e \in Envelopes : Send(e) \/ Lose(e)
  \/ \E e \in Envelopes : Check(e) \/ Forgotten(e) \/ Answer(e) \/ Execute(e)
  \/ Tick \/ Start \/ Crash

Spec == Init /\ [][Next]_vars

-----------------------------------------------------------------------------
(* Types.                                                                  *)

Times == 0..MaxTime

\* The variables have their types, the actor handles one request at a time, an
\* executed mutation was addressed, and without a host nothing is remembered
\* (Actor and Envelope; the cache is a map by key).
CacheTypeOK ==
  /\ now \in Times
  /\ started \in 0..MaxInstances
  /\ instance \in 0..started
  /\ view \in [Clients -> 0..started]
  /\ addressed \in [Envelopes -> 0..started]
  /\ deadline \in [Envelopes -> 0..(MaxTime + Lifetime)]
  /\ copies \in [Envelopes -> 0..MaxCopies]
  /\ handling \in SUBSET Envelopes
  /\ \A e, f \in handling : e = f
  /\ seen \in [Clients -> Times \cup {Unseen}]
  /\ cache \in SUBSET Mutating
  /\ \A e, f \in cache : Key[e] = Key[f] => e = f
  /\ runs \in [Envelopes -> Nat]
  /\ ranOn \in [Envelopes -> SUBSET (1..started)]
  /\ instance = NoHost => handling = {} /\ cache = {}

-----------------------------------------------------------------------------
(* Properties.                                                             *)

\* The actor handles only requests that name its host, and a mutation is
\* executed by the host its envelope names and by no other, although a client
\* keeps sending an old envelope to the socket of a new host (respond_checked
\* compares host_instance).
OnlyAddressedHost ==
  /\ \A e \in handling : addressed[e] = instance
  /\ \A e \in Envelopes : ranOn[e] \subseteq {addressed[e]}

\* As long as the host that executed a mutation runs and the deadline has not
\* passed, the answer is in the cache: neither a full cache, nor a client that
\* was forgotten, nor a handshake makes the actor forget what it did.
CacheCoversRetry ==
  \A e \in Envelopes :
     instance \in ranOn[e] /\ deadline[e] > now => e \in cache

\* A mutation that was executed is not executed again before its deadline, and
\* its request ID is not used for another content meanwhile.
OnceWhileLive ==
  [][runs' # runs => \A e, f \in Envelopes :
        /\ Key[e] = Key[f] /\ instance \in ranOn[e]
        /\ runs'[f] # runs[f]
        => deadline[e] <= now]_vars

\* An envelope is executed at most once however often it is sent.
ExecutedOnce == \A e \in Envelopes : runs[e] <= 1

\* A host handles only what is addressed to it, and keeps the answer of what it
\* did as long as a copy of the request may come (actor.rs:280-330).
CacheSafety == OnlyAddressedHost /\ CacheCoversRetry
=============================================================================
