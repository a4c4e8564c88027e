--------------------------- MODULE RegistryCache ---------------------------
(***************************************************************************)
(* A process's cached copy of what SSM holds about one Agent Silo: the     *)
(* AgentRegistry of the orchestrator, whose lookups run on the event loop  *)
(* and on the thread pool of the synchronous handlers, and _routes_now of  *)
(* the vector indexer, which has one thread.                               *)
(*                                                                         *)
(*   params  the silo's parameters in SSM: the version of the silo stack   *)
(*           that wrote each of them, Absent where there is none           *)
(*   cache   the copy                                                      *)
(*   age     time since _loaded_at, up to TTL + 1                          *)
(*   load    the load each thread is in: the parameters it has got so far  *)
(*           and the time since it began                                   *)
(***************************************************************************)
EXTENDS Naturals

CONSTANTS
  Fields,     \* /cloudrag/{stage}/agents/{id}/*
  Versions,   \* of the silo stack
  Absent,     \* no such parameter
  Threads,    \* that may load
  TTL,        \* _TTL_SECONDS, ROUTES_TTL_SECONDS
  LoadTime,   \* the longest a load takes, boto3's timeouts and retries included
  Alone       \* the cache is reloaded while it is empty, and no other silo fills it

Database == "database"

ASSUME CacheIsConfigured ==
  /\ Database \in Fields
  /\ Absent \notin Versions
  /\ TTL \in Nat /\ LoadTime \in Nat
  /\ Alone \in BOOLEAN

VARIABLES params, cache, age, load

View == [Fields -> Versions \cup {Absent}]
Nothing == [f \in Fields |-> Absent]

Load ==
  [pc : {"idle", "reading", "assigned"}, read : SUBSET Fields, got : View,
   elapsed : 0..LoadTime]
NoLoad == [pc |-> "idle", read |-> {}, got |-> Nothing, elapsed |-> 0]

CacheTypeOK ==
  /\ params \in View
  /\ cache \in View
  /\ age \in 0..TTL + 1
  /\ load \in [Threads -> Load]

\* Never loaded yet: _loaded_at is 0.0, _routes is None.
CacheInit ==
  /\ cache = Nothing
  /\ age = TTL + 1
  /\ load = [t \in Threads |-> NoLoad]

\* A lookup is answered from the cache unless this holds.
Expired == age > TTL \/ (Alone /\ cache[Database] = Absent)

\* "incomplete registration, skip"
Usable(v) == IF v[Database] = Absent THEN Nothing ELSE v

-----------------------------------------------------------------------------
\* Faulty variant: the stamp is set first, so that only one thread loads.
StampFirst(t) ==
  /\ load[t].pc = "idle"
  /\ Expired
  /\ load' = [load EXCEPT ![t] = [NoLoad EXCEPT !.pc = "reading"]]
  /\ age' = 0
  /\ UNCHANGED <<params, cache>>

StartLoad(t) ==
  /\ load[t].pc = "idle"
  /\ Expired
  /\ load' = [load EXCEPT ![t] = [NoLoad EXCEPT !.pc = "reading"]]
  /\ UNCHANGED <<params, cache, age>>

\* One page of get_parameters_by_path: some of the parameters as they are now.
ReadPage(t, P) ==
  /\ load[t].pc = "reading"
  /\ P # {} /\ P \subseteq Fields \ load[t].read
  /\ load' = [load EXCEPT
       ![t] = [pc |-> "reading",
               read |-> load[t].read \cup P,
               got |-> [f \in Fields |-> IF f \in P THEN params[f] ELSE load[t].got[f]],
               elapsed |-> load[t].elapsed]]
  /\ UNCHANGED <<params, cache, age>>

\* self._cache = self._load()
Assign(t) ==
  /\ load[t].pc = "reading"
  /\ load[t].read = Fields
  /\ cache' = Usable(load[t].got)
  /\ load' = [load EXCEPT ![t] = [NoLoad EXCEPT !.pc = "assigned", !.elapsed = load[t].elapsed]]
  /\ UNCHANGED <<params, age>>

\* self._loaded_at = time.monotonic()
Stamp(t) ==
  /\ load[t].pc = "assigned"
  /\ age' = 0
  /\ load' = [load EXCEPT ![t] = NoLoad]
  /\ UNCHANGED <<params, cache>>

\* SSM throttles or fails; the request that loads fails with it.
FailLoad(t) ==
  /\ load[t].pc = "reading"
  /\ load' = [load EXCEPT ![t] = NoLoad]
  /\ UNCHANGED <<params, cache, age>>

Later(n, bound) == IF n < bound THEN n + 1 ELSE bound

\* Faulty variant: nothing bounds a load.
AgeUnbounded ==
  /\ age' = Later(age, TTL + 1)
  /\ load' = [t \in Threads |->
       IF load[t].pc = "idle" THEN load[t]
       ELSE [load[t] EXCEPT !.elapsed = @ + 1]]
  /\ UNCHANGED <<params, cache>>

\* One unit of time; no load takes longer than LoadTime.
Age ==
  /\ \A t \in Threads : load[t].pc # "idle" => load[t].elapsed < LoadTime
  /\ age' = Later(age, TTL + 1)
  /\ load' = [t \in Threads |->
       IF load[t].pc = "idle" THEN load[t]
       ELSE [load[t] EXCEPT !.elapsed = @ + 1]]
  /\ UNCHANGED <<params, cache>>

CacheNext ==
  \E t \in Threads :
    \/ StartLoad(t) \/ Assign(t) \/ Stamp(t) \/ FailLoad(t)
    \/ \E P \in SUBSET Fields : ReadPage(t, P)
=============================================================================
