--------------------------- MODULE AgentRegistry ---------------------------
(***************************************************************************)
(* The orchestrator's registry while deployments write SSM: how far what   *)
(* it serves may lie behind.                                               *)
(*                                                                         *)
(*   stable  time since SSM last changed, up to Horizon + 1                *)
(***************************************************************************)
EXTENDS RegistryCache

VARIABLE stable

registryVars == <<params, cache, age, load, stable>>

\* What is read at the start of a load of LoadTime is assigned at its end; the
\* stamp of another thread, whose own load took as long, may come after that;
\* and it counts for TTL from there.
Horizon == TTL + 2 * LoadTime

RegistryTypeOK ==
  /\ CacheTypeOK
  /\ stable \in 0..Horizon + 1

RegistryInit ==
  /\ params = Nothing
  /\ CacheInit
  /\ stable = Horizon + 1

\* CloudFormation creates, updates or deletes one parameter.
Put(f, v) ==
  /\ params[f] # v
  /\ params' = [params EXCEPT ![f] = v]
  /\ stable' = 0
  /\ UNCHANGED <<cache, age, load>>

Tick ==
  /\ Age
  /\ stable' = Later(stable, Horizon + 1)

RegistryNext ==
  \/ \E f \in Fields, v \in Versions \cup {Absent} : Put(f, v)
  \/ CacheNext /\ UNCHANGED stable
  \/ Tick

RegistrySpec == RegistryInit /\ [][RegistryNext]_registryVars

-----------------------------------------------------------------------------
(* Properties *)

\* "New agents therefore appear without redeploying the orchestrator", and
\* removed or re-laddered ones do not linger: once SSM has been left alone for
\* longer than Horizon, no lookup is answered with anything but what SSM holds,
\* however many threads load at a time, from whatever pages, and whichever of
\* them assigns last.
ServesNothingOlder ==
  stable > Horizon => Expired \/ cache = Usable(params)

-----------------------------------------------------------------------------
(* The inductive invariant *)

\* What a thread has read so far was right when its load began or later ...
ReadInv(t) ==
  load[t].pc = "reading" =>
    \A f \in load[t].read : load[t].got[f] = params[f] \/ stable <= load[t].elapsed

\* ... what is in the cache when a thread is about to stamp it was assigned by
\* that thread or after it, from a load of at most LoadTime ...
AssignedInv(t) ==
  load[t].pc = "assigned" =>
    cache = Usable(params) \/ stable <= load[t].elapsed + LoadTime

\* ... and what has been stamped is that much older than its stamp, at most.
CacheInv ==
  cache = Usable(params) \/ age > TTL \/ stable <= age + 2 * LoadTime

RegistryInv ==
  /\ RegistryTypeOK
  /\ \A t \in Threads : ReadInv(t) /\ AssignedInv(t)
  /\ CacheInv
=============================================================================
