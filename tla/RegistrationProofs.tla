------------------------- MODULE RegistrationProofs -------------------------
(***************************************************************************)
(* The registry of the orchestrator: how far it lies behind SSM, for every *)
(* TTL, every load time and any number of threads that load at once; that  *)
(* a silo's registration is such a registry; and what one that is only     *)
(* partly there gives away, for every configuration.                       *)
(***************************************************************************)
EXTENDS Registration, TLAPS

-----------------------------------------------------------------------------
(* The registry under arbitrary writes *)

\* The empty registry is where everything starts.
LEMMA InitRegistryInv == RegistryInit => RegistryInv
<1> SUFFICES ASSUME RegistryInit PROVE RegistryInv
  OBVIOUS
<1>1. Nothing \in View /\ NoLoad \in Load
  BY CacheIsConfigured DEF Nothing, View, NoLoad, Load
<1>2. RegistryTypeOK
  BY <1>1, CacheIsConfigured DEF RegistryInit, CacheInit, RegistryTypeOK, CacheTypeOK, Horizon
<1>3. \A t \in Threads : load[t].pc = "idle"
  BY DEF RegistryInit, CacheInit, NoLoad
<1>4. CacheInv
  BY DEF RegistryInit, CacheInit, CacheInv, Usable, Nothing
<1> QED
  BY <1>2, <1>3, <1>4 DEF RegistryInv, ReadInv, AssignedInv

\* A write to SSM makes everything that was read a moment older than it.
LEMMA PutRegistryInv ==
  ASSUME RegistryInv, NEW f \in Fields, NEW v \in Versions \cup {Absent}, Put(f, v)
  PROVE  RegistryInv'
<1>1. RegistryTypeOK'
  BY CacheIsConfigured DEF Put, RegistryInv, RegistryTypeOK, CacheTypeOK, View, Horizon
<1>2. stable' = 0 /\ UNCHANGED <<cache, age, load>>
  BY DEF Put
<1>3. \A t \in Threads : load[t].elapsed \in 0..LoadTime
  BY DEF RegistryInv, RegistryTypeOK, CacheTypeOK, Load
<1>4. \A t \in Threads : ReadInv(t)'
  BY <1>2, <1>3, CacheIsConfigured DEF ReadInv
<1>5. \A t \in Threads : AssignedInv(t)'
  BY <1>2, <1>3, CacheIsConfigured DEF AssignedInv
<1>6. CacheInv'
  BY <1>2, CacheIsConfigured DEF CacheInv, RegistryInv, RegistryTypeOK, CacheTypeOK
<1> QED
  BY <1>1, <1>4, <1>5, <1>6 DEF RegistryInv

\* A thread that begins to load, or gives up, has read nothing.
LEMMA BeginRegistryInv ==
  ASSUME RegistryInv, NEW t \in Threads, StartLoad(t) \/ FailLoad(t), UNCHANGED stable
  PROVE  RegistryInv'
<1>1. UNCHANGED <<params, cache, age, stable>>
  BY DEF StartLoad, FailLoad
<1>2. NoLoad \in Load /\ [NoLoad EXCEPT !.pc = "reading"] \in Load
  BY CacheIsConfigured DEF NoLoad, Load, Nothing, View
<1>3. load' \in [Threads -> Load]
  BY <1>2 DEF StartLoad, FailLoad, RegistryInv, RegistryTypeOK, CacheTypeOK
<1>4. load'[t].pc # "assigned" /\ load'[t].read = {}
  BY DEF StartLoad, FailLoad, NoLoad, RegistryInv, RegistryTypeOK, CacheTypeOK
<1>5. \A u \in Threads \ {t} : load'[u] = load[u]
  BY DEF StartLoad, FailLoad, RegistryInv, RegistryTypeOK, CacheTypeOK
<1>6. \A u \in Threads : ReadInv(u)' /\ AssignedInv(u)'
  BY <1>1, <1>4, <1>5 DEF RegistryInv, ReadInv, AssignedInv, Usable, Nothing
<1>7. RegistryTypeOK' /\ CacheInv'
  BY <1>1, <1>3 DEF RegistryInv, RegistryTypeOK, CacheTypeOK, CacheInv, Usable, Nothing
<1> QED
  BY <1>6, <1>7 DEF RegistryInv

\* A page holds the parameters as they are.
LEMMA PageRegistryInv ==
  ASSUME RegistryInv, NEW t \in Threads, NEW P \in SUBSET Fields, ReadPage(t, P),
         UNCHANGED stable
  PROVE  RegistryInv'
<1>1. UNCHANGED <<params, cache, age, stable>>
  BY DEF ReadPage
<1>2. /\ load[t] \in Load /\ load[t].pc = "reading"
      /\ load' = [load EXCEPT
           ![t] = [pc |-> "reading",
                   read |-> load[t].read \cup P,
                   got |-> [f \in Fields |-> IF f \in P THEN params[f] ELSE load[t].got[f]],
                   elapsed |-> load[t].elapsed]]
  BY DEF ReadPage, RegistryInv, RegistryTypeOK, CacheTypeOK
<1>3. load' \in [Threads -> Load]
  BY <1>2 DEF RegistryInv, RegistryTypeOK, CacheTypeOK, Load, View
<1>4. \A u \in Threads \ {t} : load'[u] = load[u]
  BY <1>2 DEF RegistryInv, RegistryTypeOK, CacheTypeOK
<1>5. ReadInv(t)' /\ AssignedInv(t)'
  <2>1. load'[t] = [pc |-> "reading",
                    read |-> load[t].read \cup P,
                    got |-> [f \in Fields |-> IF f \in P THEN params[f] ELSE load[t].got[f]],
                    elapsed |-> load[t].elapsed]
    BY <1>2 DEF RegistryInv, RegistryTypeOK, CacheTypeOK
  <2>2. \A f \in load[t].read : load[t].got[f] = params[f] \/ stable <= load[t].elapsed
    BY <1>2 DEF RegistryInv, ReadInv
  <2> QED
    BY <1>1, <1>2, <2>1, <2>2 DEF ReadInv, AssignedInv, Load
<1>6. \A u \in Threads : ReadInv(u)' /\ AssignedInv(u)'
  BY <1>1, <1>4, <1>5 DEF RegistryInv, ReadInv, AssignedInv, Usable, Nothing
<1>7. RegistryTypeOK' /\ CacheInv'
  BY <1>1, <1>3 DEF RegistryInv, RegistryTypeOK, CacheTypeOK, CacheInv, Usable, Nothing
<1> QED
  BY <1>6, <1>7 DEF RegistryInv

\* What a finished load assigns is current, or SSM changed after it began; that
\* holds for every thread still to stamp, whichever load it believes to stamp.
LEMMA AssignRegistryInv ==
  ASSUME RegistryInv, NEW t \in Threads, Assign(t), UNCHANGED stable
  PROVE  RegistryInv'
<1>1. UNCHANGED <<params, age, stable>>
  BY DEF Assign
<1>2. /\ load[t] \in Load /\ load[t].pc = "reading" /\ load[t].read = Fields
      /\ load' = [load EXCEPT ![t] = [NoLoad EXCEPT !.pc = "assigned",
                                                    !.elapsed = load[t].elapsed]]
      /\ cache' = Usable(load[t].got)
  BY DEF Assign, RegistryInv, RegistryTypeOK, CacheTypeOK
<1>3. cache' = Usable(params) \/ stable <= load[t].elapsed
  <2>1. CASE stable <= load[t].elapsed
    BY <2>1
  <2>2. CASE ~ (stable <= load[t].elapsed)
    <3>1. \A f \in Fields : load[t].got[f] = params[f]
      BY <1>2, <2>2 DEF RegistryInv, ReadInv
    <3>2. load[t].got = params
      BY <1>2, <3>1 DEF RegistryInv, RegistryTypeOK, CacheTypeOK, Load, View
    <3> QED
      BY <1>2, <3>2
  <2> QED
    BY <2>1, <2>2
<1>4. load' \in [Threads -> Load] /\ cache' \in View
  BY <1>2, CacheIsConfigured DEF RegistryInv, RegistryTypeOK, CacheTypeOK, Load, NoLoad, Usable, Nothing, View
<1>5. /\ load'[t].pc = "assigned" /\ load'[t].elapsed = load[t].elapsed
      /\ \A u \in Threads \ {t} : load'[u] = load[u]
  BY <1>2 DEF RegistryInv, RegistryTypeOK, CacheTypeOK, NoLoad
<1>6. \A u \in Threads : load'[u].elapsed \in Nat /\ load[t].elapsed <= LoadTime
  BY <1>2, <1>4, CacheIsConfigured DEF Load
<1>7. UNCHANGED Usable(params)
  BY <1>1 DEF Usable, Nothing
<1>8. stable \in Nat /\ age \in Nat
  BY CacheIsConfigured DEF RegistryInv, RegistryTypeOK, CacheTypeOK, Horizon
<1>9. \A u \in Threads : AssignedInv(u)'
  BY <1>1, <1>3, <1>5, <1>6, <1>7, <1>8, CacheIsConfigured DEF AssignedInv
<1>10. \A u \in Threads : ReadInv(u)'
  BY <1>1, <1>5 DEF RegistryInv, ReadInv
<1>11. CacheInv'
  BY <1>1, <1>2, <1>3, <1>6, <1>7, <1>8, CacheIsConfigured DEF CacheInv, Load
<1> QED
  BY <1>1, <1>4, <1>9, <1>10, <1>11 DEF RegistryInv, RegistryTypeOK, CacheTypeOK

\* The stamp makes the cache count as fresh.
LEMMA StampRegistryInv ==
  ASSUME RegistryInv, NEW t \in Threads, Stamp(t), UNCHANGED stable
  PROVE  RegistryInv'
<1>1. /\ UNCHANGED <<params, cache, stable>> /\ age' = 0
      /\ load[t] \in Load /\ load[t].pc = "assigned"
      /\ load' = [load EXCEPT ![t] = NoLoad]
  BY DEF Stamp, RegistryInv, RegistryTypeOK, CacheTypeOK
<1>2. NoLoad \in Load
  BY CacheIsConfigured DEF NoLoad, Load, Nothing, View
<1>3. RegistryTypeOK'
  BY <1>1, <1>2, CacheIsConfigured DEF RegistryInv, RegistryTypeOK, CacheTypeOK
<1>4. load'[t].pc = "idle" /\ \A u \in Threads \ {t} : load'[u] = load[u]
  BY <1>1 DEF RegistryInv, RegistryTypeOK, CacheTypeOK, NoLoad
<1>5. \A u \in Threads : ReadInv(u)' /\ AssignedInv(u)'
  BY <1>1, <1>4 DEF RegistryInv, ReadInv, AssignedInv, Usable, Nothing
<1>6. CacheInv'
  <2>1. cache = Usable(params) \/ stable <= load[t].elapsed + LoadTime
    BY <1>1 DEF RegistryInv, AssignedInv
  <2>2. load[t].elapsed \in 0..LoadTime /\ stable \in Nat
    BY <1>1, CacheIsConfigured DEF Load, RegistryInv, RegistryTypeOK, Horizon
  <2> QED
    BY <1>1, <2>1, <2>2, CacheIsConfigured DEF CacheInv, Usable, Nothing
<1> QED
  BY <1>3, <1>5, <1>6 DEF RegistryInv

\* Time passes for SSM, for the stamp and for every load alike.
LEMMA TickRegistryInv ==
  ASSUME RegistryInv, Tick
  PROVE  RegistryInv'
<1>1. /\ UNCHANGED <<params, cache>>
      /\ age' = Later(age, TTL + 1) /\ stable' = Later(stable, Horizon + 1)
      /\ \A t \in Threads : load[t].pc # "idle" => load[t].elapsed < LoadTime
      /\ load' = [t \in Threads |->
           IF load[t].pc = "idle" THEN load[t]
           ELSE [load[t] EXCEPT !.elapsed = @ + 1]]
  BY DEF Tick, Age
<1>2. /\ age \in 0..TTL + 1 /\ stable \in 0..Horizon + 1 /\ Horizon \in Nat
      /\ \A t \in Threads : load[t] \in Load /\ load[t].elapsed \in 0..LoadTime
  BY CacheIsConfigured DEF RegistryInv, RegistryTypeOK, CacheTypeOK, Load, Horizon
<1>3. /\ age' \in 0..TTL + 1 /\ stable' \in 0..Horizon + 1
      /\ stable' <= stable + 1
      /\ age' = age + 1 \/ age' > TTL
  BY <1>1, <1>2, CacheIsConfigured DEF Later
<1>4. \A t \in Threads :
        /\ load'[t] \in Load
        /\ load'[t].pc = load[t].pc /\ load'[t].read = load[t].read
        /\ load'[t].got = load[t].got
        /\ load[t].pc # "idle" => load'[t].elapsed = load[t].elapsed + 1
  BY <1>1, <1>2, CacheIsConfigured DEF Load
<1>5. RegistryTypeOK'
  BY <1>1, <1>3, <1>4 DEF RegistryInv, RegistryTypeOK, CacheTypeOK
<1>6. UNCHANGED Usable(params)
  BY <1>1 DEF Usable, Nothing
<1>7. \A t \in Threads : ReadInv(t)'
  BY <1>1, <1>2, <1>3, <1>4 DEF RegistryInv, ReadInv
<1>8. \A t \in Threads : AssignedInv(t)'
  BY <1>1, <1>2, <1>3, <1>4, <1>6, CacheIsConfigured DEF RegistryInv, AssignedInv
<1>9. CacheInv'
  BY <1>1, <1>2, <1>3, <1>6, CacheIsConfigured DEF RegistryInv, CacheInv
<1> QED
  BY <1>5, <1>7, <1>8, <1>9 DEF RegistryInv

\* Every step preserves the invariant.
LEMMA NextRegistryInv == RegistryInv /\ [RegistryNext]_registryVars => RegistryInv'
<1> SUFFICES ASSUME RegistryInv, [RegistryNext]_registryVars PROVE RegistryInv'
  OBVIOUS
<1>1. CASE \E f \in Fields, v \in Versions \cup {Absent} : Put(f, v)
  BY <1>1, PutRegistryInv
<1>2. CASE CacheNext /\ UNCHANGED stable
  BY <1>2, BeginRegistryInv, PageRegistryInv, AssignRegistryInv, StampRegistryInv DEF CacheNext
<1>3. CASE Tick
  BY <1>3, TickRegistryInv
<1>4. CASE UNCHANGED registryVars
  BY <1>4 DEF registryVars, RegistryInv, RegistryTypeOK, CacheTypeOK, ReadInv, AssignedInv, CacheInv, Usable, Nothing
<1> QED
  BY <1>1, <1>2, <1>3, <1>4 DEF RegistryNext

\* The invariant holds in every reachable state.
LEMMA SpecRegistryInv == RegistrySpec => []RegistryInv
BY InitRegistryInv, NextRegistryInv, PTL DEF RegistrySpec

-----------------------------------------------------------------------------
\* Every reachable state is of the declared type.
THEOREM RegistryTypeCorrect == RegistrySpec => []RegistryTypeOK
<1>1. RegistryInv => RegistryTypeOK
  BY DEF RegistryInv
<1> QED
  BY <1>1, SpecRegistryInv, PTL

\* Whatever the threads do, the registry serves nothing that was last true more
\* than TTL + 2 * LoadTime ago.
THEOREM StalenessIsBounded == RegistrySpec => []ServesNothingOlder
<1>1. RegistryInv => ServesNothingOlder
  <2> SUFFICES ASSUME RegistryInv, stable > Horizon, ~Expired
               PROVE  cache = Usable(params)
    BY DEF ServesNothingOlder
  <2>1. age \in Nat /\ stable \in Nat /\ ~ (age > TTL)
    BY CacheIsConfigured DEF RegistryInv, RegistryTypeOK, CacheTypeOK, Horizon, Expired
  <2>2. cache = Usable(params) \/ stable <= age + 2 * LoadTime
    BY <2>1 DEF RegistryInv, CacheInv
  <2> QED
    BY <2>1, <2>2, CacheIsConfigured DEF Horizon
<1> QED
  BY <1>1, SpecRegistryInv, PTL

-----------------------------------------------------------------------------
(* A silo's registration *)

\* A copy with a database has been read from a stack that exists.
LEMMA CompleteIsAView ==
  ASSUME Versions # {}
  PROVE  Complete \in View /\ \A f \in Fields : Complete[f] # Absent
BY CacheIsConfigured DEF Complete, View

\* The default ladder, and the default workflow's empty role set, expand and tag
\* nothing.
LEMMA NoLadderExpandsNothing == \A G : Expand(<<>>, G) = G
BY DEF Expand, Outranked

\* No tag leaves the silo's role set.
LEMMA TagsAreRoles ==
  ASSUME NEW v, NEW d
  PROVE  TagsIn(v, d) \subseteq SiloRoles
BY SiloIsConfigured DEF TagsIn, RolesIn, AutoClassifyIn

\* What CloudFormation does to a silo's parameters, whole or half, is to the
\* registry a sequence of writes like any other: what holds of a registry under
\* arbitrary writes holds while a silo is registered or removed.
THEOREM RegistrationIsARegistry == Spec => RegistrySpec
<1>1. Init => RegistryInit
  BY DEF Init
<1>2. [Next]_vars => [RegistryNext]_registryVars
  <2> SUFFICES ASSUME [Next]_vars PROVE RegistryNext \/ UNCHANGED registryVars
    OBVIOUS
  <2>1. ASSUME NEW f \in Fields, NEW v \in Versions, CreateParam(f, v) PROVE RegistryNext
    BY <2>1 DEF CreateParam, RegistryNext
  <2>2. ASSUME NEW f \in Fields, DeleteParam(f) PROVE RegistryNext
    BY <2>2 DEF DeleteParam, RegistryNext
  <2>3. CASE Destroy
    BY <2>3 DEF Destroy
  <2>4. CASE CacheNext /\ UNCHANGED <<stable, removing, allowed>>
    BY <2>4 DEF RegistryNext
  <2>5. CASE Tick /\ UNCHANGED <<removing, allowed>>
    BY <2>5 DEF RegistryNext
  <2>6. ASSUME NEW d \in Docs, Ingest(d) PROVE UNCHANGED registryVars
    BY <2>6 DEF Ingest
  <2>7. CASE UNCHANGED vars
    BY <2>7 DEF vars
  <2> QED
    BY <2>1, <2>2, <2>3, <2>4, <2>5, <2>6, <2>7 DEF Next
<1> QED
  BY <1>1, <1>2, PTL DEF Spec, RegistrySpec

\* Every reachable state is of the declared type.
THEOREM TypeCorrect == Spec => []TypeOK
<1> DEFINE Tagged == removing \in BOOLEAN /\ allowed \in [Docs -> SUBSET SiloRoles]
<1>1. Init => Tagged
  BY DEF Init
<1>2. Tagged /\ [Next]_vars => Tagged'
  <2> SUFFICES ASSUME Tagged, [Next]_vars PROVE Tagged'
    OBVIOUS
  <2>1. CASE Destroy
    BY <2>1 DEF Destroy
  <2>2. ASSUME NEW d \in Docs, Ingest(d) PROVE Tagged'
    BY <2>2, TagsAreRoles DEF Ingest
  <2>3. CASE UNCHANGED <<removing, allowed>>
    BY <2>3
  <2> QED
    BY <2>1, <2>2, <2>3 DEF Next, CreateParam, DeleteParam, vars
<1>3. RegistryTypeOK /\ Tagged => TypeOK
  BY DEF TypeOK
<1> QED
  BY <1>1, <1>2, <1>3, RegistrationIsARegistry, RegistryTypeCorrect, PTL DEF Spec

\* A registration read in any state of completion gives no caller more than the
\* finished one: every default errs on the closed side of both access layers.
THEOREM PartialRegistrationIsClosed == Spec => []PartialRegistrationRevealsNothing
<1>1. ASSUME TypeOK PROVE PartialRegistrationRevealsNothing
  <2> SUFFICES ASSUME NEW G \in Callers,
                      MayAsk(cache, G)
               PROVE  MayAsk(Complete, G) /\ Gets(cache, G) \subseteq Gets(Complete, G)
    BY DEF PartialRegistrationRevealsNothing
  <2>1. Versions # {}
    BY <1>1, SiloIsConfigured, CacheIsConfigured DEF MayAsk, TypeOK, RegistryTypeOK, CacheTypeOK, View
  <2>2. \A f \in Fields : Complete[f] # Absent
    BY <2>1, CompleteIsAView
  <2>3. {"roles", "role-ladder", Database} \subseteq Fields
    BY SiloIsConfigured
  <2>4. RolesIn(Complete) = SiloRoles /\ LadderIn(Complete) = Ladder
    BY <2>2, <2>3 DEF RolesIn, LadderIn
  <2>5. MayAsk(Complete, G)
    BY <2>2, <2>3, <2>4 DEF MayAsk, Permitted, RolesIn
  <2>6. Expand(LadderIn(cache), G) \subseteq Expand(Ladder, G)
    <3>1. G \subseteq Expand(Ladder, G)
      BY DEF Expand
    <3> QED
      BY <3>1, NoLadderExpandsNothing DEF LadderIn
  <2>7. ASSUME NEW r \in SiloRoles, Matches({r}, Expand(LadderIn(cache), G))
        PROVE  Matches({r}, Expand(Ladder, G))
    BY <2>6, <2>7 DEF Matches
  <2> QED
    BY <2>4, <2>5, <2>7 DEF Gets
<1> QED
  BY <1>1, TypeCorrect, PTL

\* With the workflow in the copy, partial routes only make the indexer stage or
\* refuse: what it tags it tags for good.
THEOREM TagsAreFinal == Spec => TagsAsRegistered
<1> DEFINE Final ==
      \A d \in Docs :
        allowed'[d] # allowed[d] /\ cache["ingest-workflow"] # Absent =>
          allowed'[d] = TagsIn(Complete, d)
<1>1. TypeOK /\ [Next]_vars => [Final]_vars
  <2> SUFFICES ASSUME TypeOK, Next, NEW d \in Docs,
                      allowed'[d] # allowed[d], cache["ingest-workflow"] # Absent
               PROVE  allowed'[d] = TagsIn(Complete, d)
    OBVIOUS
  <2>1. Ingest(d)
    BY DEF Next, CreateParam, Destroy, DeleteParam, Ingest, TypeOK
  <2>2. allowed'[d] = TagsIn(cache, d) /\ TagsIn(cache, d) # {}
    BY <2>1 DEF Ingest, TypeOK
  <2>3. \A f \in Fields : Complete[f] # Absent
    <3>1. Versions # {}
      BY SiloIsConfigured DEF TypeOK, RegistryTypeOK, CacheTypeOK, View
    <3> QED
      BY <3>1, CompleteIsAView
  <2>4. {"roles", "ingest-workflow", "auto-classify"} \subseteq Fields
    BY SiloIsConfigured
  <2>5. WorkflowIn(cache) = Workflow /\ WorkflowIn(Complete) = Workflow
    BY <2>3, <2>4 DEF WorkflowIn
  <2>6. CASE Workflow = "AllUser"
    BY <2>2, <2>3, <2>4, <2>5, <2>6 DEF TagsIn, RolesIn
  <2>7. CASE Workflow # "AllUser"
    <3>1. cache["auto-classify"] # Absent
      BY <2>2, <2>5, <2>7 DEF TagsIn, AutoClassifyIn
    <3>2. AutoClassifyIn(cache) = AutoClassifyIn(Complete)
      BY <2>3, <2>4, <3>1 DEF AutoClassifyIn
    <3> QED
      BY <2>2, <2>5, <2>7, <3>2 DEF TagsIn
  <2> QED
    BY <2>6, <2>7
<1> QED
  BY <1>1, TypeCorrect, PTL DEF Spec, TagsAsRegistered

-----------------------------------------------------------------------------
\* A registration that was finished longer than Horizon ago, with a database, roles
\* and a ladder, is served to the letter, and one that was removed that long ago is
\* served to nobody.
THEOREM RegistrationSettles == Spec => []SettlesAsRegistered
<1>1. TypeOK /\ ServesNothingOlder => SettlesAsRegistered
  <2> SUFFICES ASSUME TypeOK, ServesNothingOlder, stable > Horizon, ~Expired
               PROVE  SettlesAsRegistered
    BY DEF SettlesAsRegistered
  <2>1. cache = Usable(params)
    BY DEF ServesNothingOlder
  <2>2. {"roles", "role-ladder", Database} \subseteq Fields
    BY SiloIsConfigured
  <2>3. ASSUME \A f \in Fields : params[f] # Absent, NEW G
        PROVE  MayAsk(cache, G) = MayAsk(Complete, G) /\ Gets(cache, G) = Gets(Complete, G)
    <3>1. cache = params
      BY <2>1, <2>2, <2>3 DEF Usable
    <3>2. Versions # {}
      BY <2>2, <2>3 DEF TypeOK, RegistryTypeOK, CacheTypeOK, View
    <3>3. \A f \in Fields : Complete[f] # Absent
      BY <3>2, CompleteIsAView
    <3>4. /\ cache[Database] # Absent /\ Complete[Database] # Absent
          /\ RolesIn(cache) = RolesIn(Complete) /\ LadderIn(cache) = LadderIn(Complete)
      BY <2>2, <2>3, <3>1, <3>3 DEF RolesIn, LadderIn
    <3> QED
      BY <3>4 DEF MayAsk, Gets
  <2>4. ASSUME params[Database] = Absent, NEW G PROVE ~MayAsk(cache, G)
    BY <2>1, <2>2, <2>4 DEF Usable, Nothing, MayAsk
  <2> QED
    BY <2>3, <2>4 DEF SettlesAsRegistered
<1> QED
  BY <1>1, TypeCorrect, RegistrationIsARegistry, StalenessIsBounded, PTL
=============================================================================
