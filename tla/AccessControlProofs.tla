------------------------ MODULE AccessControlProofs ------------------------
(***************************************************************************)
(* The access rules, proved for every ladder, every user and any history   *)
(* of grants, tags and deployments.                                        *)
(***************************************************************************)
EXTENDS AccessControl, WellFoundedInduction, TLAPS

(* The ladder *)

\* A set of numbers that is not empty has a least element.
LEMMA LeastNumber ==
  ASSUME NEW T, T \subseteq Nat, T # {}
  PROVE  \E n \in T : \A k \in T : n <= k
<1>1. PICK n \in T : \A k \in T : <<k, n>> \notin OpToRel(<, Nat)
  BY NatLessThanWellFounded, WFMin
<1>2. \A k \in T : ~ (k < n)
  BY <1>1 DEF OpToRel
<1> QED
  BY <1>2

\* A role that is on the ladder has a first place there.
LEMMA HeldRolesRank ==
  ASSUME NEW L, L \in Seq(SiloRoles), NEW G, NEW i \in DOMAIN L, L[i] \in G
  PROVE  \E k \in Ranks(L, G) : 1 <= k
<1> DEFINE T == {k \in DOMAIN L : L[k] = L[i]}
<1>0. T \subseteq Nat /\ i \in T
  OBVIOUS
<1>1. PICK k \in T : \A j \in T : k <= j
  <2> HIDE DEF T
  <2> QED
    BY <1>0, LeastNumber
<1>2. \A j \in 1..k - 1 : L[j] # L[k]
  BY <1>1
<1> QED
  BY <1>1, <1>2 DEF Ranks

\* What a caller is taken to hold, spelled out: the caller's groups, and every
\* role at or below the first place of one of them.
LEMMA Expansion ==
  ASSUME NEW L, NEW G, NEW r
  PROVE  r \in Expand(L, G) <=>
           r \in G \/ \E i \in DOMAIN L : L[i] = r /\ \E k \in Ranks(L, G) : i <= k
BY DEF Expand, Outranked

\* More groups, more roles: no role overrides another.
LEMMA ExpandIsMonotone ==
  ASSUME NEW L, NEW G, NEW H, G \subseteq H
  PROVE  Expand(L, G) \subseteq Expand(L, H)
<1>1. Ranks(L, G) \subseteq Ranks(L, H)
  BY DEF Ranks
<1> QED
  BY <1>1, Expansion

\* The ladder never leads out of the silo, and nobody gets onto it without
\* holding one of its roles.
LEMMA ExpandStaysInSilo ==
  ASSUME NEW L \in Ladders, NEW G,
         NEW r \in Expand(L, G) \ G
  PROVE  r \in SiloRoles /\ G \cap SiloRoles # {}
<1>1. PICK i \in DOMAIN L, k \in Ranks(L, G) : L[i] = r /\ i <= k
  BY Expansion
<1>2. L \in Seq(SiloRoles)
  BY RolesAreNamespaced
<1>3. L[i] \in SiloRoles /\ L[k] \in SiloRoles /\ L[k] \in G
  BY <1>1, <1>2 DEF Ranks
<1> QED
  BY <1>1, <1>3

\* Everybody is outranked by whoever holds a role at or above all of theirs.
LEMMA ExpandIsTransitive ==
  ASSUME NEW L \in Ladders, NEW G, NEW H,
         \A g \in G \cap SiloRoles :
           \E i \in Ranks(L, {g}), j \in Ranks(L, H) : i <= j
  PROVE  Expand(L, G) \cap SiloRoles \subseteq Expand(L, H)
<1> SUFFICES ASSUME NEW r \in Expand(L, G), r \in SiloRoles
             PROVE  r \in Expand(L, H)
  OBVIOUS
<1>0. L \in Seq(SiloRoles)
  BY RolesAreNamespaced
<1>1. CASE r \in G
  <2>1. PICK i \in Ranks(L, {r}), j \in Ranks(L, H) : i <= j
    BY <1>1
  <2>2. i \in DOMAIN L /\ L[i] = r
    BY DEF Ranks
  <2> QED
    BY <2>1, <2>2, Expansion
<1>2. CASE r \notin G
  <2>1. PICK i \in DOMAIN L, k \in Ranks(L, G) : L[i] = r /\ i <= k
    BY <1>2, Expansion
  <2>2. k \in DOMAIN L /\ L[k] \in G \cap SiloRoles
    BY <1>0 DEF Ranks
  <2>3. PICK k1 \in Ranks(L, {L[k]}), j \in Ranks(L, H) : k1 <= j
    BY <2>2
  <2>4. k = k1
    BY <1>0, <2>2 DEF Ranks
  <2>5. i <= j
    BY <1>0, <2>1, <2>2, <2>3, <2>4 DEF Ranks
  <2> QED
    BY <2>1, <2>3, <2>5, Expansion
<1> QED
  BY <1>1, <1>2

-----------------------------------------------------------------------------
(* The state machine *)

\* Every reachable state is of the declared type.
THEOREM TypeCorrect == Spec => []TypeOK
<1>1. Init => TypeOK
  BY DEF Init, TypeOK
<1>2. TypeOK /\ [Next]_vars => TypeOK'
  BY DEF TypeOK, Next, vars, AddToGroup, RemoveFromGroup, Tag, RewriteLadder
<1> QED
  BY <1>1, <1>2, PTL DEF Spec

\* The document filter lets through nobody whom the silo gate would not, and an
\* AllUser document is visible to everyone the gate lets in.
THEOREM FilterAgreesWithGate == Spec => []LayersAgree
<1>1. ASSUME TypeOK PROVE LayersAgree
  <2> SUFFICES ASSUME NEW u \in Users, NEW d \in Docs
               PROVE  /\ Sees(u, d) => MayUse(u)
                      /\ MayUse(u) /\ tags[d] = SiloRoles /\ SiloRoles # {} => Sees(u, d)
    BY DEF LayersAgree
  <2> DEFINE H == Expand(ladder, groups[u])
  <2>1. ladder \in Ladders /\ tags[d] \subseteq SiloRoles /\ Superuser \notin SiloRoles
    BY <1>1, RolesAreNamespaced DEF TypeOK
  <2>2. groups[u] \subseteq H
    BY DEF Expand
  <2>3. \A r \in H \ groups[u] : r \in SiloRoles /\ groups[u] \cap SiloRoles # {}
    BY <2>1, ExpandStaysInSilo
  <2>4. ASSUME Matches(tags[d], H) PROVE MayUse(u)
    BY <2>1, <2>3, <2>4 DEF Matches, MayUse, Permitted
  <2>5. ASSUME MayUse(u), tags[d] = SiloRoles PROVE Matches(tags[d], H)
    BY <2>2, <2>5 DEF Matches, MayUse, Permitted
  <2> QED
    BY <2>4, <2>5 DEF Sees
<1> QED
  BY <1>1, TypeCorrect, PTL

\* Seniority is transitive through any ladder, for holders of any role sets.
THEOREM SeniorityHolds == Spec => []SeniorsSeeWhatJuniorsSee
<1>1. ASSUME TypeOK PROVE SeniorsSeeWhatJuniorsSee
  <2> SUFFICES ASSUME NEW u \in Users, NEW v \in Users, NEW d \in Docs,
                      Superuser \notin groups[v],
                      \A g \in groups[v] \cap SiloRoles :
                        \E i \in Ranks(ladder, {g}), j \in Ranks(ladder, groups[u]) : i <= j,
                      Sees(v, d)
               PROVE  Sees(u, d)
    BY DEF SeniorsSeeWhatJuniorsSee
  <2>1. ladder \in Ladders /\ tags[d] \subseteq SiloRoles /\ Superuser \notin SiloRoles
    BY <1>1, RolesAreNamespaced DEF TypeOK
  <2>2. Expand(ladder, groups[v]) \cap SiloRoles \subseteq Expand(ladder, groups[u])
    BY <2>1, ExpandIsTransitive
  <2>3. Superuser \notin Expand(ladder, groups[v])
    BY <2>1, ExpandStaysInSilo
  <2> QED
    BY <2>1, <2>2, <2>3 DEF Sees, Matches
<1> QED
  BY <1>1, TypeCorrect, PTL

\* Roles union: a grant, alone or together with any others, hides nothing.
THEOREM GrantsReveal == Spec => GrantingHidesNothing
<1> DEFINE Kept ==
      \A u \in Users, d \in Docs :
        groups[u] \subseteq groups'[u] /\ UNCHANGED <<tags, ladder>> /\ Sees(u, d)
        => Sees(u, d)'
<1>1. Kept
  BY ExpandIsMonotone DEF Sees, Matches
<1> QED
  BY <1>1, PTL DEF GrantingHidesNothing

\* A sample query and the documents of its minRole are offered to the same
\* callers.
THEOREM SamplesMatchDocuments == Spec => []SamplesAreAnswerable
<1>1. ASSUME TypeOK PROVE SamplesAreAnswerable
  <2> SUFFICES ASSUME NEW u \in Users, NEW d \in Docs, NEW r \in SiloRoles,
                      MayUse(u), tags[d] = {r}
               PROVE  /\ Offered(ladder, groups[u], r) <=> Sees(u, d)
                      /\ (\A s \in SiloRoles : \E i \in DOMAIN ladder : ladder[i] = s)
                         /\ r = ladder[1] => Sees(u, d)
    BY DEF SamplesAreAnswerable
  <2> DEFINE H == Expand(ladder, groups[u])
  <2>1. ladder \in Ladders /\ Superuser \notin SiloRoles
    BY <1>1, RolesAreNamespaced DEF TypeOK
  <2>2. Superuser \in H <=> Superuser \in groups[u]
    BY <2>1, ExpandStaysInSilo DEF Expand
  <2>3. Offered(ladder, groups[u], r) <=> Sees(u, d)
    BY <2>2 DEF Offered, Sees, Matches
  <2>4. ASSUME \A s \in SiloRoles : \E i \in DOMAIN ladder : ladder[i] = s, r = ladder[1]
        PROVE  Sees(u, d)
    <3>1. CASE Superuser \in groups[u]
      BY <2>2, <3>1 DEF Sees, Matches
    <3>2. CASE Superuser \notin groups[u]
      <4>1. PICK s \in groups[u] : s \in SiloRoles
        BY <3>2 DEF MayUse, Permitted
      <4>2. ladder \in Seq(SiloRoles)
        BY <2>1, RolesAreNamespaced
      <4>3. PICK i \in DOMAIN ladder : ladder[i] = s
        BY <2>4, <4>1
      <4>4. PICK k \in Ranks(ladder, groups[u]) : 1 <= k
        BY <4>1, <4>2, <4>3, HeldRolesRank
      <4>5. 1 \in DOMAIN ladder
        BY <4>2, <4>3
      <4>6. r \in H
        BY <2>4, <4>4, <4>5, Expansion
      <4> QED
        BY <4>6 DEF Sees, Matches
    <3> QED
      BY <3>1, <3>2
  <2> QED
    BY <2>3, <2>4
<1> QED
  BY <1>1, TypeCorrect, PTL
=============================================================================
