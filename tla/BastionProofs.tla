---------------------------- MODULE BastionProofs ----------------------------
(***************************************************************************)
(* The bastion, for any number of sessions on any machines and anything    *)
(* that may go wrong.                                                      *)
(***************************************************************************)
EXTENDS Bastion, TLAPS

\* A session that ends leaves everything typed.
LEMMA EndTyped ==
  ASSUME TypeOK, NEW s \in Sessions, End(s), instance' \in InstanceState,
         initial' = initial, left' \in BOOLEAN
  PROVE  TypeOK'
<1>1. pc' = [pc EXCEPT ![s] = "idle"]
  BY DEF End, Goto
<1>2. pc' \in [Sessions -> Stages]
  BY <1>1 DEF TypeOK, Stages
<1>3. forward' \in [Hosts -> Sessions \cup {NoSession}]
  BY DEF End, TypeOK
<1>4. ASSUME NEW h \in Hosts, forward'[h] # NoSession
      PROVE  pc'[forward'[h]] \in Spawned /\ HostOf[forward'[h]] = h
  <2>1. forward[h] # s /\ forward'[h] = forward[h] /\ forward[h] \in Sessions
    BY <1>4 DEF End, TypeOK
  <2> QED
    BY <1>1, <1>4, <2>1 DEF TypeOK
<1> QED
  BY <1>2, <1>3, <1>4 DEF TypeOK

\* A session that goes on to another stage does, too.
LEMMA GotoTyped ==
  ASSUME TypeOK, NEW s \in Sessions, NEW stage \in Stages, Goto(s, stage),
         pc[s] \in Spawned => stage \in Spawned,
         instance' \in InstanceState, initial' \in [Sessions -> InstanceState],
         forward' = forward, left' = left
  PROVE  TypeOK'
<1>1. pc' = [pc EXCEPT ![s] = stage] /\ pc' \in [Sessions -> Stages]
  BY DEF Goto, TypeOK
<1>2. ASSUME NEW h \in Hosts, forward'[h] # NoSession
      PROVE  pc'[forward'[h]] \in Spawned /\ HostOf[forward'[h]] = h
  BY <1>1, <1>2 DEF TypeOK
<1> QED
  BY <1>1, <1>2 DEF TypeOK

LEMMA InitIInv == Init => IInv
BY BastionAssumption
   DEF Init, IInv, TypeOK, OnForSomeone, PendingIsAwaited, On, InstanceState, Stages

\* Ending without cleanup puts the blame on record if the bastion is on.
LEMMA AbortPreserves ==
  ASSUME IInv, NEW s \in Sessions, Abort(s)
  PROVE  IInv'
<1>1. TypeOK'
  BY EndTyped DEF Abort, IInv, TypeOK
<1>2. On' => left'
  BY DEF Abort, On
<1> QED
  BY <1>1, <1>2 DEF IInv, OnForSomeone, PendingIsAwaited, On

\* Cleanup stops a running bastion; a pending one has another session waiting.
LEMMA CleanupPreserves ==
  ASSUME IInv, NEW s \in Sessions, pc[s] # "waiting", Cleanup(s)
  PROVE  IInv'
<1>1. TypeOK'
  BY EndTyped DEF Cleanup, IInv, TypeOK, InstanceState
<1>2. pc' = [pc EXCEPT ![s] = "idle"] /\ pc \in [Sessions -> Stages]
  BY DEF Cleanup, End, Goto, IInv, TypeOK
<1>3. instance' # "running" \/ left'
  BY DEF Cleanup, On
<1>4. instance' = "pending" => left' \/ \E t \in Sessions : pc'[t] = "waiting"
  <2> SUFFICES ASSUME instance' = "pending", ~left' PROVE \E t \in Sessions : pc'[t] = "waiting"
    OBVIOUS
  <2>1. instance = "pending" /\ ~left
    <3>1. CASE UNCHANGED left
      BY <3>1, <1>3 DEF Cleanup, On
    <3>2. CASE left' = (left \/ On) /\ UNCHANGED instance
      <4>1. ~(left \/ On)
        BY <3>2
      <4> QED
        BY <3>2, <4>1 DEF On
    <3> QED
      BY <3>1, <3>2 DEF Cleanup
  <2>2. PICK t \in Sessions : pc[t] = "waiting"
    BY <2>1 DEF IInv, PendingIsAwaited
  <2> QED
    BY <1>2, <2>2
<1> QED
  BY <1>1, <1>3, <1>4 DEF IInv, OnForSomeone, PendingIsAwaited, On, Live

\* A live session that goes on keeps the bastion on for someone; it stops
\* waiting only once the instance runs.
LEMMA GoesOn ==
  ASSUME IInv, NEW s \in Sessions, NEW stage \in Stages, stage # "idle", Goto(s, stage),
         pc[s] = "waiting" => instance' = "running",
         instance' = instance \/ stage = "waiting", left' = left, TypeOK'
  PROVE  IInv'
<1>1. pc' = [pc EXCEPT ![s] = stage] /\ pc \in [Sessions -> Stages]
  BY DEF Goto, IInv, TypeOK
<1>2. Live(s)'
  BY <1>1 DEF Live
<1>3. ASSUME instance' = "pending", ~left' PROVE \E t \in Sessions : pc'[t] = "waiting"
  <2>1. CASE stage = "waiting"
    BY <1>1, <2>1
  <2>2. CASE stage # "waiting"
    <3>1. PICK t \in Sessions : pc[t] = "waiting"
      BY <1>3, <2>2 DEF IInv, PendingIsAwaited
    <3>2. t # s
      BY <1>3, <3>1
    <3> QED
      BY <1>1, <3>1, <3>2
  <2> QED
    BY <2>1, <2>2
<1> QED
  BY <1>2, <1>3 DEF IInv, OnForSomeone, PendingIsAwaited

\* Every step preserves the invariant.
LEMMA NextIInv == IInv /\ [Next]_vars => IInv'
<1> SUFFICES ASSUME IInv, [Next]_vars PROVE IInv'
  OBVIOUS
<1>0. TypeOK
  BY DEF IInv
<1>1. ASSUME NEW s \in Sessions, Begin(s) PROVE IInv'
  <2> DEFINE stage == IF instance = "running" THEN "connecting" ELSE "found"
  <2>1. stage \in Stages /\ stage # "idle" /\ Goto(s, stage) /\ pc[s] = "idle"
    BY <1>1 DEF Begin, Stages
  <2>2. TypeOK'
    BY <1>0, <1>1, <2>1, GotoTyped DEF Begin, TypeOK, Spawned
  <2> QED
    BY <1>1, <2>1, <2>2, GoesOn DEF Begin
<1>2. ASSUME NEW s \in Sessions, Start(s) PROVE IInv'
  <2>1. TypeOK'
    BY <1>0, <1>2, GotoTyped DEF Start, TypeOK, Stages, Spawned, InstanceState
  <2> QED
    BY <1>2, <2>1, GoesOn DEF Start, Stages
<1>3. ASSUME NEW s \in Sessions, SeeRunning(s) PROVE IInv'
  <2>1. TypeOK'
    BY <1>0, <1>3, GotoTyped DEF SeeRunning, TypeOK, Stages, Spawned
  <2> QED
    BY <1>3, <2>1, GoesOn DEF SeeRunning, Stages
<1>4. ASSUME NEW s \in Sessions, SpawnSsh(s) PROVE IInv'
  <2>1. TypeOK'
    BY <1>0, <1>4, GotoTyped DEF SpawnSsh, TypeOK, Stages, Spawned
  <2> QED
    BY <1>4, <2>1, GoesOn DEF SpawnSsh, Stages
<1>5. ASSUME NEW s \in Sessions, PortOpen(s) PROVE IInv'
  <2>1. TypeOK'
    BY <1>0, <1>5, GotoTyped DEF PortOpen, TypeOK, Stages, Spawned
  <2> QED
    BY <1>5, <2>1, GoesOn DEF PortOpen, Stages
<1>6. ASSUME NEW s \in Sessions, RunPsql(s) PROVE IInv'
  <2>1. TypeOK'
    BY <1>0, <1>6, GotoTyped DEF RunPsql, TypeOK, Stages, Spawned
  <2> QED
    BY <1>6, <2>1, GoesOn DEF RunPsql, Stages
<1>7. ASSUME NEW s \in Sessions, Listen(s) PROVE IInv'
  <2>1. HostOf[s] \in Hosts /\ s # NoSession
    BY BastionAssumption
  <2>2. TypeOK'
    BY <1>0, <1>7, <2>1 DEF Listen, TypeOK
  <2> QED
    BY <1>7, <2>2 DEF Listen, IInv, OnForSomeone, PendingIsAwaited, On, Live
<1>8. ASSUME NEW s \in Sessions,
             FailToStart(s) \/ BootTimeout(s) \/ PortTimeout(s) \/ SshExits(s) \/ Die(s)
      PROVE  IInv'
  BY <1>8, AbortPreserves DEF FailToStart, BootTimeout, PortTimeout, SshExits, Die
<1>9. ASSUME NEW s \in Sessions, Quit(s) PROVE IInv'
  BY <1>9, CleanupPreserves DEF Quit
<1>10. ASSUME NEW s \in Sessions, Interrupt(s) PROVE IInv'
  BY <1>10, CleanupPreserves DEF Interrupt, Spawned
<1>11. CASE Transition
  <2>1. TypeOK'
    BY <1>0, <1>11 DEF Transition, TypeOK, InstanceState
  <2>2. On' => On
    BY <1>11 DEF Transition, On
  <2>3. instance' # "pending"
    BY <1>11 DEF Transition
  <2> QED
    BY <1>11, <2>1, <2>2, <2>3 DEF Transition, IInv, OnForSomeone, PendingIsAwaited, Live
<1>12. CASE UNCHANGED vars
  BY <1>12 DEF vars, IInv, TypeOK, OnForSomeone, PendingIsAwaited, On, Live
<1> QED
  BY <1>1, <1>2, <1>3, <1>4, <1>5, <1>6, <1>7, <1>8, <1>9, <1>10, <1>11, <1>12
     DEF Next, Proceed

\* The inductive invariant of the bastion and its sessions.
THEOREM Invariance == Spec => []IInv
BY InitIInv, NextIInv, PTL DEF Spec

\* Type correctness: in particular a listening ssh has a live session.
THEOREM TypeCorrect == Spec => []TypeOK
BY Invariance, PTL DEF IInv

\* The bastion is on only for a session under way or through one that is to
\* blame, for any overlap of starts and stops.
THEOREM BastionIsOnForSomeone == Spec => []OnForSomeone
BY Invariance, PTL DEF IInv
=============================================================================
