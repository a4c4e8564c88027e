------------------------------- MODULE Bastion -------------------------------
(***************************************************************************)
(* `npm run db:connect`, db-connect.ts: several developers' sessions, each *)
(* a command that starts the stage's one bastion, forwards a local port    *)
(* through it, runs psql and stops the bastion again.  Nothing but the     *)
(* instance's state tells one session of another.                          *)
(*                                                                         *)
(*   instance  the bastion as EC2 reports it                               *)
(*   pc        where each session's main is, "idle" before and after       *)
(*   initial   the instance state a session found first                    *)
(*   forward   the session whose ssh listens on LOCAL_PORT of its host     *)
(*   left      history: some session ended without stopping an instance    *)
(*             that was on                                                 *)
(***************************************************************************)
CONSTANTS
  Sessions, NoSession,
  Hosts, HostOf   \* the developers' machines

ASSUME BastionAssumption ==
  NoSession \notin Sessions /\ HostOf \in [Sessions -> Hosts]

VARIABLES instance, pc, initial, forward, left

vars == <<instance, pc, initial, forward, left>>

\* ensureRunning's three waits, waitForPort, the secret, psql.
Stages ==
  {"idle", "found", "waiting", "booting", "connecting", "fetching", "psql"}

InstanceState == {"stopped", "pending", "running", "stopping"}

\* Whether the ssh process has been spawned, and with it the handlers.
Spawned == {"connecting", "fetching", "psql"}

Live(s) == pc[s] # "idle"

\* A port is listened on by the ssh of a session that has not ended.
TypeOK ==
  /\ instance \in InstanceState
  /\ pc \in [Sessions -> Stages]
  /\ initial \in [Sessions -> InstanceState]
  /\ forward \in [Hosts -> Sessions \cup {NoSession}]
  /\ \A h \in Hosts : forward[h] # NoSession => pc[forward[h]] \in Spawned /\ HostOf[forward[h]] = h
  /\ left \in BOOLEAN

Init ==
  /\ instance \in {"stopped", "running"}  \* just deployed, it is running
  /\ pc = [s \in Sessions |-> "idle"]
  /\ initial = [s \in Sessions |-> "stopped"]
  /\ forward = [h \in Hosts |-> NoSession]
  /\ left = (instance = "running")

-----------------------------------------------------------------------------
On == instance \in {"pending", "running"}

Goto(s, stage) == pc' = [pc EXCEPT ![s] = stage]

\* Faulty variant: the ssh process outlives the command.
EndDetached(s) == Goto(s, "idle") /\ UNCHANGED forward

\* The command is over, and its ssh with it.
End(s) ==
  /\ Goto(s, "idle")
  /\ forward' = [h \in Hosts |-> IF forward[h] = s THEN NoSession ELSE forward[h]]

\* process.exit without cleanup.
Abort(s) ==
  /\ End(s)
  /\ left' = (left \/ On)
  /\ UNCHANGED <<instance, initial>>

\* Faulty variant: a session that went through another's ssh leaves the bastion
\* to that one.
CleanupIfOwn(s) ==
  /\ End(s)
  /\ instance' = IF instance = "running" /\ forward[HostOf[s]] = s THEN "stopping" ELSE instance
  /\ UNCHANGED <<initial, left>>

\* cleanup, then process.exit: EC2 stops a running instance, has nothing to do
\* for one that is off, and refuses while it is pending; a failure is only
\* warned of.
Cleanup(s) ==
  /\ End(s)
  /\ \/ /\ instance' = IF instance = "running" THEN "stopping" ELSE instance
        /\ UNCHANGED left
     \/ left' = (left \/ On) /\ UNCHANGED instance
  /\ UNCHANGED initial

-----------------------------------------------------------------------------
\* main resolves the parameters and ensureRunning looks at the instance.
Begin(s) ==
  /\ pc[s] = "idle"
  /\ initial' = [initial EXCEPT ![s] = instance]
  /\ Goto(s, IF instance = "running" THEN "connecting" ELSE "found")
  /\ UNCHANGED <<instance, forward, left>>

\* start-instances, if the bastion was stopped then: EC2 has nothing to do for
\* one that is on by now.
Start(s) ==
  /\ pc[s] = "found"
  /\ instance # "stopping" \/ initial[s] # "stopped"
  /\ instance' = IF initial[s] = "stopped" /\ instance = "stopped" THEN "pending" ELSE instance
  /\ Goto(s, "waiting")
  /\ UNCHANGED <<initial, forward, left>>

\* It refuses if the bastion is being stopped again, and execSync throws.
FailToStart(s) ==
  /\ pc[s] = "found" /\ initial[s] = "stopped" /\ instance = "stopping"
  /\ Abort(s)

\* The poll finds the instance running.
SeeRunning(s) ==
  /\ pc[s] = "waiting" /\ instance = "running"
  /\ Goto(s, "booting")
  /\ UNCHANGED <<instance, initial, forward, left>>

\* Faulty variant: the deadline is the boot's, and not looked at before it.
BootTimeoutIfPending(s) == pc[s] = "waiting" /\ instance = "pending" /\ Abort(s)

\* BOOT_TIMEOUT_MS have passed: the instance is slow, or nobody starts it.
BootTimeout(s) ==
  /\ pc[s] = "waiting" /\ instance # "running"
  /\ Abort(s)

\* The ten seconds for sshd; then ssh is spawned and the handlers are installed.
SpawnSsh(s) ==
  /\ pc[s] = "booting"
  /\ Goto(s, "connecting")
  /\ UNCHANGED <<instance, initial, forward, left>>

\* ssh has reached the bastion and listens, unless another ssh does already.
Listen(s) ==
  /\ pc[s] \in Spawned /\ instance = "running" /\ forward[HostOf[s]] = NoSession
  /\ forward' = [forward EXCEPT ![HostOf[s]] = s]
  /\ UNCHANGED <<instance, pc, initial, left>>

\* waitForPort: something accepts on LOCAL_PORT.
PortOpen(s) ==
  /\ pc[s] = "connecting" /\ forward[HostOf[s]] # NoSession
  /\ Goto(s, "fetching")
  /\ UNCHANGED <<instance, initial, forward, left>>

\* After 20 seconds: sshd was not up yet, or the instance is off.
PortTimeout(s) ==
  /\ pc[s] = "connecting" /\ forward[HostOf[s]] = NoSession
  /\ Abort(s)

\* The secret, then psql is spawned.
RunPsql(s) ==
  /\ pc[s] = "fetching"
  /\ Goto(s, "psql")
  /\ UNCHANGED <<instance, initial, forward, left>>

\* psql.on('exit').
Quit(s) == pc[s] = "psql" /\ Cleanup(s)

\* The handlers of SIGINT and SIGTERM, which are installed with ssh.
Interrupt(s) == pc[s] \in Spawned /\ Cleanup(s)

\* ssh.on('exit') while not cleanedUp: the connection broke, or the instance
\* went off; during the secret's execSync it takes effect with psql at the
\* latest.
SshExits(s) == pc[s] \in Spawned /\ Abort(s)

\* What ends the process without a handler: a call of the AWS CLI that throws, a
\* signal before ssh is spawned, Ctrl-C during the secret's execSync, whose
\* child dies of it, a terminal that is closed, psql not being installed.
Die(s) == Live(s) /\ Abort(s)

\* EC2 carries out what was asked for.
Transition ==
  /\ \/ instance = "pending" /\ instance' = "running"
     \/ instance = "stopping" /\ instance' = "stopped"
  /\ UNCHANGED <<pc, initial, forward, left>>

\* What the command does by itself.
Proceed(s) ==
  \/ Start(s) \/ FailToStart(s) \/ SeeRunning(s) \/ BootTimeout(s) \/ SpawnSsh(s)
  \/ PortOpen(s) \/ PortTimeout(s) \/ RunPsql(s)

Next ==
  \/ \E s \in Sessions :
       \/ Begin(s) \/ Proceed(s) \/ Listen(s) \/ Quit(s)
       \/ SshExits(s) \/ Interrupt(s) \/ Die(s)
  \/ Transition

\* The event loop goes on, ssh connects to a bastion that runs, EC2 acts.
Fairness ==
  /\ \A s \in Sessions : WF_vars(Proceed(s)) /\ WF_vars(Listen(s))
  /\ WF_vars(Transition)

Spec == Init /\ [][Next]_vars /\ Fairness

-----------------------------------------------------------------------------
(* Properties *)

\* However sessions overlap, the bastion is on only for a session under way, or
\* because some session ended without cleanup or its stop failed: no start is
\* lost between one session's start and another's stop, and a stop that EC2
\* refuses while the instance is pending has another session to follow it.
OnForSomeone == On => left \/ \E s \in Sessions : Live(s)

\* A command does not hang: it comes to psql or gives up, also when another
\* session stops the bastion it is waiting for.
CommandsComeToPsqlOrEnd == \A s \in Sessions : Live(s) ~> pc[s] \in {"psql", "idle"}

\* An instance that is pending without anyone to blame is waited for by the
\* session that started it or one that found it so.
PendingIsAwaited ==
  instance = "pending" => left \/ \E s \in Sessions : pc[s] = "waiting"

IInv == TypeOK /\ OnForSomeone /\ PendingIsAwaited
=============================================================================
