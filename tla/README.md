# A TLA+ model of CloudRAG (awsrag)

CloudRAG ingests documents into per-team *Agent Silos* and answers questions from them, showing
each caller only what the caller's roles allow. This directory models the parts in which that can
go wrong in a way a unit test hardly reaches: a queue with redelivery, two writers to two stores
with nothing but the stores between them, an access rule made of several lists, cached copies of a
configuration and of connections that deployments change underneath, a page whose responses arrive
when they like, and commands that share one machine in the cloud. TLC checks the models on small instances;
TLAPS proves the safety properties for all of them.

## The system

| Component | State | Operations | Talks to | What makes it correct |
|---|---|---|---|---|
| Ingest queue, DLQ, event source (`lib/stacks/core-stack.ts:287-362`) | messages, receive counts, leases | send, receive a batch, delete, reappear, redrive | bucket notifications, producers, indexer | at least once; one worker per message at a time; nothing dropped unprocessed; everything settles |
| Vector indexer (`lib/lambdas/vectorIndexer/handler.py`) | state of each attempt; routes cached 60 s; connections | extract, classify, redact, embed, persist or stage, report | queue, S3, SSM, Comprehend, Bedrock, Postgres, DynamoDB | acknowledges only what it recorded; nothing unclassified of a reviewed silo reaches Postgres |
| Document stores | `embeddings` rows (source id, content, roles); pending items | upsert, put, get, delete | indexer, admin API, retriever | a row's tags are somebody's decision |
| Admin API and page (`services/orchestrator/app/admin.py`, `frontend/src/Admin.tsx`) | requests under way; the list on the screen | list, publish, discard | both stores, registry | what is published is what was reviewed; nothing staged gets lost |
| Access control (`registry.py` `expand`, `main.py` `_permitted`, `_samples_for`, `rag.py` `retrieve`) | groups, ladder, tags | silo gate, document filter, sample filter | Cognito, registry, Postgres | the two layers agree; seniority is transitive |
| Agent registry (`registry.py`, and `_routes_now` of the indexer) | copy of the SSM parameters, its age, loads under way | lookup, page-wise load, assign, stamp | SSM, silo stacks | bounded staleness; a partial copy errs on the closed side |
| Silo provisioner (`lib/lambdas/siloProvisioner/handler.py`, the `Database` resource) | databases, their schema and documents, how far a call has got | create, bootstrap, drop | CloudFormation, Postgres | repeatable after any failure; production data stays |
| Database clients (`rag.py` `_get_pool`, `vectorIndexer/handler.py` `_get_db`) | pools under a lock; connections per container | look up, open, use, probe, forget | Postgres | one pool per database; recovers from a dropped one; nobody waits for ever |
| Single-page app (`frontend/src/*.tsx`, `api.ts`, `cognito.ts`) | token, sidebar, view, chat, list, ticks, requests under way | sign in and out, consult, ask, review, reload | orchestrator, Cognito | what is shown and sent belongs to the user and silo shown; controls come back |
| Chat endpoint (`main.py`, `agent.py`) | prompt agents | retrieve, run, stream | registry, retriever, Bedrock | answers only where permitted |
| Demo users provisioner (`lib/stacks/auth-stack.ts`, `demoUsersProvisioner/handler.py`) | groups, accounts, memberships, the shared password | create or update, delete, roll back | CloudFormation, Cognito, Secrets Manager | a configured login works and has its roles; teardown is not blocked |
| Bastion and `db:connect` (`scripts/db-connect.ts`, `core-stack.ts:171-219`) | the instance's state; each command's progress, its ssh | start, wait, forward, run psql, stop | EC2, the other developers' commands | on only while somebody needs it; no command hangs |

The hard parts are: at-least-once delivery against two timeouts; steps of indexer and of several
admins on the same document in any order; crashes and lost answers between a write and what
acknowledges it; parameters created one by one and read page by page; threads that reload one
cache; a page that sends a request about a list it loaded some time ago, and whose responses
outlive what they were asked for; databases dropped under cached connections; and commands that
know of each other only by the state of the instance they all start and stop.

## Modules

`Delivery` is the queue as its consumer may rely on it: send, take, delete, return, bury.
`IngestQueue` is the queue as deployed, with batches, invocations, a visibility timeout, a function
timeout and the partial batch response; it implements `Delivery` (`ImplementsDelivery`, by
`mstate <- DeliveryState`). `VectorIndexer` uses `Delivery`, so the flow is not multiplied by clocks
and batches; that one attempt per message runs at a time is `IngestQueue`'s `LeaseExclusive`.

| Module | Models | State | Actions |
|---|---|---|---|
| `IngestQueue` | SQS queue and DLQ, SqsEventSource, the loop of `handler()` | `sqs`, `receives`, `hidden`, `batch`, `started`, `todo`, `failures`, `left` (history: `applied`) | `Send`, `Receive`, `Start`, `RecordDone`, `RecordFailed`, `Respond`, `Die`, `Reappear`, `DeadLetter`, `Tick` |
| `Silos` | `config/agent-silos.ts`, `_classify`, the routing in `handler()` | constants | - |
| `DocumentStores` | `embeddings`, the pending table | `rows`, `pending` (history: `recorded`) | `Upsert`, `PutItem`, `DeleteItem` |
| `VectorIndexer` | one attempt at one record, and what is sent | `state`, `text`, `body`, `written`, the queue | `Produce`, `NotifyAgain`, `HandOutAgain`, `SendOther`, `Receive`, `Embed`, `Persist`, `RegisterPending`, `Fail`, `Report`, `GiveBack`, `Bury` |
| `AdminReview` | `admin.py`, `Admin.tsx` | `screen`, `request` | `ListPending`, `Publish`, `Discard`, `Unroutable`, `Reject`, `LoadItem`, `StoreRow`, `RemoveItem`, `DropItem`, `Abort` |
| `DocumentFlow` | the two together on the stores | all of these | a step of either |
| `ReviewGate` | what ingest and review promise | `rows`, `staged` | `StoreClassified`, `Stage`, `Release` |
| `AccessRules` | `expand`, `_permitted`, the SQL filter, `_samples_for` | - | operators |
| `AccessControl` | the rules over time | `groups`, `tags`, `ladder` | `AddToGroup`, `RemoveFromGroup`, `Tag`, `RewriteLadder` |
| `RegistryCache` | `AgentRegistry._load`/`_refresh`, `_routes_now` | `params`, `cache`, `age`, `load` | `StartLoad`, `ReadPage`, `Assign`, `Stamp`, `FailLoad`, `Age` |
| `AgentRegistry` | the orchestrator's registry under deployments | and `stable` | `Put`, `Tick` |
| `Registration` | a silo while its stack is created or removed: `AgentRegistry` with one silo's parameters for writes | and `removing`, `allowed` | `CreateParam`, `Destroy`, `DeleteParam`, `Ingest` |
| `SiloProvisioner` | CloudFormation and `handler()` on a silo's database, in dev or prod | `stage`, `stack`, `at`, `exists`, `schema`, `rows`, `sessions`, `forgotten`, `faults` | `Deploy`, `Destroy`, `DestroyAgain`, `Invoke`, `CreateDatabase`, `Bootstrap`, `DropDatabase`, `FailProvisioning` |
| `DatabaseClients` | the retriever's pools and the indexer's connections | `pools`, `opened`, `lock`, `task`, `conns`, `attempt` | `Ask`, `LookUpPool`, `AcquireLock`, `LookAgain`, `OpenPool`, `FailToOpen`, `Fetch`, `PublishTo`, `Restart`; `Route`, `GetDb`, `PersistIn`, `FailProbe`, `FailToConnect`, `FailPersist`, `Recycle` |
| `SiloLifecycle` | the two together | all of these | a step of either |
| `Sessions` | `Login.tsx`, `cognito.ts`, `auth.py` | `token`, `expired` | `SignIn`, `SignOut`, `Expire` |
| `ChatPage` | `Chat.tsx`, `streamChat`, the endpoint's stream | `messages`, `streams`, `busy` | `Submit`, `Open`, `Delta`, `Done`, `Break` |
| `ReviewPage` | `Admin.tsx` and the requests it sends | `agents`, `picked`, `pending`, `selected`, `acting`, `lists`, `acts` (history: `ticks`) | `AgentsArrive`, `Pick`, `ListArrives`, `ToggleRole`, `Publish`, `Discard`, `Serve`, `Refuse`, `RefreshAfter`, `Finish`, `Unheard` |
| `Workbench` | `App.tsx` with the three above | and `models`, `agentId`, `view`, `listing` | `LogIn`, `LogOut`, `ModelsArrive`, `Consult`, `Review`, `Reload`, `ExpireToken` |
| `Bastion` | `db-connect.ts` by several developers, the instance | `instance`, `pc`, `initial`, `forward` (history: `left`) | `Begin`, `Start`, `FailToStart`, `SeeRunning`, `BootTimeout`, `SpawnSsh`, `Listen`, `PortOpen`, `PortTimeout`, `RunPsql`, `Quit`, `Interrupt`, `SshExits`, `Die`, `Transition` |
| `DemoUsers` | the Auth stack's groups, users and Lambda | `groups`, `account`, `member`, `secret`, `phase`, `current`, `target`, `run`, `todo`, `faults` | `Deploy`, `Begin`, `FailToBegin`, `Handle`, `Fail`, `Succeeded`, `ContinueRollback`, `Destroy`, `LoseSecret` |

`MC*` modules give constants their values; `*Proofs`
modules hold the theorems. Definitions headed "Faulty variant" are not used by any specification:
they are plausible mistakes the properties have been tried against.

How the models correspond to the code:

* A document's content is a version number, its embedding a function of it. A bucket document is
  read when the attempt runs (`Embed` takes `written`, the object's present version), a direct
  message carries its text.
* A step ends wherever another process can observe or disturb it. `publish` is three steps: it
  reads the item, awaits the upsert, and deletes the item by key. The indexer's write and its
  acknowledgement are two.
* A call may take effect although its answer is lost: `Fail` follows a write, `RemoveItem` answers
  200 or 500.
* `Unroutable` is the 405 that publish and discard of a document from S3 end in: its id contains
  slashes, and the route's path parameter matches none.
* In `Registration` every parameter has the default the code gives it: no roles, no ladder, no
  prefixes, and workflow `AllUser`.
* In `RegistryCache` the assignment of `_cache` and of `_loaded_at` are two steps, because the
  synchronous handlers (`list_agents`) run on threads beside the event loop.
* In `IngestQueue` a batch is received before its invocation begins: it waits at most `MaxWait`
  (`Start`), and the lease runs meanwhile. A standard queue may hand a message out again while it is in
  flight, or after it was deleted. Such a copy has a lease and a receive count of its own, so it is
  another element of `Messages`; in the flow, `HandOutAgain` gives it the body of the one it copies, at
  any time after that was sent. That a copy may vanish when its original is deleted is left out: it
  only takes attempts away.
* In `SiloProvisioner` every statement autocommits, so `at` counts statements and the Lambda may die
  before any of them. Postgres's `WITH (FORCE)` ends all connections to a database; a pool replaces a
  connection that was closed, a container's cached connection is only as alive as its session. Names
  are taken to be safe, since `_validate` raises before anything happens for any other.
* `sessions` has the connections whose owner can get at them: the pool, a container's `_conns` entry,
  the bootstrap under way. Those nobody can get at any more are in `forgotten`, one entry for each:
  `_get_db` pops a connection whose probe fails without closing it (`FailProbe`), and an exception
  during the bootstrap skips its `close()` (`FailProvisioning`). They last until their process ends,
  is collected or the database is dropped. The provisioner's connection to `postgres` is to no silo's
  database and outside the model.
* asyncio runs one task at a time, so a step of `DatabaseClients` is what a task does between two
  awaits; `AcquireLock` and `OpenPool` are separate because `create_pool` is awaited under the lock.
* In `Workbench` a component's state lives while React renders it in the same place with the same
  key: `Render` is conjoined to every step of the shell, and unmounts the chat or the page where that
  ends. Requests go on; their answers reach nobody (`Unheard`), or the shell (`ModelsArrive`). A list
  arrives as any set of documents, since indexer and other admins change the table meanwhile. A stream
  carries the user and the silo of its request, and what it delivers is theirs, whatever is on display
  by then. Two streams never share a position: a conversation only grows while it is mounted.
* In `Bastion` every ending of the command is one of two: `Cleanup`, where the code stops the
  instance (and EC2 may refuse), or `Abort`, where the process exits without. `left` remembers an
  ending that left the instance on.
* In `DemoUsers` CloudFormation adds groups before the Lambda is called and removes those no longer
  declared afterwards; a failed update calls the same Lambda with the old properties. A deployment
  with the same users may call the Lambda or skip it, since CloudFormation compares JSON texts, in
  which the order of the users counts. `Fail` may come before the first user, between any two, half way
  through one, or after the last, when only the answer is lost.

## Runs

| Run | Bounds | What it shows |
|---|---|---|
| `ingest_queue` | 2 messages, 2 invocations, batches of up to 2, 2 receives, visibility timeout 4, waiting up to 1, function timeout 2 | type, exclusive leases, nothing dropped unprocessed, refinement of `Delivery`, every sent message settles |
| `document_flow` | reviewed, pre-classified, reviewed from S3 and `AllUser` document; 2 versions, 2 messages, 2 receives, 1 admin, 3 roles | type, consumed implies recorded, lawful rows, nothing leaves the review queue but stored or discarded, refinement of `ReviewGate` |
| `restaged_while_publishing` | 1 reviewed document, 1 receive, otherwise the same | publish removes a version it never stored |
| `published_unseen` | same | publish stores a version the admin never saw |
| `access_control` | 2 users, all sets of 5 groups, 1 document, 5 ladders (one with a repeated role, one empty) | layers agree, seniority, monotonicity, samples |
| `agent_registry` | 2 threads, 2 parameters, 2 versions, TTL 2, load time 1 | staleness at most TTL + 2 loads |
| `registration` | all 5 parameters, 2 documents, callers with any of the silo's 2 roles, a role of another silo and superuser, 1 thread, TTL 1, load time 0 | partial copies are closed; tags are final once the workflow is known |
| `unreviewed_by_default` | same | without the workflow parameter, an unclassified document is published to all roles |
| `silo_lifecycle` | 1 database in dev and prod, 1 document, 2 requests, 1 container, 1 failing call | one pool, completed stacks are ready, production keeps documents; destroys and requests end, indexing recovers |
| `workbench` | a Superuser and a user of one of 2 silos, 1 source id in both, conversations of 4 turns, 1 publish or discard, 1 list per silo and 1 `listModels` per user under way | conversations are the user's and the silo's, answers stand in place, nothing is revealed, roles are those ticked, controls come back |
| `bastion` | 3 commands, two of them on one machine; the instance on or off at first | on only for someone, commands come to psql or end |
| `demo_users` | 3 configurations (a role renamed with the same login after it, an identity that loses a role, one that leaves), 5 logins, 3 failing calls | logins work, role accounts show one role, teardown ends |

Why the bounds are enough to be interesting. Two messages of two versions give every order of two
writes, a redelivery and a re-staging; two invocations are what exclusiveness is about; with a
visibility timeout one above `MaxWait + FunctionTimeout` the margin is as small as the assumption
permits (deployed: 720 s, against 120 s and what Lambda takes to begin). With a third message, which
would have to wait for one of the two slots, TLC does not finish in five minutes; that such a wait is no
harm to exclusiveness and loses nothing is what the theorems say for any numbers, that it ends is only
checked where both messages find a slot or share a batch. One admin is enough for what one request can
lose, two for what two requests can. Documents are independent of each other in code and model, so one
of each kind does. `Versions`, `MaxReceiveCount` and the cap of `stable` (`Horizon + 1`) are the only
bounds on unbounded counters there. `Horizon` is tight: with one load less, TLC finds an older load
assigned between another thread's assignment and its stamp. Two admins multiply `document_flow` beyond
what TLC can explore with all kinds of document; for them `QueueLosesNothing` is a theorem.

Databases are independent of each other but for the retriever's one lock, which two requests contend
for; one failing call is enough to leave a creation half done, a pool unopened or a connection
forgotten. The inductive invariant was also checked with two. Two users and two silos give every wrong
pairing of a user, a silo and a response; four turns are a question asked after an answer. `MaxLists`,
`MaxListings` and `Slots` bound requests under way; a second request for the same list adds nothing,
since each brings any set. Three commands are two that overlap and one that starts when one of them
stops; the machine shared by two of them is where one goes through the other's ssh. In `demo_users`,
`MaxFaults` bounds failing calls: three are a failed update, a failed rollback and a failed teardown, or
a second rollback. With one document in the list, a request that re-enables the buttons of another one
(Admin.tsx:56) is not exercised; two are beyond what TLC checks liveness of in time.

In `registration` a load takes no time, so `Horizon` is small; its pages are read one by one all the
same, between writes. That loads take time is what `agent_registry` is about.

The proofs cover the safety part of all the passing runs for all values of the constants. Each inductive
invariant was checked by TLC on the constants of its run before it was proved.

Deadlock is checked in every run but `ingest_queue` and those of the document flow. The queue and the flow
may stop: every message that may be sent is settled, and every version has been produced.

## Fairness

* `ingest_queue`. `Fairness` asks weakly that time passes, that an expired lease ends, that the redrive
  policy acts, that the event source invokes a free slot with a visible message, and that a running
  handler processes its next record or responds. These are services of AWS and a loop without blocking
  waits; each is an action that stays enabled until it is taken. An invocation begins once its batch is
  received (`Start`), or the batch's wait is over and it dies. A handler may die at any moment; the
  receive count bounds how often. Nothing is assumed of producers, admins or deployments.
* `silo_lifecycle`. Weakly: the provider framework's calls and the handler's statements, the repetition
  of a destroy that failed, each task's next step, each container's next step. Strongly: `AcquireLock`,
  because `asyncio.Lock` hands itself on in order, and `Route`, because documents of every silo keep
  coming in, which is what recovering is about. Deployments, requests, restarts and failures are under
  no fairness. CloudFormation leaves a failed deletion as DELETE_FAILED: `DestroyEnds` is about an
  operator who repeats it (`DestroyAgain`).
* `workbench`. Weakly: a stream ends, and a request is answered and its answer processed. CloudFront
  drops an origin that is silent for 60 seconds, and the browser reports a broken connection. Users
  owe nothing; `ControlsComeBack` holds also for one who only waits.
* `bastion`. Weakly: the command's own next step (its polls have deadlines), ssh connecting to an
  instance that runs, EC2 carrying out what was asked. Developers, ssh failures and signals are free.
* `demo_users`. Weakly: the Lambda and CloudFormation carry on, and whoever wants the stack gone
  repeats a destroy that failed; failures are bounded by `MaxFaults`.

## What is proved

For every value of the constants that satisfies the named assumptions. Each proof follows one
pattern: an inductive invariant `IInv`, a lemma per action or group of actions, the property from
the invariant.

* `IngestQueueProofs`. Assumed: `TimeoutsAreOrdered` (what an invocation may take to begin and the
  function timeout together are below the visibility timeout), positive batch size and receive limit.
  Exclusiveness is not inductive: `LeaseInv` adds that the lease of a record received outlasts the time
  its invocation has left, with the whole function timeout to come if it has not begun; `LoopInv` that a record the
  loop has passed was processed or listed as failed. From it: `TypeCorrect`, `LeasesAreExclusive`,
  `NothingIsDropped`, `QueueImplementsDelivery`, and `SettlingIsFinal`: what a response deletes is under
  the responder's lease, hence in flight and not dead-lettered.
* `DocumentFlowProofs`. Assumed: `SilosAreConfigured` (prefixes lead to roles of their silo),
  positive versions. `AttemptInv` says how far an attempt has got and what it has read; `PendingInv`
  that only reviewable documents are staged, in recorded versions; `RequestInv` that what a publish
  has checked stays true while it is under way. From it: `TypeCorrect`, `ConsumptionIsSafe`,
  `RowsStayLawful`, `QueueLosesNothing`, `FlowImplementsReviewGate`. What the gate does to rows is then
  enough for `VisibilityLasts`: its two writes store a version and, for a document that its silo
  classifies, the tags the row has already. `FlowUsesDelivery` is the other half of
  `QueueImplementsDelivery`: indexer and producers touch the queue only by `Delivery`'s actions.
  `StoredDocumentsAreGated` joins ingest with access: since rows carry roles of their own silo only,
  and a ladder adds a role to none but a holder of another of its roles (`ExpandNeedsARole`), whoever
  finds a row passes the gate of its silo. It assumes that no silo has `superuser` among its roles.
* `AccessControlProofs`. Assumed: `RolesAreNamespaced` (role names are unique to a silo, ladders
  order roles of it). The lemmas are about `Expand`: monotone in the groups, never out of the silo,
  transitive. From them: `FilterAgreesWithGate`, `SeniorityHolds`, `GrantsReveal`,
  `SamplesMatchDocuments`.
* `RegistrationProofs`. The cache first, for any writes to SSM. `ReadInv`: what a thread has read was
  right when its load began or later; `AssignedInv`: what a thread is about to stamp is at most one
  load older than its own; `CacheInv`: what is stamped is at most two loads older than its stamp.
  From it: `StalenessIsBounded`. Then one silo's registration, assuming `SiloIsConfigured`:
  `PartialRegistrationIsClosed` and `TagsAreFinal` from what the defaults are, and
  `RegistrationIsARegistry`, by which the bound holds here too. From that, `RegistrationSettles`:
  longer than `Horizon` after its last parameter was written, a finished registration is served to the
  letter, and one without a database to nobody.
* `SiloLifecycleProofs`. Assumed: `ClientsAssumption`. `ProgressInv` says that what a call has got to is
  what the database has by then, so that its end means the whole schema; `LockInv` that whoever is past
  the lock holds it and looked again, so that no second pool is opened. From them:
  `CompleteStacksReady`, `PoolsAreShared`. `ProductionIsRetained` is by the steps alone, since only a
  drop takes rows away and a drop is not allowed in production. Two more properties, which no run names
  but the invariant contains: `DocumentsAreFiltered`, where `SchemaInv` says that a schema is one of a
  database that exists, so documents are only where the `allowed_roles` column is; and
  `OnlyFailuresForgetConnections`. Its first half, `ConnectionsAreReachable`, says that a client that is
  connected has the pool, the `_conns` entry or the call the connection belongs to, and that no
  connection is to a database that is gone; it needs `FetchInv`, that a task about to fetch has a pool.
  Its second half, `LostByFailures`, numbers the failed calls: a forgotten connection is the Lambdas',
  and no failure lost two. It says nothing of how long forgotten ones last; `Collect` and `Recycle` may
  be late.
* `WorkbenchProofs`. Assumed: `ReviewAssumption`, role names unique to a silo, which the configuration
  demands (agent-silos.ts:35-41). `ChatInv`: a chat has at most one stream, for its last message, of the
  user signed in and the silo on display, and is busy meanwhile. `TicksInv`: what is selected and is a
  role of some silo was ticked there. `PageInv`: a page that shows silos is on display, for a Superuser.
  `ActInv`: what is sent keeps what was selected, and what is carried out was acceptable. From them:
  `ConversationStaysOwn`, `AnswersArriveInPlace`, `NothingRevealed`, `RolesWereTicked`.
* `BastionProofs`. `OnForSomeone` needs `PendingIsAwaited`: an instance that is pending has a session
  waiting for it. Otherwise a stop that EC2 refuses while the instance boots would be lost. From it:
  `BastionIsOnForSomeone`.
* `DemoUsersProofs`. Assumed: `DemoUsersAssumption`. `PhaseInv` ties what the Lambda is doing to what
  CloudFormation is doing; `GroupsInv`: the groups of both configurations exist until one of them has won;
  `ProgressInv`: accounts no longer in `todo` are as the configuration being applied has them (`Goal`),
  with the password in the secret; `SlugInv`: a role's login is in the groups of no roles but those
  that share the login. From them:
  `TypeCorrect`, `DeployedUsersSignIn`, `LoginsShowOneRole`.

With that, every safety property of the passing runs is a theorem. Only model-checked are the liveness
properties (`EverySentMessageSettles`, `DestroyEnds`, `RequestsEnd`, `IndexingRecovers`,
`ControlsComeBack`, `CommandsComeToPsqlOrEnd`, `TeardownEnds`): what they rest
on, fairness and ENABLED, is beyond the prover. So are the runs that end in a violation.

## Where code and documentation disagree

`PROJECT.json` lists them with quotations. Three have a run: a version staged during a publish is
lost; publish stores a version nobody reviewed; routes without a workflow skip review. The others were
met while modelling, and each is a step of a model whose properties say what remains true:

* processed records are redelivered with a batch whose invocation dies;
* documents from S3 cannot be published or discarded at all;
* the review page shows the documents of whichever silo answered last, and lets a document be
  published on the strength of roles ticked in another silo, which the server refuses;
* the sidebar keeps, or gets again, the silos and samples of an earlier user of the tab, which the
  server answers 404;
* a `db:connect` that ends other than by psql's exit or a signal after ssh was spawned leaves the
  bastion running, and a newly deployed bastion runs until the first session;
* `silos:orphans` overlooks stacks whose deletion failed;
* ladder changes act after the cache's lifetime, and three comments describe an earlier state.

## Not modelled

* Redaction, embedding, ranking, prompts and the model's answers: data, not control. The cache of
  prompt agents (`_agent_for`) is filled without a suspension in between.
* Signatures and claims of tokens: a library's. Token lifetimes are one step, `Expire`; that a token
  keeps groups revoked since is listed as a hazard.
* Networking, permissions and images of the stacks (`app-stack.ts` nearly all, most of `core-stack.ts`):
  declarative, without steps of their own.
* `demo-credentials.ts`, `import-corpus.ts`, `silos-orphans.ts`, `clean-dev-log-groups.ts`: each reads
  or uploads once and keeps no state.
* Layout, themes and texts of the app.
* DynamoDB and Postgres are atomic registers per document: eventually consistent reads and the
  one-page limit of `list_pending` are listed as hazards, as is the local Postgres that may listen on
  `LOCAL_PORT`, and what a dropped silo leaves in the queue and the pending table.
* `Sessions` takes the silos a user may use as fixed; how they come about over grants and deployments
  is `AccessControl` and `Registration`.
* `DemoUsersAssumption` takes logins to be distinct; an identity named like a role's login is left out.

## Plan

What is done followed the order queue, document flow, access control, registry and registration, silo
lifecycle, app, bastion, demo users. What remains worth doing, in this order:

1. The stores with a silo's lifecycle: messages and pending items that outlive their silo.
2. Grants and revocations under tokens that keep their groups, composed of `AccessControl` and
   `Sessions`.
3. What two admins can lose together, beyond `QueueLosesNothing`, stated of the review queue alone.
