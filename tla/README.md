# TARS: TLA+ models of the incident workflow and the server around it

TARS receives alerts and chat requests, has a language model diagnose them, and
may then run a command on a host or invoke a connector capability, directly when
a policy allows it or after a human approved it. This directory models what is
run, by whose decision, how often, and whether anything is lost on the way; and
the stores, logins, channels and registries those decisions depend on.

## 1. Inventory

| Part | State it keeps | Operations | Interacts with |
|---|---|---|---|
| Event bus / outbox (`internal/contracts/event_bus.go`, `internal/repo/postgres/workflow.go`) | rows of `outbox_events`: status, retry_count, available_at | publish, claim a batch, resolve, replay, delete, recover | written inside the transactions of the workflow store, drained by the dispatcher |
| Dispatcher (`internal/events/dispatcher.go`) | the claimed batch, position in a diagnosis (in memory only) | `Start`, `RunOnce`, `dispatchDiagnosis`, `runImmediateExecution` | store, reasoning, action service, channels |
| Tool plan executor (`internal/events/tool_plan.go`) | the plan, the outcomes of its steps | one step kind after the other, approval requests, notifications | policy, approval routing, connectors, store |
| Reasoning (`internal/modules/reasoning`) | the masked context and the marks of a phase | plan, finalize, failover between two models, heuristics | providers, desensitization rules, agent roles |
| Workflow store (`internal/repo/postgres/workflow.go`) | `alert_sessions`, `execution_requests`, `execution_approvals`, `idempotency_keys` | `HandleAlertEvent`, `HandleChannelEvent`, `ApplyDiagnosis`, `CreateCapabilityApproval`, `Handle*Result`, `SweepApprovalTimeouts` | everything below |
| In-memory workflow (`internal/modules/workflow`) | the same tables and the outbox in maps under one mutex | the same | used when no database is configured |
| Approval handlers (`internal/api/http/approval_actions.go`, `telegram_handler.go`) | one goroutine per request | verdict, then execute, record, verify inside the request | store, action service |
| Telegram (`internal/modules/channel/telegram`) | the update offset | poll, webhook, buttons and messages | approval handlers, workflow store |
| Approval timeout worker (`internal/events/approval_timeout.go`) | none | sweep, then one message per target | store, channels |
| Action service (`internal/modules/action`) | connector health, JumpServer jobs | validate, execute, poll, verify, invoke capability | remote hosts, connectors, SSH credentials |
| Authorization, agent roles, approval routing (`internal/modules/{authorization,agentrole,approvalrouting}`) | configuration | decide, tighten, route | tool plans, workflow store, reasoning |
| Alert intake (`internal/modules/alertintake`, `internal/api/http/webhook_handler.go`) | `idempotency_keys`, the position in a payload | parse, one transaction per alert | workflow store, garbage collector |
| Knowledge (`internal/modules/knowledge`) | document, chunks, record per session; vectors in a second database | ingest, reindex, search | dispatcher, operators |
| Automations (`internal/modules/automations`) | jobs and their run state in memory and in two files, the set of running jobs | `Upsert`, `SetEnabled`, `RunDue`, `RunNow` | scheduler goroutine, HTTP API, skills, connectors |
| Triggers and inbox (`internal/modules/{trigger,inbox}`, `internal/events/trigger_worker.go`) | trigger rows with last firing, inbox messages | `FireEvent`, edit, switch, seed, mark read | dispatcher, automations, channels |
| Access (`internal/modules/access`) | users, groups, roles; pending logins, challenges, OAuth states, sessions in memory | login by password, token, OAuth, challenge, TOTP; edits; permission decision | every HTTP handler |
| Runtime configuration (eight managers, `internal/repo/postgres/runtime_config.go`) | memory, YAML file, JSON document | save, boot | administrators |
| Setup wizard (`internal/api/http/setup_wizard_handler.go`) | one row `setup_state` | admin, auth, provider, channel, complete | access, providers, secrets |
| Connectors, skills, extensions (`internal/modules/{connectors,skills,extensions}`) | configuration and lifecycle in memory and files; candidates with their reviews | install, edit, upgrade, roll back, switch, record health, review, import | action service, planner |
| SSH credentials (`internal/modules/sshcredentials`) | a row, key and passphrase in an encrypted vault | create, update, rotate, switch, delete, resolve | action service |
| Observability store (`internal/foundation/observability`) | an active file and one per earlier day for every signal, counts | append with rotation, retention, query | logger, events, HTTP API |

What is hard here: rows are changed by concurrent goroutines (two operators, the
sweep, the dispatcher, Telegram) that hold state between transactions while a
remote command runs; the process may die between any two transactions; a starting
process resets rows another one may hold; feature flags, policies, rules and
connectors differ from one step to the next; most managers copy, work and store
the copy, so the last of two overlapping edits wins; a configuration lives in two
or three places that are written one after the other.

What makes the parts correct:

* outbox: no row is lost, none delivered twice without a replay or a recovery,
  the policy bounds the attempts, every row is settled in the end;
* approvals: nothing runs twice, nothing runs without a clearance on record or
  after a refusal, every request is decided, what was started is finished;
* sessions: a session that waits or executes is backed by a request that does;
* intake: a repeated alert opens no second session, an alert that was answered
  with 200 is not lost, nobody waits for an idempotency key for ever;
* diagnosis: no capability is called without policy or approver, what the models
  are sent is masked, a conclusion claims no more than the tools found, and every
  diagnosis ends;
* channels: an update is applied once and lost only to a fault, triggers respect
  their cooldown and switch, a deleted credential hands out nothing;
* logins: a session was earned by every factor its login required;
* stores and registries: what was acknowledged is there after a crash at any
  moment, and the pieces kept in different places agree;
* knowledge: document, chunks, record and vectors tell the same, latest story;
* automations: no two runs of a job overlap, an enabled job stays scheduled and
  keeps being run, an edit that was answered with success is in force.

## 2. Plan

Done, in the order of what a mistake costs:

1. `Outbox`; 2. `Workflow`, implementing the abstract `ApprovalGate`;
3. `AlertIntake`; 4. `Automations`; 5. `Telegram`, `Triggers`, `SSHCredentials`;
6. `MemoryWorkflow`, a second implementation of `ApprovalGate`, and `Knowledge`;
7. `ToolPlan`, `CommandRun` and `Reasoning`: one diagnosis from the three sides of
its tools, its command and its models; 8. `Login`, `AccessRoles` and
`ConfigStores`; 9. `Connectors`, `Skills`, `Extensions`, `Setup`, `Signals`.

Proofs exist for all of them (section 7).

Left: what a repeated webhook is answered; the skill steps and guards of an automation
run; the secrets file.

How the modules meet. `Outbox` and `Workflow` share the row
`session.analyze_requested`: `Outbox` has all topics, retries and replicas and no
sessions, `Workflow` has the sessions and one process. `AlertIntake` ends where
`HandleAlertEvent` of `Workflow` starts. `Workflow` lets policy choose freely;
`CommandRun` has the policy and follows a single command. `Workflow` has one step
for the planning phase; `ToolPlan` has its steps and `Reasoning` what happens
between a step and the models. `ConfigStores` has how one save reaches file,
memory and document; `AccessRoles`, `Setup` and the decision operators of
`CommandRun` take a save as one step. `Extensions` extends `Skills`, since an
import is an `Upsert` of the skill registry.

## 3. The modules and the code

Each module opens with a comment that says which code it models and at which grain
a step is taken; `PROJECT.json` gives the lines of every definition.

**`Outbox`.** One row per event with status, topic, retry count, whether
`available_at` is in the future, and its place in `created_at` order. A
dispatcher is a process with the batch it has claimed. `ClaimEvents` takes the
oldest due rows of the enabled topics; `DispatchOk` and `DispatchError` handle
one claimed event and keep what `DeliveryPolicy.Decide` made of it; `ResolveEvent`
writes that to the row, `ResolveFails` is the database error there. `Start` is a
start with `RecoverProcessingOutbox` and freshly loaded flags, `StartUnrecovered`
one whose recovery failed and was only logged. `ReplayOutbox` and `DeleteOutbox`
are the operator's. `sent`, `fails` and `requeued` are history.

**`Workflow`.** Rows of `alert_sessions` and `execution_requests`, the record of
verdicts, the diagnosis row of each session, and the goroutines: the dispatcher
and any number of approval handlers, each with a program counter (`idle`, `run`,
`result`, `verify` and the dispatcher's diagnosis steps) and the execution it
holds. One action is one transaction, or the call that runs a command
(`ExecuteApproved`), so a crash, a sweep or another operator may come between
any two. `ApplyDirect`, `ApplyApproval`, `ApplyAnswer` and `ApplyDisabled` are
the branches of `ApplyDiagnosis`; `Approve`, `Reject` and `RequestContext` the
branches of `handleApprovalEvent`; `SweepApprovalTimeouts(S)` one sweep, which
skips rows others have locked; `HandleExecutionResult`, `HandleCapabilityResult`
and `HandleVerificationResult` the writes of results. `GiveUp` and `VerifyError`
are cancelled requests and errors, after which the goroutine leaves its row.

**`ApprovalGate`.** What one request may go through: absent, waiting, cleared,
started, finished, refused or parked. `Workflow` implements it through `gateOf`.

**`AlertIntake`.** `HandleAlertEvent` statement by statement (insert the key,
read its hash, look for the session, commit), since under READ COMMITTED two
transactions interleave at this grain and the only lock is the unique key. The
webhook handles its alerts one transaction each, in order, and its sender repeats
the whole payload after an error. Keys expire and are collected.

**`Automations`.** The configuration and the state exist three times: in memory,
in the files and in the draft of an edit. `Upsert` and `SetEnabled` copy under a
read lock, write two files without a lock and swap at the end: four steps. A run
copies its job when it is asked for and goes through `tryStartRun`,
`markRunStarted`, attempts with back-off, `markRunFinished` and `finishRun`. The
next run of a job is `none`, `later` or `due`; a schedule recurs or, for a cron
expression such as 30 February, matches no date.

**`MemoryWorkflow`.** One step per method of the service, since one mutex guards
it: sessions, executions and the outbox as a sequence, claimed from its end. The
dispatcher, handlers with redelivered verdicts (with or without an idempotency
key) and the sweep work around it. It implements `ApprovalGate` through its own
`gateOf`.

**`Knowledge`.** Ingestion by the dispatcher and by a reindex, statement by
statement with the row locks of READ COMMITTED: read the session, find the
document, write document and chunks, write the record, commit, replace the
vectors. A session's text is the number of changes it has seen. `Search` merges the
vector hits that still exist with the best lexical hits among the rows the query
reads, each list and the merge cut at the limit. An ingestion that fails sends its
event to the dead letters, since `session.closed` has one attempt; a replay brings it
back. `ChunkText` is the cutting of a text, a sequence of characters of which some
are blanks, with the trimming of paragraphs and chunks.

**`ToolPlan`.** `dispatchDiagnosis` with `executeToolPlan`: plan, one action per
kind of step, policy check (`InvokeStep`), call (`CallStep`), approval row, one
message per approver, stop rule, finalize, store. The approvers are those of the
approval routing, or, for a diagnosis asked for in a chat, that chat.
Approvers, sweep, administrators and crashes interleave; a repeated pass leaves the
rows of the earlier one behind.

**`CommandRun`.** One command: `EvaluateSSHCommand`, `EnforcePolicy`, approval or
change by the operator, then the built-in executor, native SSH with a credential,
or a JumpServer job that goes on when its poll times out. `ranAs` is the sequence of
starts. A verification that returns an error ends the run of the dispatcher as failed
and leaves that of an operator's handler unverified. Patterns are the sets of commands
they match.

**`Reasoning`.** Planning and finalizing: snapshot of rules and bindings, the
detection of sensitive values by the assist model where the rules enable it, masking
(kinds of values, secrets), the system prompt, which is not masked, primary model,
assist model, heuristics, rehydration of marks, normalisation of the plan, the checks
on the conclusion. A text is the values it names.

**`Telegram`.** Updates with their delivery by offset or webhook, the steps of
`processTelegramUpdate`, faults in each, the crash, and the timeout worker with
its messages.

**`Triggers`.** `FireEvent` trigger by trigger on a copy, both stores,
administrators' edits (`SetEnabled` is a read and a write), seeding at start,
delivery to channel or inbox by the kind of the configured channel, which comes
before the kind an id names directly. The time of a firing is read after the send
(`RecordFired`) and written later (`SaveFired`).

**`Listing`.** What the Bot API, the trigger query and the filtering loops of a plan
or a search return: the members of a set in ascending order (`Ascending`) and the entries of a
sequence at given positions (`Picked`). Both are defined by rank, not by recursion,
so that proofs can use them.

**`SSHCredentials`.** The row, the vault and the copies every operation works on.
Material is a version number, encryption the id of the key in custody.

**`Login`.** One step per lock region: start, challenge, verification, TOTP, OAuth
start and callback, token login with its fallback to the operations token, logout,
with the flow copied before and stored after. Tokens are drawn from `Ids` and expire
at any time. A callback may present its state padded with blanks.

**`AccessRoles`.** Edits of users, groups and roles followed by `normalizeConfig`,
the resolution of a principal, and the two ways a permission is decided: the casbin
enforcer with `keyMatch2`, which knows stars, `:segments` and dots anywhere
(`Segments`, `RegexMatches`), and the prefix search, which knows a star at the end.
A pattern is `Plain` if both read it alike.

**`ConfigStores`.** Two disciplines: managers that copy, write the file by rename,
swap and persist, and managers that change memory and write in place under their
lock. A behaviour follows one of the eight. An entry of the providers has a key, and a
boot merges the keys of the file into the document's entries; a file that cannot be
parsed keeps the server from starting.

**`Connectors`, `Skills`, `Extensions`.** Requests that copy, derive the lifecycle,
write two files, swap and correct the lifecycle, each region a step; runtime calls
record health beside them; candidates are copied, changed and stored. Of a
connector's lifecycle the document has all but the fingerprint of its manifest. The
stable sort of a connector's revisions by time (`ByTime`) is defined by rank, like
`Picked`; revisions stamped anew are out of order, so what the limit cuts off depends
on the sort.

**`Setup`.** A request reads the row when it begins, changes access, providers or
keys step by step, and writes the row back whole. Available without a login until
the row says initialized. Row and documents are in the database or, without one, in
the memory of the store, where a restart loses them.

**`Signals`.** A writer stamps its record, takes the lock, rotates (copy, then
remove) when the day has changed, appends, and trims by age and size; each of these
may fail or be cut off in the middle (`Cut`), which leaves a part of a line at the
end of a file (`ragged`), copied or missing records, and counts that are stale. A
query lists the files under the lock and reads one after the other without it, while
writers go on (`ListFiles`, `ReadFile`). A record on disk is handled by its place,
a file and a position in it: the stable sort of `readRecords`, `trimBySize`, the filter
by id and the answer of a query are defined by how many places come before or after
one.

## 4. The runs

Definitions ending in `_Something` next to the one they are named after are
mutants: versions with a plausible mistake, each of which makes TLC report a
violation of a property of a passing run. They show that the properties can fail.

A property whose name ends in `Sound` (and `LoginSafe`, `RunsExclusive`,
`CallsCleared`, `WorkEnds`) is the conjunction of the named properties above it in
its module; each conjunct has a comment and mutants of its own. The MC modules
`MCAdmin`, `MCRegistries`, `MCMemory`, `MCDiagnosis` and `MCChannels` hold several
components that share no state: the variable `part` picks the one a behaviour
explores and the others keep an initial state, so the run is the union of the
separate explorations and not their product.

| Run | Instance | What it shows |
|---|---|---|
| `outbox` | 2 rows, 2 replicas, 1 replay, 1 crash, 1 fault, batches of 1 | no unexplained second delivery, no stranded row (`OutboxSound`); done rows were delivered |
| `outbox_single` | 2 rows, 1 replica, 2 replays, 1 crash, batches of 2 | attempts bounded by the policy, settled rows stay settled, every row is settled |
| `workflow` | 1 session, 2 requests, 2 operators, 1 replay, 1 crash, 1 fault, flags that change at a restart | nothing runs twice or unauthorised, no conflicting verdicts, results meet the status they expect (`RunsSound`); sessions are backed, no command with the feature off, `ApprovalGate` is implemented |
| `workflow_live` | 1 session, 2 requests, 1 operator, 1 replay, no faults | every request is decided, every execution finishes |
| `intake` | 2 webhooks, 3 alerts of which two share a name and one has none, payloads in opposite orders, 2 faults | one session per named alert and one for each accepted alert (`IntakeSound`); every webhook is accepted |
| `automations` | 1 job, inputs with recurring and never matching schedules, 1 editor, 2 scheduler goroutines, 1 manual run, 2 edits, 2 faults | runs do not overlap, an enabled job is scheduled and keeps being run but for the run of an older copy that clears it, an acknowledged edit is in force after a crash too |
| `admin` | logins: 1 user with challenge and TOTP, 2 clients, 3 tokens, 1 edit; directory: 1 person, 1 group, 2 roles, patterns with inner wildcards; stores: 2 entries, 2 editors, 3 edits, each of 8 managers with and without file and database | sessions are earned and one-time values taken once (`LoginSafe`); memberships and decisions agree (`DirectorySound`); acknowledged configuration survives (`StoresSound`) |
| `registries` | 1 connector, 2 versions, 1 runtime call, 3 saves; 2 skills, 1 manifest uploaded and switched, 2 operators, 3 requests; 1 candidate with another manifest, 5 operations; wizard: 2 requests at a time, 2 model providers, 3 submissions, 1 failure, with and without a database; signals: 2 writers, 3 records over 2 days, retention of 2 ticks and 2 records, 1 mishap | `ConnectorsSound`, `SkillsSound`, `ImportsSound`, `SetupSound`, `SignalsSound` |
| `memory` | 1 session, 2 alerts, 2 executions, 2 handlers, an update delivered twice, up to 6 events, 1 replay, 1 lost message; knowledge: 2 sessions, 3 changes, 1 reindex, 1 fault, 2 hits of 3 rows read | `MemorySound`, `ApprovalGate` again, the backlog drains although claimed newest first; `KnowledgeSound`, `ChunkTextFits`, every closed session is ingested or in the dead letters |
| `diagnosis` | plans of up to 3 steps over 2 capabilities, 2 passes, 2 approval rows, 1 edit, 1 fault; 3 commands, 2 channels, 2 edits; 2 models, 1 edit between the phases | no call without clearance (`CallsCleared`), `StepsSound`, `CommandSound`, `ReasoningSound`; diagnoses and executions end (`WorkEnds`), but for an operator's execution whose verification returned an error |
| `channels` | 2 updates, 2 requests, poller or webhook, repeated deliveries, 1 fault, 1 crash; 1 trigger, 2 calls, 2 editors; 2 administrators with 3 operations, 1 resolution, 1 vault fault | `TelegramSound`, `TriggersSound`, `CredentialsSound`; every polled update is taken |
| `credentials_rotation` | 1 administrator, 4 operations | a violation, see section 6 |

Why the bounds are enough: the conflicts are between two actors on one row, so
two rows and two of each kind of actor meet in every way; one crash and one fault
at every possible point cover what a single failure can cut in two; three
attempts of `telegram.send` are reached with one row. Two requests in one session
are needed because a request made by a replayed diagnosis competes with the first
for the status of the session. Two passes of a diagnosis are what it takes for the
answer to an old approval to meet a newer plan; three edits of a store let one edit
be acknowledged, one fail and one overlap; three records over two days make a
rotation, a late record and a size trim meet. A search of `memory` never has more rows
than it reads; that case is left to the theorem. What has a theorem (section 7) holds
for every size. Symmetry is used in `outbox`, `workflow`, `admin` and `registries`
only, which check no liveness. Deadlock is not checked: the system may be idle, and
the bounds on replays, edits and faults end every behaviour.

`intake` keeps an alert without a name always in the same place of its payload;
section 6 says what happens otherwise. In `registries` the wizard of a server without
a database starts with no administrator or one, and the wizard of a server with one
from every access configuration. Several properties exempt a case by a history variable
that marks it (`raced`, `mixed`, `untracked`, `cleared`, `cstale`, `wiped`, `torn`,
`doubled`, `late`, `stale`, `blame`, `broken`, `leftover`, `missed`); each exemption is
a behaviour of the code listed in section 6, and the property says what holds outside
of it.

## 5. Fairness

* `Outbox`: the dispatcher's ticker claims, a claimed event is handled and
  resolved, a supervisor restarts a process that died, time reaches
  `available_at`. Nothing is assumed of operators.
* `Workflow`: the same for the dispatcher; the 5-second ticker of the timeout
  worker eventually sweeps every expired request; a handler or the dispatcher
  that holds an execution goes on to run it, record it and verify it.
* `AlertIntake`: a request's goroutine goes on and the sender repeats what failed.
  Strong fairness is assumed of one statement: the `SELECT` of a key that the
  `INSERT` before it ran into. Without it TLC finds two senders whose retries are
  for ever cut off by the garbage collector deleting the key exactly between
  these statements; keys live for 24 hours, so this does not go on for ever.
* `Automations`: time passes, the scheduler ticks, runs and edits proceed, the
  process is restarted. Edits and faults are finitely many: an operator who edits
  any job more often than an `@every` interval postpones that job for ever.
* `MemoryWorkflow`: retries become due, the dispatcher's loop and its diagnosis go
  on, the sweep reaches every request, goroutines holding an execution proceed.
  Producers are bounded, which is the assumption `BacklogDrains` needs: the store
  claims from the newest event backwards.
* `Knowledge`: the dispatcher takes closed events and both ingesters run to their
  end; faults are bounded.
* `ToolPlan`, `CommandRun`, `Reasoning`: the worker takes its next step (every
  remote call has a timeout) and a process that died is started again. Nothing is
  assumed of approvers, administrators or a JumpServer job.
* `Telegram`: the polling loop polls and takes the next update, a handler goes on,
  the process is started again. Nothing is assumed of users.

The other modules state safety only.

## 6. Where the code differs from its documents

With a run that ends in a counterexample:

* `credentials_rotation`: `SetStatus` refuses only the step from
  `rotation_required` straight to active; disabling and then enabling makes the
  credential active with its old material, against
  `docs/reference/configuration-reference.md:113`.

Found with TLC on these modules, and described here without a run of their own:

* A replica that starts requeues the rows of the running one
  (`RecoverProcessingOutbox`, `repo/postgres/workflow.go:898`), so both handle them,
  against "multiple workers can coexist without double-claiming the same row"
  (`docs/architecture/event_outbox_flow.md:37`). `DeliveriesExplained` is what
  remains true.
* A chat diagnosis may create a capability request and resolve the session;
  approving the request later takes the session from resolved to executing
  (`workflow.go:277`), against `project/tars_technical_design.md:1162`.
* A rejected request sets the session to analyzing and queues nothing
  (`workflow.go:403`), so it stays there; the table at
  `project/tars_technical_design.md:1149` says it is analysed again.
* Two alerts of one fingerprint with different annotations, handled at the same
  time, open two sessions (`workflow.go:122`), against
  `docs/reference/database-schema.md:218`; `OneSessionPerAlert` is what the
  idempotency key guarantees.
* A run that ends after its job was disabled gives the job a next run again
  (`automations/manager.go:882`), against `automations/manager_test.go:572`;
  `RunDue` still skips it, as it looks at `Enabled`.

Met while modelling, and reflected in the models:

* `ReplayOutbox` accepts rows that are done, pending or processing; the design
  says failed or blocked only.
* A session may have several active execution requests, as neither
  `ApplyDiagnosis` nor `CreateCapabilityApproval` looks for one; the design
  allows one. The properties hold with it.
* An alert without name and instance is identified by its hash as a duplicate
  and by its position as a session: sent again at another position it is
  answered with 500. The payloads of the runs avoid it.
* A run started by hand on a job whose schedule matches no date clears the next
  run when it ends, also if the job got a recurring schedule meanwhile. `cleared`
  marks these jobs; every other enabled job stays scheduled (`EnabledScheduled`).
* Overlapping edits of automations, of the copying configuration managers, of
  skills and of extension candidates lose one of the two; a health record of a
  connector stores an old lifecycle with a new configuration.
* Deleting a skill passes its note in the place of the file's content: the file no
  longer holds a configuration and the next start has no skills.
* Commands that go through an execution connector are not validated again against
  the deny list that the built-in executor applies at the moment of the run.
* An approval stored before a crash, or before a failing later step, is not applied
  when the update is repeated: the key marks it as a duplicate and the request stays
  executing. An update the poller could not process is confirmed by the next poll.
* The first failing message of a timeout sweep ends it; the other requests are
  rejected and their targets are not told.
* Two overlapping events both pass a trigger's cooldown, and the one that saves last
  may save the older time, from which the cooldown then runs; without PostgreSQL an
  edit forgets the last firing. An edit that overlaps another, or `SetEnabled` on a
  copy, undoes what was saved in between.
* An ingestion that fails is not repeated: `session.closed` has one attempt
  (`contracts/event_bus.go:123`) and goes to the dead letters, so the document may
  stay behind the session until an operator replays the event.
* When the vector store fails after the commit, neither a replay nor a reindex
  writes the vectors, since the content hash is unchanged.
* A verification that returns an error, a cancelled request or a crash after an
  approval leaves the session verifying or the execution executing; nothing takes them
  up again (`api/http/approval_actions.go:158`).
* A repeated diagnosis asks for its approvals again; an answer to the earlier request
  is accepted as well. A capability put on the hard-deny list between the policy check
  and the call, or after its approval, is still called.
* With `local_llm_assist` enabled the raw context is sent to the assist model, which
  looks for sensitive values (`reasoning/service.go:556`); the system prompt is built
  from the raw context and not masked, so a value that the role's prompt or the
  planner's summary of capabilities names reaches the model.
* An OAuth state is looked up trimmed and deleted as it came
  (`access/manager.go:1263`, `:1268`): one that was padded with blanks is accepted
  until it expires.
* The enforcer matches stars inside a pattern, `:segments` and dots, where the prefix
  search of `Evaluate` does not: on patterns that are not plain the two ways to decide
  a permission differ.
* A boot merges the API keys of the providers file into the entries of the document:
  after a crash between the two writes a provider has the key of an edit that nobody
  acknowledged.
* The fingerprint of a connector's manifest is not stored in the document
  (`connectors/manifest.go:143`): the first change of content after a boot from it
  records no revision, and a rollback cannot return to what it replaced.
* Marks such as `[HOST_1]` are numbered per phase: after an edit of the rules a mark
  of the plan stands for another value in the conclusion.
* Wizard requests that overlap write back each other's row and may reopen a completed
  wizard; a raw API key is stored before the provider is checked, so a refused
  request replaces a working key; a key whose file write failed is in memory only.
  Without a database a restart opens a completed wizard again.
* A rotation of the signal files cut off before the removal doubles records; a
  record stamped before midnight and written after it outlives younger ones in the
  size trim; metric snapshots have no id, so the trim keeps their oldest. A line that
  was written in part takes the next record with it. A rotation or a trimming that
  fails leaves the counts as they were until the next one or a restart. A query that
  overlaps a rotation or a rewrite may miss records or return them twice, and one that
  finds the end of a file in order does not look for a younger record before it.

## 7. What is proved

The proofs assume of the constants what the modules state with `ASSUME`: the
identities that mean "nobody" or "nothing" (`None`, `Missing`, `Torn`, `Unset`,
`NoSkill`, `NoCandidate`, ...) are not in the sets they stand beside, bounds are
natural numbers, batches are not empty, and where the code lists or counts things
they are finitely many (rows and dispatchers of the outbox, triggers, approval
requests, closed sessions). The rest is what the code's own configuration has: at least one entry in a
configuration store, plans that are not empty, policies over the commands that exist,
a longest cooldown, hosts that do not look like marks and marks enough for them, a
lifecycle that keeps at least two revisions (the code keeps twenty). Nothing bounds
the number of sessions, requests, operators, webhooks, jobs, updates, plans, users or
skills, nor that of crashes, faults and replays.

A theorem about a specification that has a `Sound` property proves all its conjuncts
from one inductive invariant; the larger of these were checked with TLC before they
were proved.

* **`OutboxProofs`**: `TypeCorrect`; `NothingStranded` (inductive with the type
  invariant); `DuplicatesExplained`; together `OutboxCorrect`. The third needs
  `DeliveryInv`: for each row, successful deliveries plus claims still open plus one
  if it is pending are at most the number of times it entered the queue. Every
  action moves a unit from one summand to another, or raises both sides.
  `DoneCorrect` rests on `AckMeansSent`: whoever is about to mark a row done has
  delivered it. `AttemptsCorrect` and `SettledCorrect` are about one dispatcher
  (`SingleDispatcher`; they are false for two, since a start requeues the rows of the
  other). They need `HeldIsQueued` and `AttemptInv`: the attempts made, the one the
  row is queued for and the one its holder will make stay within the policy, because
  the attempt number of a claim keeps up with them.
* **`WorkflowProofs`**: the invariant `IInv` consists of `TypeOK`, `Placed` (what
  a goroutine holds exists), `OneHolder` (no two hold the same request), `Staged`
  (where a goroutine is tells its request's status and whether it has run) and
  `Ledger` (status, clearance, recorded verdicts and number of runs agree). From
  it follow `NoSecondRun`, `RunsAuthorized`, `OneVerdict` and `ResultsExpected`,
  together `RunsCorrect`; `SessionsBacked` is inductive relative to it;
  `FeatureRespected` is an action property; `Implementation` shows that every step
  is a step or a stutter of `ApprovalGate`. `OneHolder` is the heart: result
  handlers do not check the status they overwrite, and are right only because the
  row lock in the verdict admits a single holder.
* **`AlertIntakeProofs`**: `IInv` consists of `TypeOK`, `Owned` (who writes a
  session owns the key), `Known` (an alert with a key, or that opened a session,
  is found by its fingerprint), `First` (who is about to open a session is the
  first for its alert), `Handled` (the alerts a request has passed have sessions)
  and `OneSessionPerAlert`. It gives `NoSecondSession` and `AcceptedKept`, together
  `IntakeCorrect`.
* **`BackgroundProofs`**, automations: `TypeCorrect`, which bounds the attempts of a run;
  `NoOverlap` from `Marked` (a run that was let in holds the mark of its job);
  together `RunsCorrect`; `EditsSurvive`, for one editor, from `KeptInv`, which
  relates the draft, the file, the memory and the acknowledged value;
  `AlwaysScheduled`, for any mixture of schedules, from `ScheduleInv`, which says the
  same of the drafts, so that only the record of a run can clear a next run.
* **`BackgroundProofs`**, signals: `SignalsCorrect` from `SigInv`. What is on disk was
  written (`SigTypes`) and a tag is of one record (`SigNumbers`); a file has no record of
  a later day (`SigDays`). `Base` is what the files are once a rotation under way has
  removed the active one: unless a rotation was cut off, each record is in one place of
  it and counted once (`SigCounted`). Without late records and cut-off writes
  (`SigOrdered`) the young records are in the order of the files, and one not older than
  any young record written is on disk: without this a dropped record could have been the
  newest. What a query has read so far is the end of what it follows (`SigQuery`).
  The lemmas: counting in a finite linear order (`Ranks`), from it what a sorted
  file holds (`SortedFacts`), what rotating and appending leave (`Rotated`, `Appended`),
  that a young record is dropped only if the size limit is full of records not older
  (`DroppedForRoom`) and the youngest never (`YoungestStays`), and that the answer of a
  query is the end of the line of records (`NewestFound`).
* **`AdminProofs`**, logins: `LoginCorrect` from `LoginInv`. A flow, and every copy of
  it that a request holds between two lock regions, belongs to the owner of its token
  and claims no factor that was not shown (`FlowsTracked`, `RequestsTracked`); a
  session was earned under its token (`SessionsTracked`); a one-time value accepted
  as it was issued is in neither map and was drawn, so it cannot come back (`OneTime`).
* **`AdminProofs`**, directory: `DirectoryCorrect`. `normalizeConfig` makes the
  memberships agree whatever it is given (`NormalizeConfigAgrees`); the enforcer's
  match and the prefix search are compared pattern by pattern, plain or not
  (`MatchForm`, `DecisionForm`).
* **`AdminProofs`**, stores: `StoresCorrect` from `StoresInv`: which steps an edit of
  each discipline goes through (`StoresShape`), that a locking manager never drops a
  built-in entry, so that a boot adds none (`StoresComplete`), and that every copy,
  the draft of the one edit under way included, is one a reader may be given
  (`StoresKept`); for the providers what a reader may be given is closed under merging
  the keys.
* **`AdminProofs`**, wizard: `SetupCorrect` from `SetupInv`: what a request knows at
  each place (`WizardRequests`), that the keys and bindings recorded are stored
  (`WizardStores`), and, while requests do not overlap, that the only one at work
  holds the row as it is and that memory and document already have what it will
  record (`WizardAlone`). Without a database a boot begins again with an empty row and
  empty documents, which agree.
* **`AdminProofs`**, registries: `ImportsCorrect` from `ExtInv`: without overlap every
  copy of a candidate is backed by its last effective review. `SkillsCorrect` from
  `SkillsInv`: what memory and files hold (`RegistryKept`), what a request holds
  before the swap, after deriving the lifecycle and while correcting it
  (`SavingOK`, `DerivedOK`, `SettlingOK`), and `OneAtATime`.
* **`AdminProofs`**, connectors: `ConnectorsCorrect` from `ConnInv`: as long as no
  health record has mixed an old lifecycle with a new configuration, memory, file and
  document each hold a configuration with the lifecycles that belong to it
  (`ConnStoresKept`), and so do the request under way at each of its regions
  (`AdminKept`) and the copies of runtime calls (`CallKept`). That the newest revision
  is the configured one rests on the sort being stable (`ByTimeFacts`) and on the
  fingerprint, where there is one, being that of the configured manifest. The value for
  "no entry" is assumed to be none of the entries.
* **`MemoryProofs`**, workflow: `MemoryCorrect` from `MemInv`: what goroutines hold
  exists (`MemPlaced`), an execution under way has one carrier who has run it once or
  not yet (`MemHolding`), a batch names an event once and only present ones
  (`MemBatch`), an update's key was recorded when it took effect (`MemVerdicts`).
  `MemoryImplementation` shows that every step is a step or a stutter of
  `ApprovalGate`.
* **`MemoryProofs`**, knowledge: `KnowledgeCorrect` from `KnInv`: at most one ingester
  is past its reading (`KnAlone`), the last closing waits, is in work, is in the dead
  letters or is in the document (`KnLatest`), vectors differ from the chunks only while somebody is about
  to replace them (`KnVectors`). `SearchSound` holds in every state (`SearchHolds`):
  a full list of lexical hits fills the answer (`FewerRows`), so that cutting it
  before the merge loses nothing the merge had room for. `AddParagraphFits` is the
  step of `ChunkText` for every limit and every paragraph.
* **`ChannelProofs`**: `CredentialsCorrect` from `CredInv`: the vault is empty up to
  the version of the last acknowledged deletion, of one under way and of the one a
  resolution began after, unless deleting failed. `TelegramCorrect` from `TgInv`: what was not taken is still held by Telegram and
  ahead in the current answer, what was taken is in work or settled, an approved
  request has one handler or a recorded failure. `TriggersCorrect` from `TrigInv`: the
  copies a call works on are as young as the messages it knows of, and the time
  a call is about to save has passed (`TrStamps`).
* **`DiagnosisProofs`**: `CommandCorrect` from `CmdInv`, by the stage a command is in.
  `CallsCorrect` and `StepsCorrect` from `PlanInv`: while steps are left none so far
  has ended the plan, the row being asked about is the last one and names exactly the
  approvers told so far, and this pass has asked for earlier steps only, whatever rows
  earlier passes left; what is about to be called was cleared by the policy and has been
  barred since only by an edit (`PlCall`). Lists are handled without induction over data: the
  least-number principle (`LeastNumber`) gives the smallest length at which a listing
  would fail, from which `AscendingExists`, `Ranked` and `PickedFacts` follow.
  `ReasoningCorrect` from `ReasonInv`: requests went to the two different models the
  phase captured (`RsAsked`), marks are of the kind of their values (`RsShape`), and a
  mark that a plan still names is of a kind its rules do not let back (`KeptMarks`),
  which is why numbering marks anew in the finalizing phase confuses nobody as long as
  the rules stay.

## 8. What is only model-checked

Liveness (`EventuallySettled`, `PendingDecided`, `ExecutingFinishes`,
`EveryWebhookAccepted`, `KeepsRunning`, `BacklogDrains`, `ClosedIsIngested`,
`WorkEnds`, `UpdatesTaken`) is beyond the proof system.

`ChunkTextFits` is about a fold over the paragraphs, and what a fold computes for every
input is out of the prover's reach: `ChunkText` is compared with its contract for texts
of up to three paragraphs with blanks anywhere, empty ones included, and limits of 2, 3
and 7 characters; `AddParagraphFits` proves one step of it.

## 9. What is left out

* Timelines, metrics and audit records, message texts and prompts, except that an
  event of topic `telegram.send` is a row like the others.
* What a model, a command or a connector returns: any outcome is possible. In
  `Workflow` the same holds of the authorization decision.
* `runImmediateCapability` of the dispatcher: with the PostgreSQL store a
  capability never takes that path. `DeleteOutbox` of a diagnosis row is in
  `Outbox` and `MemoryWorkflow` only.
* In `Workflow` a claim takes any set of pending rows; the order and the limit are
  in `Outbox`.
* In `Automations` the number of goroutines per job is bounded by `Sched` and
  `Manual`; run history and failure counts are not kept; skill steps are one
  attempt with any outcome.
* Cryptography and protocols: password hashes, random tokens, OIDC discovery, vault
  encryption (a key id), the wire formats of SSH, JumpServer, VictoriaMetrics,
  VictoriaLogs, MCP and model providers.
* Metric snapshots of the observability store, the secrets file apart from the
  wizard's keys, organization policies, the expansion of a skill into plan steps.
* The parts `PROJECT.json` lists as not modelled with the reason: request decoding
  and rendering, DTOs, the web console, message templates, start-up configuration,
  application wiring.
