# A formal model of the Bedrock terminal platform

The repository is an in-house platform that gives every employee a terminal with Claude Code
in a pod of its own on EKS.  This directory holds TLA+ models of the parts of it whose
correctness depends on the order of events, the TLC configurations that check them on small
instances, and TLAPS proofs of the properties that matter most.

1. [The system](#1-the-system)
2. [What is modelled](#2-what-is-modelled)
3. [The modules and the code](#3-the-modules-and-the-code)
4. [The runs](#4-the-runs)
5. [Fairness](#5-fairness)
6. [What is proved](#6-what-is-proved)
7. [What is only model-checked, and what is not
   modelled](#7-what-is-only-model-checked-and-what-is-not-modelled)
8. [Where the code does not do what it says](#8-where-the-code-does-not-do-what-it-says)
9. [Plan](#9-plan)

## 1. The system

`auth-gateway` is a FastAPI application.  Two replicas of it run
(`infra/k8s/platform/auth-gateway.yaml:54`), each one a single process with one event loop:
the code between two awaits is not interrupted inside a replica, but the two replicas
interleave at every access to what they share: the PostgreSQL database, Redis, the Kubernetes
API and the users' pods.  Most Kubernetes calls are made synchronously inside `async`
handlers, so a handler keeps its replica busy over them.  Background jobs run in each replica.

| Component | State | Operations | Interacts with | Hard about it | Correct when |
|---|---|---|---|---|---|
| Usage worker (`usage-worker/worker.py`) | pending list and cursor of a Redis consumer group, local retry counters, usage tables | read, recover, claim, charge in one transaction, acknowledge, dead-letter | Redis stream written by the gateway's Bedrock proxy; database | redelivery after a crash, two workers with one entry, failures between commit and XACK | a request is charged once; nothing acknowledged vanishes; everything settles |
| Edit sessions (`routers/viewers.py`) | table `edit_sessions` | open, join, callback (2, 3, 4, 6, 7, 10), save into the pod | OnlyOffice Document Server (callbacks), file server of the pod | duplicated callbacks at two replicas, a lock given up during the download, failing saves | one writer per key; a row is "saving" only while somebody saves; accepted edits are on disk |
| Sign-on tokens (`core/jwt_rs256.py`, `routers/jwt_auth.py`, `routers/auth.py`) | blacklist in Redis or in process memory; cookies and token files of the callers | login, refresh with rotation, replay revocation, logout, pod-token exchange, the ingress's check | portal tabs, chat pages, refresh daemon of a pod (`container-image/entrypoint.sh`), dashboard | callers sharing a cookie, lost answers, Redis outages, lifetimes | a token is used once, its blacklist entry outlives it, the user's own programs are no replay |
| Terminal sessions (`routers/sessions.py`, `services/k8s_service.py`, `services/idle_cleanup_service.py`, pod endpoints of `admin.py` and `security.py`) | table `terminal_sessions`, pod, Secret | create, bulk create, assign, move, list, end, bulk end, idle check | Kubernetes, user's heartbeat, dashboard | stale reads across Kubernetes calls, a pod that stays for its grace period, two replicas, an old judgement | token in the pod = token in the row; a user who asks gets a pod; active pods are spared |
| App deployment and approval (`routers/apps.py`, `services/app_deploy_service.py`, `admin.py`) | row in `deployed_apps`; Deployment, Service, Ingress | deploy, approve, reject, suspend, resume, recall, stop, start, delete | Kubernetes | the row is committed first and Kubernetes called after it, call by call, at two replicas | nothing runs that nobody cleared; the Ingress asks the door the status calls for |
| Sharing (`routers/apps.py`, `portal.py`, `file_share.py`, `viewers.py`) | two tables of grants, profiles | grant, revoke, bulk revoke; seven queries that admit or list | Ingress auth check, viewers, pods' mounts | the same question is answered in seven places | they agree; one revocation is enough |
| Accounts and second factor (`routers/auth.py`, `users.py`, `services/two_factor_service.py`) | row of a user; codes with attempts | login, verify, approve, reject, revoke, delete | SSO, SMS | check and write are two steps at two replicas | guesses are bounded; an approved user is not deleted |
| Messages (`routers/sms.py`, `mms.py`, `portal.py`) | logs of messages | send, send to those an app is shared with | provider, moderation by the model | the limit is counted before the call and logged after it | limits hold; what was sent is on record |
| Skill governance (`routers/skills.py`) | a skill, its events and installations | submit, approve, reject, delete, install, remove, list | pods | approvals overlap | distributed only with a quorum |
| Telegram surveys (`routers/telegram.py`, `surveys.py`) | assignments and responses | answer by text, button, photo | Telegram, S3 | a photo is stored by a task of its own | one answer per question, in order |
| Prompt audit and knowledge graph (`services/prompt_audit_service.py`, `knowledge_extractor.py`, `knowledge_snapshot.py`, `core/scheduler.py`) | audit tables, graph, daily snapshots | audit, extract, snapshot, review | terminals, the model | every replica runs the jobs | stored with its flags; extracted once |
| DRM vault (`routers/secure_files.py`, `services/s3_vault.py`, `scripts/drm_backfill.py`) | keys in rows, objects in S3, keys in memory | upload, read, backfill, reset | S3, KMS | a crash between key and object | a file stays readable |
| File retention and job lock (`routers/file_governance.py`, `core/scheduler.py`, `core/redis_client.py`) | rows of files, a lock in Redis or memory | report, expire, lock, unlock | scanner in the pod, Redis | a lock that expires under its job | a reported file is active; nothing is expired twice |
| Extension requests (`routers/scheduling.py`, `telegram.py`) | rows, audit log | request, approve, reject on the web and in Telegram | Telegram | the handler awaits between commit and audit line | decided once, told, audited |
| Bots (`routers/bots.py`) | `user_bots`, the webhook at Telegram | register, delete, receive | Telegram, pods | awaits between reads and commits | messages reach the registrant's pod |
| Security policies (`routers/security.py`, `sessions.py`) | templates, policies, pods, sessions | edit a template, spread it, set a policy, make and end pods | Kubernetes | three commits, pods made meanwhile | pods follow policies |
| Outbound proxy (`proxy_server.py`, `services/domain_whitelist.py`) | white list, a copy of it, connections, access log | change, reload, ask, dial, relay, log | database, clients, sites | an old copy; either end may go first | admitted by a fresh list, logged |
| Quota gate (`routers/bedrock_proxy.py`, `admin.py`) | policies, assignments, daily sums | create, assign, gate, snapshot | usage worker, terminals' logs | sums lag; two writers of them | overspending is bounded by the lag |
| Maintenance mode (`main.py`, `admin.py`) | a row and its word in Redis | set, middleware | Redis, database | a stale word | on and off take effect within the word's life |
| File server of a terminal (`container-image/fileserver.py`) | directories, registry of ports, processes, the copy for a deployment | start, stop, list, rename, delete, prepare | hub, Linux | ports outlive entries; processes end late | a port is its own application's; a copy is whole |

`PROJECT.json` lists every component with its status, and every hazard at its line.

## 2. What is modelled

Every component above has a module of its own.  They share no state that a property of two of
them depends on, with three contacts, each an action of its environment in the module that
sees it: a session's pod token, with which the pod buys its first sign-on token
(`SessionLifecycle` shows that the pod holds the right one, `JwtAuth` that it is used up); the
life of an app, through whose states `Sharing` takes the row without `AppDeployment`'s order;
the usage worker, which in `QuotaGate` adds up one event at a time, at any time.

| Module | Models |
|---|---|
| `UsageLedger` | the promise of the usage worker: exactly-once accounting |
| `UsageWorker`, `UsageWorker_proofs` | the worker and its proofs; refines `UsageLedger` |
| `EditSession` | one document, its rows, the callback handler, the Document Server |
| `JwtAuth`, `JwtAuth_proofs` | one user's tokens, the replicas, the blacklist |
| `SessionLifecycle` | one user's terminal session |
| `AppDeployment`, `AppDeployment_proofs` | one app: row, Deployment, Service, Ingress |
| `Sharing` | grants on one app and one dataset, and the queries on them |
| `Accounts` | one user's account and codes |
| `Messaging` | one sender's SMS and MMS |
| `SkillGovernance`, `SkillGovernance_proofs` | one skill |
| `Surveys` | one person's surveys |
| `AuditPipeline` | one terminal's prompts in audit and graph |
| `Vault` | one file of the vault |
| `FileRetention` | one path of one user, and the clean-up's lock |
| `ExtensionRequests` | one person's requests for more time |
| `UserBots` | one Telegram bot |
| `SecurityPolicies` | templates, policies, pods and sessions of a few people |
| `OutboundProxy` | the white list, its copy, connections |
| `QuotaGate` | one person's budget |
| `Maintenance` | the maintenance mode and its middleware |
| `TerminalApps` | the applications of one terminal |
| `Documents_proofs` | proofs about `EditSession`, `Sharing`, `Vault`, `FileRetention`, `OutboundProxy` and their composition |
| `Terminals_proofs` | proofs about `SessionLifecycle`, `ExtensionRequests`, `UserBots`, `TerminalApps` and the composition |
| `SignOn_proofs` | proofs about `Accounts`, `Messaging`, `SecurityPolicies` and the composition |
| `Portal_proofs` | proofs about `Maintenance`, `Surveys`, `AuditPipeline`, `QuotaGate` and the composition |
| `Documents`, `Terminals`, `SignOn`, `Portal` | compositions: the components of documents, of a terminal, of signing on, behind the portal |
| `MCDocuments`, `MCTerminals`, `MCSignOn`, `MCPortal`, `MCLiveness` | instances of the compositions, and of three components for their liveness, for one run each |
| `MCUsageWorker`, `MCEditSession`, `MCJwtAuth`, `MCSessionLifecycle` | instances of one component |

Conventions.  A variable that is not in the program but records history for a property says so where
it is declared (`charged`, `accepted`, `written`, `spent`, `exchanges`, `crossed`, `...Log`).  Every
bound is a constant (`Max...`) in the guard of an action.  Operators introduced as "Mutant of" are
deliberate mistakes, used by no specification; with one in the place of the definition it mutates,
the property named in `PROJECT.json` fails.  A component's safety is stated in parts, each with its
comment, and checked as their conjunction (`DoorsAgree`, `SkillIsCoherent`, ...).

## 3. The modules and the code

### UsageWorker

`stream`, `cursor`, `owner`, `deliveries` and `stale` are the Redis stream, the group's
last-delivered id and its pending entries list.  A worker (`pc`, `caller`, `batch`, `claimed`,
`retries`) is one consumer name; a container that restarts keeps the name, which is why
`Connect` starts with `RecoverPending`.  `ledger` is the primary key of `token_usage_event`;
`charged` counts how often an entry entered the daily and hourly sums.

| Code | Action |
|---|---|
| `run`, `_recover_pending` | `Connect`, `RecoverPending` |
| `_consume_loop`: XREADGROUP, parse | `ReadNew`, `ReadReplyLost`, `ParseNew` |
| `_claim_stale_pending` | `ClaimStale`; per entry `DeadLetter`, `DeadLetterUnknown`, `DeadLetterAckFails`, `Keep`, `DropBad`, `ClaimRaises` |
| `process_batch` | `Commit`, `Ack`; its exceptions `CommitRejected`, `CommitFails`, `AckFails` with `BatchFails` |
| producers, Redis's idle clock, process death | `Publish`, `Idle`, `Crash` |

Events are of four kinds, by what the code does with them: parsed and storable, not parsed
(`_parse_event` returns None), raising in the parser what the parser does not catch, and
rejected by the database.

### EditSession

One document, personal or in a shared dataset (`Shared`).  `status`, `version`, `first` and `made`
are the rows of `edit_sessions` by document key; keys are salted, so a new row always has a new key
and the unique constraint never refuses one.  A browser is `away`, `creating` (its lookup found
nothing to lock), `joining` with a configuration, `editing` or `viewing`.  `net` holds callbacks
under way; `Arrives` may leave one there to arrive again.  `task` is a handler of
`onlyoffice_callback` between its two commits.  The branches of the handler are the actions
`CallbackUnknown`, `CallbackAlreadySaving`, `CallbackNoUrl`, `CallbackNoChange`, `CallbackError` and
`CallbackSave`; the last continues with `Write` and then `Saved` or `SaveFails`.  `Write` of a
shared document does not change `file`, because the path that `_save_edited_file` builds for it
lacks the dataset's directory.  The Document Server (`doc`, `loaded`, `dirty`) is external and does
what `viewers.py:911-925` says of its callbacks.

### JwtAuth

One user.  Tabs, chat pages and the windows in which the user logs out (`Exit`) share the cookie
jar `Browser`; every daemon and dashboard has a jar of its own.  Each caller waits for the answer
to its own request and for no other: the keep-alive of the portal is a timer whose refresh nobody
waits for, so the user may log out while it is under way (`portal.html:1077`), and its answer may
come after that of the logout.  An answer with a new token replaces what the jar has (`Receive`);
that of the ingress's check sets access cookies only.

Refresh tokens are numbered in the order of their issue.  A replica serves one request at a time
and its handler goes through `CheckUser`, `CheckJti` and `Rotate` or `RevokeAll`, one access to
the blacklist each, so that two replicas interleave between them.  The blacklist is Redis while
it answers, else the memory of the replica (`Listed`, `Blacklist`), exactly as
`_redis_blacklist_check` and `_redis_blacklist_add` fall back.  Time is a clock of hours; the
lifetimes that matter are a refresh token's (12 hours: `RefreshTTL`) and a pod token's entry
(1 hour: `PodTTL`), of which only the order is used.  History: `spent` counts the uses of each
refresh token, `exchanges` those of the pod token at each time, and `crossed` says that two
requests with the token of one jar were under way together.

### SessionLifecycle

One user: a row, a pod (of a name derived from the user, so there is one of each), the Secret
with the pod's token.  `run[h]` is a handler at the Kubernetes call or commit it has reached.
Each operation begins in `Begin` with what it reads; its calls are `Retire`, `Delete`,
`DropSecret`, `Look`, `Issue`, `Post`, its commits `Record`, `MarkRunning`, `MarkEnded`,
`Touch`.  The three seconds `create_session` sleeps are `napping`: its replica serves other
requests meanwhile, and `Wake` looks at the pod once.  A pod that is deleted stays, with its
phase, until its grace period is over (`leaving`); `Look` reuses it in that time, as
`create_pod` does.

Deviations.  The protection of young sessions (15 minutes from `created_at`, which a recycled
row keeps from its first session) is left out; so the idle checker sees every session old,
as the code does for all users but new ones.  The
Service and the Ingresses of a pod, which `delete_pod` removes with it, are left out.  An
operation whose reading gives it nothing to do is left out: it changes nothing.

### AppDeployment

A request reads the row (`BeginAppOp`), commits what it writes of it and leaves the rest as it
is by then (`CommitAppOp`, `Flush`: the ORM writes changed columns only), and makes the calls
of its plan one at a time (`CallSucceeds`, `CallRefused`, `CallLost`); a replica may die
anywhere.  `Effect` is what each call does to Deployment, Service and Ingress.  The Ingress of
an app with a login of its own ("custom") does not ask the gateway, so it must not be there
while the app is not running.  A recall leaves a Deployment without replicas; `appLog.recall`
records whether an app was recalled since it was deployed and whether an admin has started it
again.  The admin's stop, start and recall accept a row of any status and look at no approval;
`appLog.stray` records that one of them was asked of an app that neither ran nor was stopped.

### Sharing

A grant is a key (kind and value) with a row that is live or revoked.  The operators
`AuthCheck`, `ListedApp`, `Recipients`, `ListedData`, `ViewerAdmits`, `CodeOffered` and
`MyShares` are the seven queries, each translated from its own SQL.  `BeginGrant` looks for the
row, `StoreGrant` inserts or revives it.

### Accounts, Messaging, SecurityPolicies

All three read in one step and write in a later one, at two replicas.  `Accounts`: a login
issues a code unless locked out, `BeginVerify` reads the attempts, the verdict is committed
after it; `Decided` is each of the administrator's operations.  `Messaging`: `msTasks` is a
request at the moderation, at the provider, or before its row; requests of one replica interleave
there like those of two.

`SecurityPolicies`: a template's change is `RewriteTemplate`, `SpreadPolicies`, one pod at a time
(`KillPod`), `CommitKills`; pods are made with the policy that was read at the beginning.  A
pod that is deleted stays for its grace period of 10 seconds (`leaving`), and one that reaches
its deadline, crashes or loses its node stays in a final phase (`ended`), until Kubernetes
removes it (`PodFinishes`, `PodGoes`); `MakePod` takes a pod that is there as it is, as
`create_pod` does (`k8s_service.py:394`).  A template may be renamed and keep its text, which
names the old level: the people it is spread to are then at the old level, where another template
may have been made since (`Strayed`).

### SkillGovernance, Surveys, AuditPipeline, ExtensionRequests, UserBots

`skTx` are transactions at READ COMMITTED: the row as it was read, the approvals as they were
counted.  `svTasks` are messages: a text or a button is read and saved, a photo is `load`ed in
between.  `ppJob` is a replica's job: what it has seen, found, and is about to write in one
transaction.  `exTasks` and `ubTasks` have their phases at the awaits of Telegram.  A
notification of a request or a decision (`Notify`) may reach nobody: a recipient without an
account at the bot is skipped, and the status of Telegram's answer is not looked at.

### Vault, FileRetention

A data key is a number; `vrow` has its encrypted form, `object` was encrypted with one or is
plain, `cache` is the memory of keys by their encrypted form.  An upload and the backfill write
key and object in the order of the code and may fail or die between.  In `FileRetention` the
lock of Redis may expire under a clean-up, be set without an answer, or be replaced by the lock
in the memory of the replica.

### OutboundProxy, QuotaGate, Maintenance

A connection asks, is refused (`RefuseSecret`, `Refuse`) or dialled, relays, and ends from
either side; its log line is written by a thread.  The copy of the list is reloaded when it is
older than its life.  In `QuotaGate` a call costs 1; it is admitted on the sums of its cycle,
costs when it is answered, and its event, unless lost, is added to the day's sum later.
`Snapshot` writes what the terminals' logs add up to over a row of the day, or beside them.  In
`Maintenance` the middleware looks for the word, then at the row, then keeps the word; one
step each.

### TerminalApps

The file server has one thread, so a request is one action, except where it waits for what
others do: a process that was started binds its port later (`Bind`) or fails, one that was told
to end holds it until it does (`Exit`), and a copy for a deployment goes item by item
(`CopyItem`) while the user edits (`EditItem`).  `registry` is the file with the ports, `procs`
the processes with their directories, `tab` the window that the hub opens.  The server finds
listeners in `/proc/net/tcp`, so it sees those of family "v4" and none that listens at '::'
(`Seen`); a scan that raises finds fewer than that, or none (`Scans`).

## 4. The runs

A composition (`Documents`, `Terminals`, `SignOn`, `Portal`; `MCLiveness` is one too) holds several
components, and its MC module gives it a small instance.  The components share no
state, so a behaviour of the run is a behaviour of one of them, named by the variable `part`,
and the others rest in an initial state; the run visits the sum of their states and not the
product, and checks each component just as a run of its own would.

| Run | Instance | Shows |
|---|---|---|
| `documents` | editing: 2 users, 1 edit, 2 handlers, 2 keys, a force-save, a duplicate, a crash, a personal document. Sharing: owner, admin and one other person, two kinds of groups with two values, 2 grants, 2 handlers. Vault: 2 readers, 2 workers, 3 keys. Retention: 2 scans, 2 replicas, 3 reports, 2 clean-ups, a fault of Redis. Proxy: 2 connections, a domain and one below it, 3 ticks, 3 changes, a fault | `OneWriterPerKey`, `SavingHasWriter`; `DoorsAgree`, `OneLiveGrant`; `FileStaysReadable`; `RetentionKept`; `AdmittedLately`, `ConnectionsEnd` |
| `terminals` | usage worker: 2 workers, 2 entries of all four kinds, 1 request id, batch of 2, 3 retries, 1 fault. Sessions: 2 handlers, all ten operations, 3 disturbances, creations one at a time. Bots: 2 people, 2 handlers, 5 operations, a fault. Extensions: 2 requests, 2 handlers, 5 operations, a fault; any notification may reach nobody. Applications: 2 directories and a new name, 2 ports, 2 processes seen or unseen by a scan, 4 operations, a fault | `Accounted`, `ChargedOnce`, and that the worker implements `UsageLedger`; `TokenMatches`; `MessagesArrive`; `RequestsAreHandled`; `AppsKeepTheirPorts`, `PreparedIsTheProject` |
| `sign_on` | tokens: 2 replicas, a tab, a chat page, a window that logs out, a dashboard, 3 tokens, an outage of Redis, a restart. Accounts: 2 handlers, 2 codes of 2 attempts, a lockout after 1. Messages: 3 people, one without a telephone, a limit of 2, 4 requests, a fault. Policies: 2 people, 3 levels, 3 texts, 2 handlers, 4 operations, a fault; pods in their grace period or ended on their own | `OnlyCrossingsRevoke`; `CodesHold`, `ApprovalsHold`; `MessagesOnRecord`; `PoliciesSpread` |
| `portal` | tokens: 2 replicas, a tab, a window that logs out, a daemon whose entrypoint may run again, a lost answer, 3 tokens, two ticks. Apps: 2 handlers, all ten operations, 4 requests, a fault. Skills: 3 administrators, 2 users, a quorum of 2, 5 requests. Surveys: 2 surveys of 3 questions, 7 messages, 2 tasks. Audit: 2 replicas, 3 prompts, 5 jobs. Quota: 2 calls, 2 administrators, 3 changes, 3 days in weeks of 2, a lost event, a snapshot. Maintenance: 2 replicas, 3 changes, a fault, a word that lives 2 ticks | `UsedOnce`, `NoLateUse`, `EntriesOutliveTokens`; `NeverUncleared`, `SiteFollowsRow`; `QuorumKept`, `SkillIsCoherent`; `AnswersKept`; `FlaggedWhenStored`, `GraphIsAccounted`; `GateHolds`; `EndIsSeen` |
| `liveness` | editing: 1 user, a shared document, all error callbacks, a duplicate. Sessions: 2 handlers, concurrent creations and lists, a failing call or dying replica, a disturbance. Usage worker: 2 workers, one of which may be gone for good; 2 entries that parse or do not, a fault, no request ids (what a request id changes, the charge, is not what settles an entry) | `SaveEnds`: every save comes to an end; `SessionServed`: a user who keeps asking has a running pod again and again; `EntriesSettle`: every entry is charged, dropped as bad or dead-lettered. An entry that makes the parser raise or the database reject its batch may send the worker that owns it back to its start again and again, so the property promises nothing once one is in the stream, and the instance publishes none |
| `usage_worker_dlq_charged`, `edit_force_save`, `jwt_two_tabs`, `session_idle`, `app_recalled`, `maintenance_shown`, `quota_snapshot` | the smallest in which it happens | violations, section 8 |

`TypesOK` of a composition is the conjunction of its components' type invariants.

Why the bounds are enough for what the runs show.  Two of each actor make every race of the code
possible, since no operation treats three differently from two.  Two entries make a duplicate of a
request id and a batch with a second member possible; three retries distinguish "delivered again"
from "exhausted".  Two keys let a document be closed and opened again while a callback of the first
key is still under way.  Two ticks take a refresh token past its expiry and a pod token's entry past
its own earlier.  Six tokens in `SessionLifecycle` are as many as are ever in use at once (the
row's, the pod's, the Secret's and one in each handler) and one fresh one.  Four requests take an
app through deployment, approval, suspension and redeployment with an overlap in it.  A quorum of
two of three, one of whom is the author, is the smallest in which two approvals can miss each
other.  Three levels let a template take the name of one that was renamed and is still being
spread.  Three questions with photos around a choice let a late photo meet a later question and the
end of the survey.  Three days in weeks of two have a week's end and a day within it; two calls
overspend a limit of 1, together or one after the other.  Two processes and two ports are the least
in which an application is given a port that another holds, on its way there, listening, dying or
unseen.  Three tokens are the one of a login, its successor and one more, so a token can be used up,
asked for again and its successor used at the other replica.  Each bound on a rare event
(`MaxFaults`, `MaxLosses`, ...) allows at least one of that kind, at any moment, in one of the runs
that check the properties it could break.

The conditions under which properties are checked are those under which the code can keep them.
Where a condition is an overlap of requests, the history variable of the module records it, so the
property is about all behaviours up to that point, and the cases beyond it are races the code
does lose:

* `OneWriterPerKey` without statuses 3 and 10.  An error report for a key in the middle of
  a save resets its row, and a repeated save then starts a second write.  Two openers that find
  no row both insert one, with keys of their own (`viewers.py:246`): each key has one writer.
* `UsedOnce`, `NoLateUse` and `EntriesOutliveTokens` while Redis answers: entries written during
  an outage stay in one memory.  Lookup and blacklisting are two commands, so two replicas may
  both rotate a token (`jwt_auth.py:312`).  `UsedOnce` therefore says that a token is used by no more
  requests than there are replicas, and `NoLateUse` that all of those had looked at the blacklist before
  the first was done.  Of a pod token both speak of the hour that its entry lives: after it
  the token buys again (section 8).
* `OnlyCrossingsRevoke`: two requests of one browser that are under way together may be taken for
  a replay, see section 8; nothing else is.  The run loses no answer, since a caller that never got its
  new token presents the old one again.
* `TokenMatches` while sessions are created one at a time and nothing fails.  Two concurrent
  creations overwrite the one Secret, and the pod may start with the token the row does not
  have (`k8s_service.py:584`).  It leaves out a row without a hash: `move_pod` for a user who has no
  row creates a pod and records nothing, and the row made later for that pod has none.
* `SessionServed` without the bulk end, which deletes the Secret: a pod created at that moment waits
  for it in phase Pending until its deadline.
* `SavingHasWriter` unless a replica dies during a save: nothing repairs the row then.
* `SiteFollowsRow` while requests come one at a time and calls succeed.  Two handlers interleave
  their calls freely, and a failed call is only logged (`apps.py:1184`): a suspended app with its
  own login may stay reachable.  A recalled app is not excepted: it has no pod until an admin starts
  it or it is deployed anew (`RecalledStaysDown`), though its row may say "running" meanwhile
  (section 8).  An admin's stop, start or recall of an app that neither ran nor was stopped
  (`appLog.stray`) may leave it running without an approval on record, which `RunsApproved` and
  `RunningServes` leave out; `NeverUncleared` needs none of this.
* `DoorsAgree` compares the queries.  The guards that keep a grant to an empty team from matching people
  without one (`apps.py:428`, `file_share.py:136`), and `verify_access_code` (`file_share.py:575`),
  are not in it.
* `ConnectionsEnd` is about CONNECT requests; another method is answered 405 and leaves no line.
* `SessionsTellPods` but for a session that was given a pod in its grace period, or one that was
  over: its row is active and it will have no pod (section 8).  `PodsFollowPolicies` but for pods
  that were being made while a change passed.
* `DecisionStands`: the web's rejection looks at no status and may overrule what was decided
  (`exLog.overruled`); when handlers overlap, the last commit wins, and no more of them decide a request
  than are under way.  `TellsTheStatus` but for those whose notification reached nobody.
* `WindowShowsOwn` while nobody else was on the way to the port or held it unseen by the scan (`quiet`).
* `OneLiveGrant`, `OneRowPerPath`, `LastAssignmentRules` unless two requests overlap: they look for
  a row and then insert one, and no constraint of the database refuses the second.  The same
  holds of `OneWaits`, which bounds the requests that wait by the handlers that can overlap.
* `SkillIsCoherent`: two approvals at the same time each miss the other and leave the skill
  pending; `QuorumKept` holds in all of it.
* `CodesHold`: two guesses at the same time read the same number of attempts.  For two at a
  time the guesses of a code stay below n(n+3)/2 for n = MAX_ATTEMPTS, which is part of the property.
* `MentionedOnce`: the lock of the extraction is one per process; when both replicas run, a
  conversation is mentioned as often as there are replicas.
* `OverspendIsBehind` unless a snapshot has overwritten the sums, section 8.

Runs have no deadlock check: every model may stop at its bounds, and the systems stop when
nobody asks anything of them.

## 5. Fairness

* `UsageWorker`: a surviving worker keeps executing (`run` catches everything and starts over,
  and the Deployment restarts the container); each turn of `_consume_loop` reaches the read and
  the claim, however many entries keep coming, which is strong fairness of both; an
  unattended entry's idle time passes `STALE_IDLE_MS`.  Workers outside `Survivor` may stop
  for ever.  Faults are finitely many.  An entry the database always rejects, or the parser
  always raises on, blocks its worker after a restart (`worker.py:458`): `EntriesSettle` promises
  nothing once one is in the stream (`Obstructed`), and the instance has none.
* `EditSession`: callbacks arrive (the Document Server retries), and a handler that
  is saving finishes (its download and its upload have timeouts).  No fairness of users.
* `SessionLifecycle`: handlers go on; Kubernetes starts pods whose Secret exists and
  removes deleted ones; the portal polls the list and the user keeps asking for a session.
  The requests wait in a replica's queue while it serves others, so they are served although
  the replica is not idle all the time: strong fairness.  Ends, idle passes and failures are
  finitely many: with infinitely many no session would last.
* The other modules have no liveness property: what they promise in the end depends on people and
  on services that may stay away, and the code that would retry does not exist.

In `MCLiveness` the fairness of a component is that of its steps in the behaviours that are its
own; a step of the component is enabled in the composition when it is in the module.  Since
`part` never changes, one conjunct may name a step of one component or a step of another: in each
behaviour it is fairness of the one that belongs to it.

## 6. What is proved

All theorems hold for every value of the constants that the modules' assumptions allow, and are
checked by TLAPS with the SMT, Zenon and PTL backends.  Each module of proofs has a part for each
component; a part states the inductive invariant in named conjuncts, has a lemma for what every step
does to them, with a case for each action, and ends in the theorems.  There is one for the type
invariant of every component, with any number of actors and all the faults the module has; it is
repeated below only where it was not easy.  The others say what the runs check on small instances.

Sums and counts over data (costs of calls, mentions of messages, lines of a log) are folds or
cardinalities in the models.  The proofs use of a fold that any member may be added first.  Where
a fact about all finite sets or all numbers is needed, they take a least counterexample: `LeastSubset`
and `LeastNumber` of `Portal_proofs`, `Largest` of `Documents_proofs`, which come from the
well-foundedness of inclusion and of the numbers.

**UsageWorker_proofs.**  `ExactlyOnce`, `NothingVanishes`, `ImplementsLedger`.
`ChargedOnce` is not inductive: that a redelivered entry is not charged again follows from the
key its first charging left in the ledger.  The inductive invariant `IInv` therefore adds

* `LedgerCovers`: the ledger has the key of every charged entry,
* `Undelivered` and `Held`: what nobody was given is neither pending nor charged, and workers
  hold and Redis times only what was delivered,
* `Parsed`: a batch at the transaction contains parsed entries only,
* `CommittedBeforeAck`: a worker about to acknowledge has committed (which `Accounted` needs).

Each has a lemma per invariant and a step per action.  `CommitEffect` says what a transaction
charges: at most one entry of every request id, and none the ledger has.  The refinement maps
the request ids and sums of the entries that carry one to the ledger's: publishing is
`Accept`, a commit is `Charge` of the entries that are new, everything else stutters.

**EditSession** (`Documents_proofs`).  `OneWriter`, `SavingWriter`.  The type of a row's
version rests on the versions growing no faster than the rows (`NextVersionBound`), and the
key of an opener that joins on a nonempty set of keys having a largest member.
`OneWriterPerKey` is not inductive: what stops a second save is the status of the row.
`WriterInv` adds that the row of a key being saved is "saving", or is deleted and never comes
back since rows are created in the order of their keys (`WriterHasRow`, `InOrder`); and that
only reported statuses are under way (`Reported`).  `OneWriter` assumes
`ErrorStatus \subseteq {7}`, without which it is false.  `SavingWriter` needs no such
assumption: its property is inductive beside the types.

**Sharing** (`Documents_proofs`).  `OneAnswerAtEveryDoor`: that the seven queries agree follows
from the type alone, by one lemma per query that says whom it admits in terms of the live
grants.  `OneGrantToRevoke`: a grant is looked for, then inserted; while requests come one at a
time the one under way still finds what it read (`OneRequestAtATime`).

**Vault** (`Documents_proofs`).  `VaultIsReadable`.  That the object's key is in the row is not
inductive: a worker that overwrites the object must have put its key there before, and nobody
another one since.  The invariant says of each place of a worker what row and object hold, until
a row is reset under its worker (`OneWorker`); and that no reader meets a key before it is in the
row, so one that failed can succeed when it asks again.

**FileRetention** (`Documents_proofs`).  `RetentionIsKept`.  The records of expiries are counted:
a row that is due and active, or was when the clean-up listed it, has had one expiry more than it
has records (`Recorded`).  A report that meets neither clean-up nor report knows the status of
its row (`AsRead`).

**OutboundProxy** (`Documents_proofs`).  `ConnectionsEndWell` is inductive with the types.
`VerdictsAreLate`, an action property, compares two ages: in a copy that was loaded well no entry
has been off the list for longer than the copy is old (`CopyIsLate`), and only a copy within its
life decides.

**SessionLifecycle** (`Terminals_proofs`).  `TokensMatch`.  Between posting the pod and
recording its token the row has another hash.  `SlInv` says that the pod agrees, meanwhile, with
the token about to be recorded (`PodAgrees`), which is the Secret's unless a bulk end has dropped
it (`SecretIsOwn`), and that a token is issued only while no pod lives which could start with it
(`NoneLives`).  Assumed: one creation at a time and no failing call (`OneCreator`,
`SlMaxFaults = 0`), without either of which it is false.

**ExtensionRequests** (`Terminals_proofs`).  `RequestsEndWell`, with notifications that reach
nobody.  None of the four parts of `RequestsAreHandled` is inductive.  What is known of a handler
before its commit is what it read, and after it what it wrote (`StillSo`, `StillTrue`), both while
one handler acts at a time; the lines of the audit log are counted together with the handlers that
owe one (`ExCounted`).  However handlers overlap, the requests that wait are counted with those
about to be inserted, and the decisions of a request with those about to be written (`ExBounds`).

**UserBots** (`Terminals_proofs`).  `MessagesEndWell`.  A message carries a secret and goes to
the owner of the row that has it, and a secret tells who made it (`RowsAreMade`); messages are
counted with the handlers that have one under way (`AllCounted`); one who manages the bot finds
row and webhook as he left them if nobody else manages it and no call fails (`AsLeft`).

**TerminalApps** (`Terminals_proofs`).  `PortsAreTheirs`, with listeners that no scan sees and scans
that fail, needs that a port has one holder, seen or not (`OneHolds`), and, for the hub's window,
that nobody else is on his way to the port (`TabIsAlone`).  `CopyIsTheProject` needs what a copy has
seen, copied and still to copy (`CopyIsOn`), and that a version's number never comes again
(`VersionsGrow`).

**JwtAuth_proofs.**  `EntriesHold`, `TokensAreUsedOnce`, `LogoutIsFinal`, `NothingIsTakenForReplay`,
all for any number of replicas and callers. `EntriesOutliveTokens` compares an entry with the clock;
the invariant `EntriesInv` compares the moment it lapses with the moment its token expires, which no
step changes for the worse because entries are only written anew with the full lifetime (`UsedKept`,
`RevokedKept`, `NotBeyond`). It needs Redis to answer (`MaxOutages = 0`), and so do the two theorems
that rest on it. `UsedInv` adds that what a replica has found out still holds when it acts (`Fresh`:
the refresh token has not expired; the pod token was not exchanged within the life of its entry,
unless just now), and that the pod token's entry lapses late enough (`ExchangedKept`).  A replica
that looks at a token which was used, or exchanged in that hour, then finds the entry, so the only
uses still to come are those of the replicas that looked before: `UsedOnce` counts both together,
and `Timely` says of a step what `NoLateUse` does.  The theorem of the replays assumes that no
answer is lost (`MaxLosses = 0`) and nothing of Redis: while no two requests of a jar have crossed,
every token is in one jar's hands, whoever used it up has been given the next one (`UnusedInv`), and
nobody presents it again.

**Accounts** (`SignOn_proofs`).  `ApprovalsAreKept`.  A rejection deletes the row whatever it has
become since it was read; until two requests have overlapped, the only one under way sees the status
it has read (`Alone`).  `CodesAreBounded` assumes at most two handlers, the replicas of the
deployment; each further one would add guesses.  One at a time, a code's attempts are its wrong
guesses (`CountsGuesses`).  Of two, one may write back attempts it read before the other's guesses:
`GuessesLeft` says for each code, and for each choice of handlers that check a guess of it, how many
guesses are left, which is n(n+3)/2 for n attempts left and none under way.  That a used-up code has
few logins left is `LoginsLeft`; that the lockout bounds the exhausted codes, `OneLive`.

**Messaging** (`SignOn_proofs`).  `MessagesEndOnRecord`.  Rows are counted together with the
requests about to write one (`MmsCounted`, `ReachedCounted`).  A request to those an app is
shared with has, if it is the only one, room for all it still has to write to (`RoomToShare`,
`OneRequest`), and they may open the app unless the list has changed since (`RecipientsAreLive`).
`MessagesTypeCorrect` says that there are no more messages, and no more rows, than people for each
request.  What has been sent or logged is counted with what the requests under way have yet to
send or log (`MsBounds`): a step moves from the one to the other.

**SecurityPolicies** (`SignOn_proofs`).  `PoliciesAreSpread`, with pods that stay for their grace
period, are taken in it, and end on their own.  A handler about to make a pod has
read the policy its person has, or the person is excused (`PodsFollow`, `Excused`), which needs
that nobody else makes that person's pod (`OneMaker`); a row that a transaction asks for belongs to
a pod that is going, gone or being made (`SessionsTell`); people have their template's text but for
those at the level a handler has yet to pass (`TemplatesFollowed`).  The last is false where a
renamed template's text puts people at a level with another template: they are among those the
property excepts.

**AppDeployment_proofs.**  `NothingRunsUncleared`, `SiteIsInStep`.  An app is set running, or
opened, by a handler that read the row long ago, or has calls left.  `Uncleared` says of an app no
admin has cleared that neither its row nor what any handler has read of it was approved, ran or was
suspended, and that no handler has the call left that would open the Ingress.  All interleavings,
lost calls and dying replicas are allowed.  `SiteFollowsRow` speaks of the moments between
requests.  Within one, what must agree with the row is the site as the calls that are left will make
it (`After`, `SiteAgrees`), with what the next request will build on: nothing is left of a deleted
app, a suspended one keeps Deployment and Service, one that waits has the gateway's Ingress, a
recalled one keeps a Deployment without a pod whatever its row becomes (`Agree`).

**SkillGovernance_proofs.**  `QuorumHolds`, `SkillsAreCoherent`.  An approval decides on a tally
taken earlier; it is good at the commit because approvals are never taken back while the skill
exists and a deleted skill stays deleted (`TalliesHold`), and none is the author's.  The counter's
type rests on `CountsBound`: nobody has read more installations than there were requests.  While
requests come one at a time, what the one under way has read is so (`ReadsHold`), and flag,
status, approvals and counter agree (`CoherentInv`).

**Maintenance** (`Portal_proofs`).  `EndHolds`.  What a replica has read, and what
Redis keeps, may be older than the end of the mode.  A replica acts between two ticks, so what it
stores it has read since the last (`ReadingsAreFresh`); a word that says "on" has lost as much of
its life as has passed since the end (`WordsExpire`).  The theorem also says that the word
itself is gone by then, so it does not lean on the comparison that never recognises it (section 8).

**Surveys** (`Portal_proofs`).  `SurveysAreKept`.  What a handler read before it waited was the
row at some time, and a complete row had its response (`SeenHold`).  While no two handlers have
met, one is alone with its survey and no other is in progress (`SurveysAlone`), so the answer it
brings is for the question that is asked (`Fitting`).

**AuditPipeline** (`Portal_proofs`).  `FlagsComeAlong`, `MentionsAreAccounted`.  An extraction
adds mentions for messages it read before it asked the model.  For each message, its mentions and
the replicas that still hold it are together no more than the replicas (`MentionsInHand`); while
jobs have not overlapped, no held message is marked (`JobsAlone`).

**QuotaGate** (`Portal_proofs`).  `GateIsKept`.  That the overspending is what the sums were
behind is inductive with `OneAssignment`, that the gate reads the last assignment, and
`ChargedSoFar`, that days to come have cost nothing.  Of weeks it needs that the days from
`CycleStart` on are those of the calendar's week.

**Compositions.**  `DocumentsTypesCorrect`, `TerminalsTypesCorrect`, `SignOnTypesCorrect`,
`PortalTypesCorrect`.  A step of a composition is a step of one of its components and leaves the
variables of the others as they were, so that a behaviour of the composition is one of each
component (`PartsOfDocuments`, `PartsOfTerminals`, `PartsOfSignOn`, `PartsOfPortal`), and
what is proved of a component holds in the specification that the run checks.

Assumptions on constants are those of the modules: bounds are naturals; null values are no members
of their sets, nor is one kind of caller another; people, replicas, calls and administrators are
finitely many where they are counted; the app may be shared with somebody.  A theorem with a further
hypothesis says so in its statement; all others hold with faults and overlaps, the exceptions being
those the property itself names.

## 7. What is only model-checked, and what is not modelled

Only model-checked: the liveness properties (`EntriesSettle`, `SaveEnds`, `SessionServed`), which
involve fairness and ENABLED and are out of the proof system's reach.  Every other property of a
passing run is a theorem, under the hypotheses of section 6.

Not modelled inside the modelled components: metrics, usernames and log lines of the worker;
the other viewers and caching in `viewers.py`; signatures, key rotation, SSO and access
tokens; resource limits and prices of sessions; views, likes and galleries of apps; the
design of surveys; edges and categories of the graph; bytes that the proxy relays; uploads,
previews and conversions of the file server; model tiers and monthly cycles of quotas (a
monthly cycle starts like a weekly one, elsewhere).

Not modelled as components, with the reason in `PROJECT.json`: node groups of EKS, since the
cloud decides which node starts and ends, so that what the code's calls come to is not in the
code; migrations, which are idempotent statements; the Bedrock adapter, a stateless translation;
announcements and guides, edits of single rows; reports, which only read; the dashboard,
manifests, build files and offline tools.

## 8. Where the code does not do what it says

Each is a run that TLC refutes, with the line of the repository that states the property.

* `usage_worker_dlq_charged`: `_claim_stale_pending` asks XPENDING for the delivery count of an entry
  after XAUTOCLAIM.  If the first owner acknowledged it in between, the entry is not listed,
  counts as exhausted, and goes to the dead-letter stream although it was charged.
* `edit_force_save`: the final callback of a document arrives while a force-save of it is
  being written.  It is taken for a duplicate and answered with success.  An edit made after the
  force-save is in that callback only: it is then neither in the file, nor with a handler, nor in
  a callback under way, nor in the document that the Document Server keeps.
* `jwt_two_tabs`: two tabs refresh with the cookie they share.  The later request carries the
  token the earlier one has just used up; the gateway takes it for a replay and revokes the user's
  refresh tokens for 12 hours.
* `session_idle`: the idle checker collects the idle sessions first and terminates them one
  after the other, each with a backup.  A user who returns in the meantime loses the pod.
* `app_recalled`: a recall scales the Deployment to 0 and deletes the Ingress.  The app is put
  back for approval and approved, which writes "running" and brings back neither the pod nor, behind
  the gateway's check, the Ingress, though `admin.py:1346` says that both are recreated then.
* `maintenance_shown`: the middleware compares the cached word with `b"1"`, but the client of
  Redis decodes its answers and returns `"1"`.  On every hit of the cache maintenance counts as off:
  only the one request per ten seconds that reads the row gets the page.
* `quota_snapshot`: before it ends an idle terminal the clean-up takes a snapshot of all
  terminals' logs, which `snapshot_loop_enabled` was meant to stop.  It writes the total over rows of
  the day that the usage worker adds up, or beside them under the model "unknown"; the gate and the
  reports count both.

Observed while modelling, with no run of its own:

* `admin.py:1263` says that stopping an app keeps the status in the database; the code writes
  "stopped".
* `jwt_auth.py:149` promises 401 to the second exchange of a pod token.  Two requests that overlap
  at two replicas both buy with it, and its blacklist entry lapses after an hour, after which it
  buys again for as long as its session matches (`exchanges`).
* `jwt_auth.py:373`: a logout that overtakes a refresh of the same browser does not last there: the
  answer to the refresh comes later and sets the cookies again, with a token the logout has not
  closed (the ingress's check, `auth.py:656`, likewise sets an access cookie again).  If the logout is
  served first, the refresh counts as a replay and revokes all of the user's refresh tokens
  (`crossed`).
* `apps.py:1200`: the owner's resume of a recalled app is to serve it again; it writes "running"
  and brings back no pod (`RecalledStaysDown`).  `admin.py` stops, starts and recalls an app whatever
  its status and approval (`appLog.stray`).
* `scheduling.py:378`, `393`, `420`: an administrator without an account at the bot is skipped, a
  refused message counts as sent, and nothing of it is kept: nobody learns that a request
  waits (`exLog.unheard`).
* `fileserver.py:530`, `562`: only IPv4 sockets are looked at.  An application that listens at '::', as
  the server of `webapp.md:149` does, is not listed, cannot be stopped, and its port is given to
  another, which then fails to bind while the hub's window shows the first.  A scan that raises
  (`fileserver.py:599`) makes all ports look free.
* `k8s_service.py:394`, `799`: a terminal asked for within the grace period of the one before is
  given the pod that is going; its row is active, and there is no pod until the next creation or list
  looks.  The deadline of `k8s_service.py:533` leaves a row in the same way.
* `mms.py:176`: the daily limit is exceeded by as many messages as requests overlap, at one replica
  as well.
* `sms.py:120` says that an SMS is limited to ten a day; the endpoint counts none (`mms.py` and
  `portal.py` do).
* `domain_whitelist.py`, `proxy_server.py`: a client that goes before its answer leaves the remote
  end open until it times out (the exception in `EndsTogether`).
* `secure_files.py`, `drm_backfill.py`: a row that is reset to be encrypted again while its
  worker goes on leaves two keys on their way, and the object may keep the one the row has lost.
* `fileserver.py`: an application told to stop before it listens starts all the same; a restart
  races the process it has ended for the port; deleting a renamed project leaves its application
  running; renaming over an existing entry hides a project; a crash while the registry is written
  tears it; the copy for a deployment is written in place while an approved app may be mounting it.
* `admin.py:870`: a drain is said to be blocked by pods of protected namespaces; the code exempts them.
  `sessions.py:139` takes a node back without restoring the group's desired size.

## 9. Plan

Done: every component whose correctness depends on the order of events has its module and its
runs, and every safety property that a run checks is a theorem.  Next:

1. `CodesHold` for any number of handlers, with the guesses that each further one adds.
2. `SiteFollowsRow` when a call fails: which sites a row may have then, and which request mends it.
3. Steps of the liveness properties that are safety properties, such as that what an entry has
   still to go through never grows but by a restart.
