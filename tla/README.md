# Iznik in TLA+

A verification project for Iznik, the software behind Freegle: what its
concurrent, failure-prone parts promise, modelled in TLA+ from the code, model
checked with TLC and, where it matters most, proved with TLAPS. Paths are
relative to the repository (`src/` in `PROJECT.json`).

1. Inventory · 2. Plan · 3. Modules and the code · 4. Runs · 5. Fairness ·
6. Proofs · 7. What the models leave out · 8. What was found

## 1. Inventory: the system and its parts

Iznik is a monorepo. `docs/developers/architecture.md` and the root `README.md`
describe it; what follows is the view this project takes of it.

| part | state it keeps | operations | hard behaviour | correct when |
|---|---|---|---|---|
| **Mail spool** (`iznik-batch` `EmailSpoolerService`, `mail:spool:process`) | one JSON file per mail in `pending/ sending/w<id>/ failed/ sent/`, markers in `ledger/` | spool, claim, send, file, retry, reclaim own, sweep siblings, clean up | four daemons on the same directories; a kill between any two system calls; files that look abandoned | no mail is lost; none goes out twice unless the outcome was unknowable; every mail is in the end sent or set aside |
| **Background tasks** (Go `queue/`, `queue:background-tasks`) | `background_tasks` rows: attempts, processed_at, failed_at | enqueue, run, retry, give up | at-least-once, a crash on the last attempt, held rows at the head of the table | done means carried out; at most MAX_ATTEMPTS runs; every row ends |
| **Partner post feed** (the `freebie_alerts_*` tasks and their handlers; the API and batch handlers that queue them) | the post, open tasks, retry rows that fall due later, what each partner lists | approve, reject, outcome, withdraw, delete, repost; send, retry, give up | a retried remove overtaking a fresh add, a lost answer, one partner of several failing | once nothing is open, a partner lists the post exactly when it is live |
| **Lockdown switch** (Go `lockdown/`, PHP `LockdownService`, `lockdown:*` commands) | append-only `lockdowns` rows, a 5-second cache per process, counts, acks | press, change surfaces, lift, close, gate, tick | two languages appending to one chain; gates reading stale state | no append undoes another; a gate opens at most a cache life late |
| **Lockdown spool filter** (`LockdownFilterSpoolService`, `lockdown:off`) | the spool, `lockdown-removed/` | filter, lift email | a directory listing that misses a file in flight | no filtered mail goes out after the lift |
| **Lockdown holds** (`LockdownHoldsService`, `ContentCheckService`, `ChatProcessService`) | `lockdown_holds` rows, pending posts, held chat and ChitChat posts | hold, release, drop, close | release racing a second press and a moderator | every hold is released or rejected once |
| **Post moderation** (Go `message/`, `microvolunteering/`, `ContentCheckService`, `AutoApproveService`, `ExpandService`) | copies of a post per community: collection, heldby, needs_moderator, deleted; its reach | approve, reject, two deletes, spam, hold, release, back to pending, report; check, auto-approve, ripple | two moderators and three scheduled commands on the same copies, each writing from what it read; no transaction over a request | who holds or was sent a copy decides it; nothing goes live in a lockdown on its own; every post is decided; none is left without copies |
| **Chat** (Go `chat/`, `ChatProcessService`, notification) | messages with processing and review flags, per-member cursors | send, process, review, notify | processing racing review; a crash between a mail and its cursor | a message is seen once it is cleared, and mailed at least once |
| **Worker pool** (`WorkerPool/BoundedPool`) | a Redis list of permits | initialise, acquire, release, reset | permits lost or minted by crashes, Redis outages and concurrent initialisation | at most the maximum at work while Redis answers |
| **Database access** (Go `database/`) | connections, failover state | statement retry, request retry, failover | a retried statement that had been committed | a retry changes nothing twice |
| **Member reply flow** (`iznik-nuxt3` `useReplyStateMachine`, `useReplyToPost`, `stores/reply`, `LayoutCommon`) | the composer's state, one persisted reply and draft shared by every composer | type, send, register, log in, join, open the chat, retry, resume, time out | every step is an await; a login, a timer, a closed pane or a page load in the middle; the layout sends a stored reply of its own accord | a reply goes to the right poster, only when asked for, once unless that was unknowable, and is kept until it has gone |
| **Monitor bug reports** (`monitor-fsm`) | `discourse_bug`, `pr`, `discourse_draft` rows; the lap's context in memory | sync, scan, reply, chase, triage, hold, dispatch, open a pull request | people merge, close and click while an action awaits GitHub or the forum; triage is persisted twice a lap; six paths reply | one reply per report; what is settled stays so; an answered report is not closed; the monitor stops trying in the end |
| **Rest of the member site and apps** (`iznik-nuxt3`) | Pinia stores | compose, chat polling, auth refresh | late answers, two tabs | a post is made once; a session ends when it ends |
| **Ripple, digests, auto-repost, chase-up** (`iznik-batch`) | message reach, digest cursors | scheduled jobs | overlapping scheduled runs, resuming after a crash | a member is told once |
| **Incoming mail, bounces, suppression** (`iznik-batch`) | bounce counts, deferral cache | route, record, suppress | duplicates, stale caches | a good address is not suppressed for ever |
| **Routing, spatial, status, backup, tools** | local | services beside the core | mostly computation and I/O | |

How they interact: the Go API writes MySQL rows and inserts `background_tasks`;
the PHP batch side polls those tables, builds mails and spools them; spool
daemons hand them to the smarthost. The lockdown switch is one table both sides
read through a short cache. On the server nothing is called back: every
interaction is a row, a file or a Redis key that somebody else polls, so what
goes wrong is what two pollers do to the same row, and what a crash leaves
behind. In the browser and in the monitor it is the opposite: one thread, and
what goes wrong is what happened during an await. `PROJECT.json`
lists every part under `components`, and the places where the code is exposed
under `hazards`.

## 2. Plan

Ordered so that what members notice most comes first: mail, then the bridge
from the API to the batch tier that everything else goes through, then the
member's own reply, then the bot that answers bug reports.

| # | module | of | abstract specification | composes | state |
|---|---|---|---|---|---|
| 1 | `EmailSpool` | mail spool | `MailDelivery` | | done, seven theorems |
| 2 | `BackgroundTasks` | task queue | `TaskBridge` | | done, three theorems |
| 3 | `PostFeed` | partner feed | | the loop of 2, reduced | done, three theorems |
| 4 | `ReplyFlow` | the site's reply state machine, its store, the layout | | composers, layout, server | done, six theorems |
| 5 | `BugReports` | the monitor's reports, pull requests and replies | | LOAD_STATE, triage, router, fix tasks, dashboard | done, six theorems |
| 6 | `PendingPosts` | moderation, content check, auto-approval, lockdown holds of a post | | moderators, three commands, switch, rippling | done, five theorems |
| 7 | `LockdownSwitch` | both writers, acks, counts | one atomic switch | under 6 | planned |
| 8 | `LockdownFilter` | the filter of waiting mail, holds of chat and ChitChat | | 1 and 7 | planned |
| 9 | `ChatFlow` | send, process, review, notify | at-least-once delivery | spools into 1 | planned |
| 10 | `BoundedPool` | worker pool | a counting semaphore | | planned |
| 11 | `Session`, `Compose` | `stores/auth.js`, `stores/compose.js` | | before 4 | planned |
| 12 | `DatabaseRetry` | statement and request retries | exactly-once statements | | planned |

Every safety invariant and action property that a passing run checks is now a
theorem as well. Still to prove: what `DuplicatesAccountedFor` and its fellows
promise when a stalled send or an overlapping sweep is among the faults (what
fails then is known, section 8, but not what still holds).

## 3. Modules and the code

`PROJECT.json` maps every definition to the lines it stands for.

### EmailSpool (with MailDelivery, MCEmailSpool)

A mail is a file whose name never changes, so the state of the spool is, for
each directory, which mails have a file there and whether it decodes (`"good"`,
`"torn"`). `sending[w]` is the private claim area `sending/w<id>`, `ledger` the
marker files, `stale` the claims not touched for `SIBLING_RECLAIM_AFTER_SECONDS`.
A daemon is a program counter `pc`, the file it has in hand `job` and the rest
of its listing `batch`. There is one action per system call: `StartBatch` (glob
and cut to the limit), `NextFile` (rename), `Touch`, `Decode` (with the hold
under lockdown), the four outcomes of SMTP, `WriteLedger`, `File`, `Unlink`,
`Unmark`, `LogSend`, and `Rewrite`/`Move` of the catch block. Starting up runs
`OwnTake`/`SweepTake`, then `Recover` and `PutBack` or the filing steps. Two
ghosts record what the code cannot know: `accepted`, how often SMTP took a
mail, and `lostTrack`, how often the spool lost, or never had, the knowledge
that it did (a kill between the acceptance and the touch of the marker, a
failed touch, a lost reply, an exception after filing).

`MailDelivery` is what callers are promised: a mail is owed until it is
delivered or set aside, and is not owed for ever. `KeepsPromise` is the first
half, its safety, and `ImplementsDelivery` all of it. The proofs are in two
modules: `EmailSpool_proofs` (types, what the records say) and
`EmailSpoolCustody_proofs` (who has which file).

### BackgroundTasks (with TaskBridge, MCBackgroundTasks)

The columns of `background_tasks` are functions and sets over `Tasks`; a task
is its `created_at`, so `ORDER BY created_at LIMIT` is the order of numbers. A
runner is one launch of `queue:background-tasks`: it takes the file lock, reads
a batch together with the attempts as they were (`seen`), and for each row
counts the attempt, dispatches, and closes it or goes through the catch block.
A handler works, throws, or works and then throws; `Faulty` ones always throw.
`ran` is a ghost that counts how often a row's work was carried out.

`TaskBridge` is the promise: done means carried out, never more than
`MAX_ATTEMPTS` times, and nothing runs again once closed.

### PostFeed (with MCPostFeed)

One Offer, and what every partner lists of it. `Change` holds, for each handler
of the API and the batch tier, the states it works from, where it takes the
post and the task it queues; `Move` makes the change and `Enqueue` inserts the
row afterwards, because the code has no transaction over both. The run of the
command is `BackgroundTasks`' reduced to one runner and to the order rows are
taken in. `Take` counts the attempt and looks at the post once (`Targets`);
`Send` is one HTTP call to one partner; a failure inserts a row for that
partner alone which waits, then falls due behind the rows due before it
(`FallDue`). What the partners list (`has`) is external.

### ReplyFlow (with MCReplyFlow)

One browser tab. `store` is the reply store the browser persists: the committed
reply `msg` and whether it is under a day old, the machine's state and new-user
flag as saved with it, and the unsent draft. `pane` holds the composers: the
post each is open on, its machine's state, whether a draft waits for its timer
(`dirty`), whether an error is shown. `call` holds what JavaScript keeps in
promises: one `submit()` with every handler it goes on to, or one send by the
layout, at the await it is in; a call outlives its composer, and nothing but a
page load stops it. `rows` is the server: for each reply, the posters it was
written to, in order, one entry for each chat message.

One action per stretch between awaits. `OpenPane` is `initialize()` with its
resume of a committed reply or a draft; `Type`, `PersistDraft`, `Close`,
`Retry`, `CloseWelcome` the user and the draft timer; `TimesOut` the
thirty-second fallback. `Submit`, `Validated`, `CheckEmail`, `Register`,
`FetchMe`, `JoinGroup`, `CreateChat`, `OpenChat`, `Answer` are `submit()` down
to the chat store and back; `Finish` is what follows `openChat()`, which clears
the store. `Login` and `WakePane` are the form and the watcher on `me`,
`Remount` and `Reload` the layout's `onMounted()`, which sends a stored reply
without being asked. `Fails` is the catch block of every handler. `known` is the
posts the page has fetched: `messageStore.fetch()` never fails (`Fetches`, the
fault `fetch`), so the layout may get to `replyToPost()` without knowing the
poster; `openChat()` then returns without a word and the reply is cleared
(`CreateChat`, its second disjunct).

`clicks` counts the presses of Send that committed a reply, `excused` how often
the code could not know that a reply had gone or was going: a lost answer, a
failed refresh after a send, a page left before the answer, a second call
started on top of one still running, a call about another post on its way when
the reply was committed. `overtaken` holds the pairs of posts of which the
second's reply was committed while the first's was being sent.

### BugReports (with MCBugReports)

The reports are the posts of one forum topic, numbered in their order. `bug` is
`discourse_bug` with the reminder kept beside it: state, pull request, rejected
pull requests, why it was deferred, how often it came back, how long it has been
quiet (`age`), and the reminder (`chased`, `since`: something seen after it).
`pull` is GitHub's view of a pull request beside the `pr` table's (`known`,
`deploy`); `row` is `discourse_draft`; `class` is what triage made of each post;
`lap` and `done` are the lap's context, forgotten at its end or by a crash.
`job` is what the monitor is in the middle of: the loop it is in (`at`), what
that loop still has to do as it read it when it began (`todo`, `of`, `kept`),
and the call to the forum that is awaited (`send`).

*People and time*: `GitHub`, `Week`, `Dashboard`, `DashboardDraft`, `Status`
(every render runs `reconcileBugStates`). *The forum*: `Post` begins a reply,
`Store` is its arrival, `Answer` what the call returns; every loop that replies
has an `Answered…` action that records it after the await. *LOAD_STATE*:
`SyncPr`/`SyncClosed`, `StartScan`/`EndScan`, `StartDeployed`/`Deployed`/
`EndDeployed`, `StartFlush`/`Flush`, `StartChase`/`Chase`/`EndChase`,
`StartDirect`/`Direct`, in any order, since a lap does them all and another lap
follows. *The lap*: `Fetch` moves the cursor, `StartRouter` begins
`persist_classifications` (at COLLATE and again at every entry to the router),
`Triage` takes one post through its early exits (`Verdict`, `Filed`),
`AnswerQuestion`, `Decide` and `Dispatch` are `work_router_decide` with the
re-check of the backlog, then the ways a fix task ends.

`said` counts replies under a post, `excused` those the monitor could not know
of or a person sent, `tries` the pull requests accepted, `touched` the reports
changed on the dashboard, `replied` those answered since their reminder, `owed`
those whose own last look in the deployed pass found the fix live. A row's
`own` says that what was posted is the draft that was queued: `sendDraft` asks
only whether another draft has gone out (`hasPostedDraft` leaves out the
draft's own id), so it sends again one that the dashboard has sent since the
flush listed it.

### PendingPosts (with MCPendingPosts)

One post. `copy` is its row in `messages_groups` for each community: the
collection, `deleted`, `heldby`, `needs_moderator`, and of the times only what
the code compares them for: `checked` (checked at all), `recent` (arrived since
the incident began), `due` (older than the auto-approval's delay). `gone` is
`messages.deleted`, `reach` whether the reach is frozen or blocked, `switch`
the newest row of `lockdowns` for the posts surface, `hold` the outcome of the
post's row in `lockdown_holds`, `quiet` no log in 48 hours. `post` fixes what
the model does not compute: what the check makes of the text on each community
(`verdict`), where the auto-approval leaves a post to its moderators (`stay`),
how a copy lands where it ripples to (`lands`).

*Moderators.* `Begin` is all that a request reads before its first write: the
communities it may act on, the test of who holds them (`HoldAllows`), the
copies it picks (`Target`). Each write is then an action: `Approve` with its
own test of the hold and `Approved` (reach, release); `Reject`; `Remove`, the
three ways a copy is taken away, and `Count`, which deletes the post with its
last copy; `Hold`; `Release`; and the four steps of a send-back, `BackHold`,
`BackWithdraw`, `BackFlip`, `BackMark`. `Reported` is a members' quorum.

*Commands.* `job` is where each is: the rows it read (`rows`, with `kept`:
whether the copy was held or sent back when it was read), the one in hand
(`does`), the gate as last read. `Gates` is the five-second cache: a command
may see what it saw last or what is so. `LaunchTick`, `LaunchCheck` and
`LaunchAuto` are the launches down to the first row; `Claim`, `Admit`,
`Admitted` the release of a held post, shared by two of them; `Take`, `Judge`,
`StampLive` the content check; `AutoGate`, `AutoTake`, `AutoApprove`, `AutoEnd`
the auto-approval. `Fails` is the catch block around one row, `Killed` the end
of a process anywhere.

`Press` is any change of the switch, `Ripple` one community reached, `Age` two
days in which nothing is under way. `admitted` counts the claims of the hold,
`since` the commands in whose whole run posts has been held, `orphaned` a
send-back by the home community that took the last copy.

## 4. Runs

| run | instance | shows |
|---|---|---|
| `spool_any` | 1 mail, 2 workers, every fault, 2 of them | `RecordsAreTrue`: a marker or sent record means SMTP took the mail, even with stalls, torn files and sweep races |
| `spool_safe` | 2 mails in two bands, one allowlisted and without recipient, 2 workers, one of which never returns once dead, batch 2, 2 faults (no tear, stall or sweep race) | `TypeOK`, `DuplicatesAccountedFor`, `NothingLost`, `LiveClaimsKept`, `PendingAlwaysValid`, `KeepsPromise`, `Drains`, and `ImplementsDelivery` (refinement with its liveness) |
| `bridge_safe` | 2 runners, 2 tasks (an email, one of them faulty), batch 1, 2 batches a run, 2 faults | `TypeOK`, `RunsBounded`, `ImplementsBridge`, `EveryTaskEnds` |
| `feed_safe` | 2 partners, 2 attempts, 6 changes, 2 faults of any kind | `TypeOK`, `GoneFromFeed`, `LiveOnFeed`, `FeedConverges` |
| `feed_left` | expiry, back to pending, back to draft of a live post | violates `GoneFromFeed` |
| `reply_safe` | 1 composer, 1 post, 2 calls, 2 faults of any kind, 1 page load or remount, 2 presses of Send | `TypeOK`, `NeverUnasked`, `RepliesAccountedFor`, `AcknowledgedWasSent`, `CommittedKept` |
| `reply_two` | 2 composers, 2 posts, one by a poster who banned the user, 2 calls, 1 expired session, 1 press per post: the second reply is committed while the first is on its way | `RightPoster`, `RepliesAccountedFor`, `AcknowledgedWasSent`, `CommittedKept` |
| `reply_twice` | 1 post, no fault, 1 page load | violates `SentOncePerClick` |
| `reports_one` | 1 report filed in every way triage knows, 2 pull requests, a fix on master, 1 fault of 4 kinds, 1 click, 2 weeks, threshold 1 | `TypeOK`, `NoEndlessRetry`, `OneReplyPerPost` |
| `reports_topic` | 2 posts by one person, 1 pull request, a fix on master, 2 weeks, 1 reply that the forum refuses, threshold 1 | `OneReplyPerPost`, `ToldOrDue`, `SettledStaysSettled`, `AnsweredNotClosed` |
| `reports_again` | 2 posts by one person, every class, no fault | violates `FollowUpIsNoReport` |
| `posts_safe` | 1 post, clean or blocked, its home community and one it ripples into, a moderator of the one and one of both, 8 requests, all commands, switch open or posts held, 2 requests, reports, presses or faults | `TypeOK`, `AdmittedOnce`, `NoOrphan`, `ModeratorDecides`, `NothingWhileHeld`, `EveryPostDecided` |

Why the bounds are enough. Two workers, runners or partners are what every
interleaving in this code is about: one loses a file, a lock or an answer and
another acts. Two mails are needed for order, bands and the rest of a batch;
more would only repeat them. `MaxFaults` = 2 lets a second fault hit the
recovery from the first (a crash of a crash recovery, a lost answer of a
retry, a failed statement around either).
`MaxMoves` = 6 is approve, outcome, draft, repost, approve, outcome: a whole
life of a post and a second one. `MaxTasks` = 9 is above what 6 moves and 2
faults can insert, so it never stops `Enqueue` in `feed_safe`.

In `ReplyFlow` two calls are a send and whatever overtakes it, and two posts
are what the one store can confuse. The site shows one composer at a time, and
so does the model; a second instance is what a user opens after closing one
whose call runs on. What two posts can do to each other is therefore the
business of `reply_two`, in which the first composer's call is past its commit,
or waits for a login, when the second commits, and one of the posters is out of
reach behind a ban. What one reply can go through with two faults, a page load
and a second press of Send for the same post is that of `reply_safe`. Both at
once are out of TLC's reach in five minutes, and the theorems of section 6
cover them; two posts with one composer, a ban, one fault of any kind and a
page load (`reply_safe` with `Posts = {a, b}`, `Banned = {b}`, `MaxFaults = 1`
and `MaxClicks = 1`) has 3.7 million states and passes too. Calls and composers are symmetric, posts
are not (one is by a banned poster), and no run has liveness.

`BugReports` is split in two instances because its questions are: what one
report can go through with every fault, button and pull request
(`reports_one`), and what two reports of one person do to each other over laps
and weeks, also when they share a pull request and one of the two replies is
refused (`reports_topic`, where nothing else fails and nobody clicks). Both at
once are out of reach. Two weeks are the reminder and the close. A threshold of
one lets a report be escalated after the first rejection and tried again if it
could be. `MAX_UNREACHABLE_REOPENS` is 1 and 0: the counter at its limit.

In `PendingPosts` two communities are a home and one that received the post,
which is every distinction the code makes; two moderators are one who holds
and one who does not. Two events (`MaxEvents`) are two requests that overlap, a request
under a press, a kill after a press. Commands, rippling and time are not
events and never stop. A third event multiplies the states by ten and leaves
TLC's liveness check out of reach. A send-back from the receiving community is
not among the requests of the run: the theorems cover it.

Model values are not declared symmetric where a temporal property is checked
under fairness. Deadlock is not checked: a spool with every mail sent, a queue
with nothing due, a deleted or decided post, a reply that has gone and a topic whose
reports are settled may all stop. Where bounds on moves, tasks, clicks, weeks
or loads cut behaviours short (`feed_left` and all of `ReplyFlow`
and `BugReports`), only safety is checked, for which that is sound.

## 5. Fairness

- **EmailSpool**: supervisor restarts a daemon that ends (`autorestart`), so a
  worker that is not in `Gone` always takes its next step; the housekeeper gets
  to its hourly sweep again and again; an untouched file grows old. SMTP tried
  for ever in the end takes a mail (strong fairness of `SendAccepted`, the one
  assumption about another system; without it mail may bounce between
  `pending/` and `sending/` for ever, as the code intends). A lockdown is in the
  end lifted, which a person does: while it lasts, mail is meant to
  wait. Nothing makes crashes or faults happen, and nothing limits them but the
  budget.
- **BackgroundTasks**: the scheduler launches the command every minute
  (`routes/console.php`), a run takes its next step, the clock moves, and (for
  `EveryTaskEnds` alone) a lockdown is in the end lifted.
- **PostFeed**: a handler that has changed a post goes on to queue its task, a
  retry's time comes, and the command is launched every minute. Nothing makes
  the post change or a partner answer well; faults are bounded, as the day
  after which the code gives up is.
- **PendingPosts**: a request that has begun is carried out (the API runs a
  handler to its end; a crash of the API in the middle is not modelled);
  `messages:contentcheck` and `lockdown:tick` are scheduled every minute,
  `messages:auto-approve` every hour (`routes/console.php:159`, `:2139`,
  `:382`), so a command in the end takes its next step or is launched again
  after a kill (weak fairness of `Run`). Time is strong fairness of `Age`: two
  days pass again and again in which no request and no run is under way.
  Nothing makes a moderator act, a post ripple or a lockdown end, which is why
  `EveryPostDecided` is about a switch that in the end no longer holds posts,
  and about copies no moderator has reserved.
- **ReplyFlow** and **BugReports** state no fairness and no liveness. A reply
  that could not be sent waits for the user or the next page load, which
  nothing compels; a report waits for reviewers, reporters and laps that may
  defer it again. What can be said instead is that nothing is dropped while it
  waits: `CommittedKept`, `ToldOrDue`.

## 6. Proofs

All for any sets of mails, workers, tasks, runners, partners, posts, composers,
calls, reports or pull requests, any bands, limits, classes and fault budgets;
the assumptions are the named `ASSUME`s of the modules, which TLC evaluates in
every run.

- `EmailSpool_proofs!Typing` (`TypeOK`). The part that is not a matter of types
  is that a daemon has a file in hand exactly in the steps that work on one,
  and files left only inside a batch; every later argument needs it.
- `EmailSpool_proofs!RecordsTrue` (`RecordsAreTrue`). `RecordsAreTrue` is not
  inductive: the steps that write a marker or a record do so because of where
  the daemon is, not because of the files. The invariant adds that a daemon
  past the acceptance (`ledger`, `file`, `unlink`, `unmark`) has in hand a mail
  that SMTP took, which `Recover` establishes from the marker and
  `SendAccepted` from SMTP. It holds under every fault of the model, sweep
  races included.
- `EmailSpoolCustody_proofs!NoDuplicates` (`DuplicatesAccountedFor`) and
  `ClaimsKept` (`LiveClaimsKept`), when no live send stalls past the reclaim age
  and no sweep runs over a backlog or its owner's next claim (`Undisturbed`: the
  faults for which the age of a file says nothing about its owner; section 8
  shows what they break). The argument is custody, mail by mail: its
  file is in one directory (`OnePlace`: every move is a rename); who sends it
  works in his own area, alone, on a claim that is not stale (`Owned`); who
  recovers it has a file nobody sends any more, and re-queues, files or unlinks
  it according to the marker he saw (`Reclaimed`); a marker stands only while
  its mail is being filed or waits in a claim area (`Marked`). On top of these,
  the accounts (`Counted`): wherever a mail may still be sent from, SMTP has taken
  it no more often than the spool lost track. Each action is first reduced to
  one of a few moves (`Takes`, `SenderGoesOn`, `RecovererGoesOn`, `HandsBack`,
  `LetsGo`), and custody is shown to survive each move once.
- `EmailSpoolCustody_proofs!PendingIsWhole` (`PendingAlwaysValid`), `NoneLost`
  (`NothingLost`) and `Promise` (`KeepsPromise`), when besides no rewrite is torn.
  A file is whole outside the hands of one who rewrites it; hence a mail that
  SMTP has not taken always has an intact copy, and each step of the
  spool is one step of `MailDelivery` or a stutter. The last is the safety half
  of the refinement; its fairness half stays with TLC.
- `BackgroundTasks_proofs!Typing` (`TypeOK`), with mutual exclusion by the file
  lock.
- `BackgroundTasks_proofs!Bounded` (`RunsBounded`). The invariant,
  `AttemptsPaid`, bounds runs by attempts and attempts by `MAX_ATTEMPTS`: a row
  about to be dispatched has an attempt that no run has used yet, and a row
  about to be attempted has one left. The second half needs `BatchOpen`: rows of
  a batch keep the attempts the `SELECT` saw, because the lock keeps every other
  run away.
- `BackgroundTasks_proofs!Bridges` (`ImplementsBridge`). Initial states map to
  initial states and each step to one step of `TaskBridge` or a stutter. It
  needs from `BatchOpen` that the row in hand is open, and from `AttemptsPaid`
  that before `Close` it has been carried out.
- `PostFeed_proofs!Typing` (`TypeOK`): ids are unique and the row in hand is
  the open row of the table.
- `PostFeed_proofs!Gone` (`GoneFromFeed`), for every set of changes with
  `TellsOnLeaving`: a change from live to anything else queues a remove. The
  invariant, `Owing`, is that whenever a partner lists a post that is not live,
  or is about to be sent one, a remove for it is still to be queued, or is open
  and not yet sent to that partner, or the partner has been forsaken. It
  survives an add sent from a look at the post that is out of date, because the
  change that made it so has queued a remove since and the run works on one row
  at a time; and a retried remove that is skipped, because the post is live at
  that moment and its next departure queues another. `feed_left` shows that the
  hypothesis is needed and that the code does not always meet it.
- `PostFeed_proofs!Arrived` (`LiveOnFeed`), for every set of changes with
  `TellsOnEntering`: a change to live queues an add. (The changes of `feed_safe`
  do; auto-approval and an extended deadline do not, section 8.) Here order
  matters: an old remove is sent without a look at the post. The invariant,
  `Arriving`, is that a live post is listed by each partner or has an add on its
  way there, and that behind every remove still to be sent unchecked comes an
  add with a later id (`Followed`). It needs `InTurn`: the run takes
  rows by their ids, so the add of a later row cannot go out before the remove,
  unless a failed statement left that row behind, which is `overtaken`.
- `ReplyFlow_proofs!Typing` (`TypeOK`). Among the types stand facts the code
  relies on without saying so: a call past the join has a reply to send, a call
  with a composer has that composer's post.
- `ReplyFlow_proofs!NothingUnasked` (`NeverUnasked`). What is sent comes from
  the store at the moment of the send, so the invariant follows the reply
  backwards: the committed reply in the store, and the one a call has in hand,
  were committed by a press of Send. Every writer of the store has to keep it:
  the draft timer and the flush on closing write beside the committed reply and
  never over it, and resuming a draft does not commit it.
- `ReplyFlowSends_proofs!Posters` (`RightPoster`), `Acknowledged`
  (`AcknowledgedWasSent`), `Kept` (`CommittedKept`) and `AccountedFor`
  (`RepliesAccountedFor`), with no assumption about what the user does meanwhile:
  several composers may have calls on their way. Every action is first reduced to
  what it does to composers, calls, store and server (`Submits`, `Commits`,
  `Quietly`, `Delivers`, `Drops`, `Finishes`, `Wakes`, `Reloads`, ...).
  `SendInv` says what may stand in the store beside a call past its commit, a
  composer that waits for a login and one that shows the welcome: its own reply,
  none, or one that has overtaken it (`Fits`); and the same of the reply a call
  has taken from the store. So a reply goes to its own poster or to one it has
  overtaken, and the pairs are exactly those `Overtakes` notes at a commit.
  `AckInv` follows the word of the composer back to an answer: a call that has
  one, and a welcome the store remembers, stand for a row, a ban or such a pair.
  `Kept` then goes through the four places that let go of a reply without taking
  another (`LetGo`); one of them is the layout that does not know whom to send
  to. `Paid` is the account behind the count: every row, every call that may
  still send, the composer that a login would wake and the reply a page load
  would send has a press of Send or an excuse of its own.
- `BugReports_proofs!Typing` (`TypeOK`).
- `BugReports_proofs!OneReply` (`OneReplyPerPost`). The invariant, `Accounted`,
  bounds the replies under a report by those the record or the call in hand
  accounts for plus the excused ones. Each path that replies looks at the
  record, but as it was before its await: the step from the look to the reply is
  safe because a monitor has only one call in hand, and the dashboard's, which
  does not look, is excused as a person's.
- `BugReports_proofs!NotClosed` (`AnsweredNotClosed`). The invariant,
  `AnswerNoted`: a report whose reporter has answered has no reminder running
  (`chased` is `"no"` or `"cannot"`), so the close cannot find it late.
- `BugReports_proofs!Tells` (`ToldOrDue`). The mark that takes a report off the
  list is set by its siblings too, so the argument is about the whole pass. The
  invariant, `Telling`: a report that is owed has landed (`Landed`: it is queued
  or fixed, its pull request has merged, and no lap, router or fix task is about
  it, so nothing can take the pull request from it, `LandedStays`), was listed
  with the pull request it has, and is told, or in this pass's list, in its hands
  or among its failures, or, when no pass runs, due. `Merging` adds that what is
  known to have merged has merged, and that no fix task is opening it; only the
  pass marks a pull request deployed (`PullSteps`), and at its end it takes back
  the mark of every pull request it failed to tell somebody about.
- `BugReports_proofs!StaysSettled` (`SettledStaysSettled`). The monitor acts on
  lists it made before an await, so the invariant, `Listed`, says what is true of
  a listed report when its turn comes, unless a person changed it: one listed for
  a closed pull request still has it and is not settled (`Dropping`; the render
  that would settle it asks for a merge), one the router judges again is open
  (`Judged`), triage has only posts of its lap (`OwnLap`), a feature request is
  filed as one and never in a fix task's hands (`Features`: triage files it
  whatever the state it has reached), and a post not yet fetched is nowhere
  (`Unread`). `Flow` is the lemma they share: how each action hands on
  the lists and the report in hand.
- `BugReports_proofs!Escalates` (`NoEndlessRetry`), for a threshold above zero
  (the code's is 2, `actions/index.ts:4493`; the lap's own reports are offered
  whatever their count, so zero would fail). The invariant, `Tally`: of the
  pull requests accepted for a report all but the one it has were rejected and
  counted, unless it is parked for good; a report of the lap has none, or its fix
  task has ended; and a report in a batch has fewer than the threshold. `Moves`
  is the lemma behind it: apart from `SyncClosed`, which counts, no step takes a
  pull request away from a report, and only what triage or a batch has in hand
  is taken up.
- `PendingPosts_proofs!Typing` (`TypeOK`). Two parts are not types: a command
  has a row in hand only while it judges, and a copy that is not on a community
  is not marked deleted, which `BackWithdraw` keeps by withdrawing only what is
  there.
- `PendingPosts_proofs!AdmitOnce` (`AdmittedOnce`): a claim finds the hold open,
  no step opens one that has had an outcome, and until the claim the count is
  zero.
- `PendingPosts_proofs!NoOrphans` (`NoOrphan`). Copies go only by a request that
  counts afterwards, or by a home send-back, which the ghost records; a request
  between its write and its count keeps the implication true, and what the
  counting request finds is what there is.
- `PendingPosts_proofs!HeldStaysOffBoard` (`NothingWhileHeld`). The invariant is
  that a command in `since` runs while posts is held, has read the gate so and
  is not releasing; then every row it judges is stamped or blocked, never
  approved, and its cache cannot say otherwise because both values it may see
  are the same.
- `PendingPosts_proofs!ModeratorsDecide` (`ModeratorDecides`): action by action,
  what makes a reserved copy live is `Approve`, whose write asks for the hold,
  or a command's write from a row that was not reserved when it was read. Needed
  besides is that a row read as reserved is never approved by `Decision`, and
  that the auto-approval reads no such row.

Only model-checked: all liveness (`Drains`, `EveryTaskEnds`, `FeedConverges`,
`EveryPostDecided`, and the fairness half of `ImplementsDelivery`), which the
prover cannot treat.

## 7. What the models leave out

- Mail content, addresses, headers, bounce records, alerts and counters.
  `spool()` appears only as the atomic write of the file: a suppressed
  recipient or a permanent address error is a mail that was never spooled.
- The lockdown switch is a Boolean that changes at once. The code reads it
  through a five-second cache; that belongs to `LockdownSwitch`. The
  acknowledgement marks the loops write (`LockdownService::ack`) are left out.
- Claims age only when nobody works on them, unless the fault `stall` is in
  the instance; a send is bounded by the socket timeout (60 s against 1800 s).
- A restarted owner does not claim a file in the microseconds between a
  sibling's `filemtime()` and `rename()`, unless `sweepRace` is in the instance.
- Two rows with the same `created_at` (it counts in seconds) are taken in the
  order they were inserted. The code sorts by `created_at` only; the index it
  reads, `idx_pending`, orders ties by primary key.
- In `PostFeed`, handlers of one post do not overlap between their change and
  their insert (`owed` is one task); a partner applies a request before its
  answer, not later; what is sent (payload, images) and the doubling of the
  delay are left out; a post with several copies is live when one is. The
  plain delete of a pending post and the spam and report removals end like
  `Delete`, and the content check's approval like `Approve`.
- In `ReplyFlow`: the wording of errors, the welcome modal's content, which
  community is joined, analytics, and the server's own duplicate detection
  within a chat, which is not in this code. Two tabs share the persisted store
  and are not modelled. A post once fetched stays fetched until the page is left:
  that a later refresh finds it deleted (a 404 takes it out of the message store
  for every composer) between a composer's own fetch and its send is left out.
- In `BugReports`: rules that look across topics are a choice of triage (`like`
  may be `"elsewhere"`); a scan finds something out about one report at a time;
  `post_discourse_reply_draft`, `reparse_recent_topics`, `insertReviewerFeedback`
  and `checkGitAlreadyFixed` (no state of `workflow.json` runs the first two,
  the third only edits text, the last always answers null) and
  `close_extra_prs` are left out, as is the await inside the reopening of
  parked reports. The driver's gates on open and red pull requests only delay
  a lap.
- In `PendingPosts`: what one request reads before its first write is one step,
  as are a tick's making and closing of holds with the gate it then reads, a
  check's launch with its query, the rippling's test with its insert, the
  approval of one copy with its log, and the stamping of live copies. Requests
  on a deleted post, edits, the poster's own delete and outcomes, read
  replicas, and an API process that dies between a delete and its count are
  left out; so are `locked_by_home`, which nothing in the code sets, and the
  lockdown's surface for moderators' own actions, so that the model allows
  them more than the code does.
- The worker pool, the lockdown's filter of waiting mail and the retry of
  database statements have hazards of their own (`BoundedPool.php:46`,
  `LockdownFilterSpoolService.php:46`, `retry.go:120`), which wait for the
  modules of the plan.
- Everything listed as `not_modelled` in `PROJECT.json`, with the reason there.
  Much the larger part of the repository is not concurrent state: pages and
  components that show what a store holds, request handlers that check and
  write one row, scans with date arithmetic, geometry, text parsing, language
  models. The share of the source the map stands for is therefore small, and
  stays so: modelling a page line by line would say nothing that could be
  wrong. What is left that a model would say something about is in the plan.

## 8. What was found

Three disagreements between the code and what its comments or documents say
are recorded as findings, each with a run TLC refutes: `feed_left` (expiry,
back to pending and back to draft queue no remove), `reply_twice` (the store is
cleared "to avoid repeatedly sending" only after the send has been awaited, and
a page load in between sends again) and `reports_again` (the answer that
releases a held report becomes a second report when triage is persisted again
in the same lap).

Others can be reproduced with the same modules.

### Mail and tasks

- *Torn rewrite.* The catch block rewrites the claimed file in place
  (`EmailSpoolerService.php:1002`), though the comment at `:748` calls every
  spool file atomically written. Add `"tear"` to `Faults` of `spool_safe`:
  `PendingAlwaysValid` fails; the file then goes to `failed/`, and
  `retryAllFailed()` skips it.
- *The window between `rename()` and `touch()`* (`:735`). A mail that has been
  in `pending/` longer than the sweep age keeps its old time when it is claimed.
  Add `"backlog"` to `Faults` of `spool_safe`: `LiveClaimsKept` fails.
- *An age that says nothing about the owner* (`:653`). Add `"stall"` (a
  live send older than the reclaim age) or `"sweepRace"` (an owner that claims a
  file while a sibling reclaims it) to `Faults` of `spool_safe`: `LiveClaimsKept`,
  `DuplicatesAccountedFor`, `NothingLost` and `PendingAlwaysValid` all fail, since
  two daemons then work on one file. `RecordsAreTrue` still holds (`spool_any`).
- *Held mail and held rows at the head* (`:713`, and
  `ProcessBackgroundTasksCommand.php:200`). Both cut the batch before they look
  at the lockdown, so with a batch's worth of held mail or rows in front,
  allowlisted mail and other tasks do not go while the lockdown lasts.
- *A crash on the last attempt* (`ProcessBackgroundTasksCommand.php:227`) leaves
  a row with its attempts spent that is neither processed nor failed.
  `EveryTaskEnds` counts spent attempts as an end; ask for `done` or `failed`
  alone and it fails.
- *A repeated remove.* A first remove that is run again, because its row could
  not be closed, is not checked against the post (`:2093`), and may undo an add
  that came after it. Drop `overtaken` from `LiveOnFeed` and `feed_safe` fails.
- *Auto-approval queues no add* (`AutoApproveService.php:348`). Add
  `"autoapprove"` to `Moves` of `feed_safe`: `LiveOnFeed` fails.
- *Extending a deadline queues no add* (`message.go:4675`). Set `Moves` to
  `approve`, `expire`, `extend` and check `LiveOnFeed`: an add that fell due
  while the post was expired is dropped, and the post is live again without one.

### Posts

Each is a case `ModeratorDecides`, `NothingWhileHeld` or `NoOrphan` names as an
exception, or one that the model shows and no property forbids.

- *A command overrules a moderator.* The content check reads a row, checks the
  text, and writes the outcome wherever the copy is by then
  (`ContentCheckService.php:584`); the same in releasing a hold. A hold, a
  rejection or a send-back in between is overridden, though the comment at
  `:517-519` says a held post is never promoted or blocked "out from under them".
  Drop `ReadBefore` from `ModeratorDecides` and `posts_safe` fails. The
  auto-approval does the same (`AutoApproveService.php:348`).
- *A second press does not stop a release in hand.* The gate is read between
  batches of holds, not between posts; and whoever has launched before the press
  goes by a cache up to five seconds old.
- *Held once.* `lockdown_holds` is unique by kind and post: in a second incident
  the same post gets no hold, and rests on the gates alone. A post that came in
  during a lockdown closed before the next tick never gets one.
- *A killed release stays `releasing`.* No command claims that hold again; the
  post is decided all the same, by the content check's own walk or the
  auto-approval, which is `EveryPostDecided`.
- *An orphan.* A home community's send-back withdraws the rippled copies
  without counting: if another moderator deletes the home copy between its
  steps, the post is left without copies and not deleted (`orphaned`).
- *Tests before the write.* Reject, delete and spam on one community look at the
  hold first and write afterwards; Hold does not ask again whether the copy is
  still pending; an approval's release may clear the hold of a send-back begun
  since; a copy may ripple in between a send-back's withdrawal and its freeze.

### The reply flow

Each of these is a step that `excused` counts, or one that a property names as an
exception or does not forbid.

- *To the wrong poster.* Close a composer whose send is in flight and send a
  reply to another post, as `ChatButton.vue:221-223` invites ("so the user stays
  put and can reply to more items"): the first call reads the second reply's text
  and posts it to the first poster (`useReplyToPost.js:72`). Committing the second
  reply also replaces the first, which is then lost. Drop the `overtaken` disjunct
  of `RightPoster` and `reply_two` fails. That disjunct, and `Mixed` in
  `AcknowledgedWasSent` and `CommittedKept`, say how far the confusion goes: one
  of the two has to be on its way when the other is committed.
- *Dropped unsent.* A page load whose fetch of the post fails clears a committed
  reply and calls it sent: the store swallows the error (`stores/message.js:176`),
  `openChat()` has nobody to write to and returns (`ChatButton.vue:127`, `:143`),
  and `replyToPost()` goes on (`useReplyToPost.js:79-94`), though
  `stores/reply.js:23-25` says it "will send it on page load". Drop `Unaddressed`
  from `CommittedKept` and `reply_safe` fails.
- *Twice after a login.* Google One Tap remounts the layout, which sends the
  stored reply, and wakes the open composer, which sends it too
  (`useReplyStateMachine.js:1058`); a login while the registration is in flight
  does the same.
- *Twice after a failed refresh.* `fetchMessages()` after a successful send
  (`ChatButton.vue:208`) fails the send; the reply stays stored and goes again.
- *The fallback cancels nothing.* After thirty seconds the composer offers Send
  again while the call runs on (`useReplyStateMachine.js:447`).
- *Sent without being asked again.* The layout sends a stored reply on every
  mount; the resume in the composer asks for another press of Send.
- *Retry from anywhere.* An error once shown offers Retry even when the machine
  is processing again.
- *A ban looks like a send* (`stores/chat.js:579`): the reply is cleared and the
  composer says it has gone, on purpose.

### The monitor

- *Asked, then never told.* A report that was asked for detail has a row in
  `discourse_draft`, and the deployed pass replies only to reports that have
  none (`actions/index.ts:1906-1914`), so its reporter is never asked to retest;
  `monitor-fsm/README.md:224` has every deployed fix announced. Nor is a report told that is
  linked to a pull request already marked deployed, or one in hand or on the list
  when the process died after the mark, which a crash takes out of `owed`.
- *Live between two looks.* The deployed pass looks at the deployment anew for
  each report. When it goes live between the looks for two reports on one pull
  request, the second look marks it deployed (`actions/index.ts:1895`), the first
  report is skipped and no later pass lists it, though the comment at `:1970-1972`
  knows that such a mark "would orphan its reply forever" and takes it back for
  refused replies. Let `Deployed` add to `owed` every listed report on the pull
  request it finds live and `reports_topic` fails.
- *One answer, several reports.* A reminder covers all of a reporter's waiting
  reports, and an answer is noted against the latest it can be about; the others
  still close as unanswered (`chase.ts:83`, against `README.md:84`).
- *The lap's own bugs are dispatched whatever their state*
  (`actions/index.ts:4436`): just filed as a duplicate, parked for a person, or
  confirmed by a later post. `SettledStaysSettled` leaves out the report a fix
  task has in hand for this reason.
- *A question nobody saw.* A report whose question could not be posted is held
  as needs-detail all the same; it is not asked again, though the comment at
  `:1409-1412` expects it to be.
- *Reset keeps the count.* The dashboard's reset-attempts leaves the pull
  request and the rejections, so the report is escalated again or keeps its
  topic busy.
- *The dashboard sends what has been sent* (`dashboard-server.ts:468`): it asks
  nobody whether a reply has gone out. Nor does the flush ask whether the draft it
  is about to send was sent from the dashboard since it was listed
  (`actions/index.ts:1460`).
- *The cursor runs ahead* (`workflow.json:72`, step 7 of a topic's task). Posts
  count as read when they are fetched, before triage has filed them; a lap that dies has lost them.
