# Verification of the messaging core of Threema Desktop

These modules model the part of the desktop app that must not lose, reorder, duplicate or
forget anything: the connection to the servers and the loop that keeps it up, the task manager
and the network protocol tasks on top of it, the messages in both directions, the
synchronisation of contacts with the user's other devices, and the membership of groups. The
modules are model-checked with TLC on small instances, and their invariants are proved with TLAPS
for instances of any size.

Paths below are relative to `src/apps/desktop/src/common/`; `protocol/` abbreviates
`network/protocol/`.

Contents: [the system](#1-the-system) · [modules and code](#2-modules-and-code) ·
[runs](#3-runs-bounds-and-what-they-show) · [fairness](#4-fairness) ·
[disagreements](#5-where-the-code-and-its-documentation-disagree) ·
[proofs](#6-proofs) · [what is not modelled](#7-what-is-not-modelled) · [plan](#8-plan)

## 1. The system

The desktop app is one device in the user's *device group*. One WebSocket leads to the
*mediator*, which relays the chat server protocol (CSP) and lets the devices of the group
*reflect* messages to each other. The mediator stores reflected messages for every device until
the device acknowledges them, hands out one *device group lock* for transactions, and makes one
device the *leader*, the only one that gets messages of the chat server. The backend runs in a
worker; the user interface talks to it over an RPC endpoint.

### Inventory

| Component | State | Operations | Interacts with | Hard behaviour | Correct means |
|---|---|---|---|---|---|
| Task manager (`protocol/task/manager.ts`) | task queue, backlog, decoder and encoder queue, the running task, reflect id | `schedule`, `replace`, the main loop (`_next`, `_run`), the codec (`read`, `write`, `reflect`, `transaction`), bypass | connection manager replaces it; layer 5 fills its queues; tasks run on it | the race between queues, replacement while a task runs, errors at any await, bypassed messages | a promise settles iff its task leaves the queue; persistent tasks survive; order is kept; nothing is acknowledged before it is done |
| Queues (`utils/queue.ts`) | values, waiters, error | `put`, `get`, `consume`, `prepend`, `error` | task manager | `consume` expects the head to be the one that was read | the head does not change while it is being used |
| Reflected messages (`task/d2m/reflected.ts`) | none | process, acknowledge | started by the main loop, or by a *reading* task as a bypass | a bypass task's error is nobody's | acknowledged only after it was processed |
| Async lock (`packages/ts-utils/.../async-lock.ts`) | queue of executors | `with` | contact, conversation, group, profile picture controllers | held across awaits that need the task manager | no deadlock with the main loop |
| Contact, profile picture (`model/contact.ts`, `model/profile-picture.ts`) | view, version counter, lock | `update.fromLocal/fromRemote/fromSync`, `direct` | contact sync tasks, incoming messages | stale version, lost acknowledgement of the commit | devices agree in the end |
| Contact sync tasks (`task/d2d/reflect-contact-sync-transaction.ts`, `reflected-contact-sync.ts`) | none | transaction; apply a reflected contact | task codec, directory of blobs | uploads inside of the transaction, downloads that fail or end late | same |
| Incoming message (`task/csp/incoming-message.ts`) | nonce guard | look up, decrypt, validate, reflect, process, acknowledge, send a receipt, commit the nonce | nonce registry, directory, models, chat server | connection loss or restart between any two steps; duplicates; other leaders | processed once; acknowledged only when processed; others first |
| Nonce registry (`crypto/nonce.ts`) | nonces in memory and in the database | register, commit, discard, reuse | incoming and reflected messages | a guard that outlives its connection | a nonce is used once, but a failed use can be repeated |
| Reflected incoming message (`task/d2d/reflected-incoming-message.ts`) | none | nonce, duplicate check, save | models | order relative to contacts | saved once |
| Connection manager (`dom/network/protocol/connection.ts`) | auto-connect promise, current connection, state stores | run loop, disconnect, enable and disable auto-connect, D2M-only connection to unlink | replaces the task manager | disconnect during create, close codes, dialogs | one connection; reconnects while enabled |
| Handshakes and layers 1–5 (`protocol/layer-*-codec.ts`, `controller.ts`) | CSP and D2M authentication state, leadership, queue dry | decode/encode per layer | connection, task manager | two handshakes in one stream; promises that resolve in any order | chat messages only for a leader that has read its reflection queue |
| Outgoing messages (`task/csp/outgoing-csp-messages.ts`) | nonces and receivers of the run | reflect, send to each member, reflect the sent update | task codec, profile distribution | reconnection after half of the members | everyone gets it, others learn of it |
| Profile distribution, persistent protocol state (`task/common/user-profile-distribution.ts`, `protocol/persistent-protocol-state.ts`) | what each contact was told last, with expiry; the blob of the picture | distribute, upload, expire | outgoing and group tasks, blob server | written before the message is sent; uploads that outlive their connection | what the cache says is what the contact has |
| Groups (`model/group.ts`, `task/csp/outgoing-group-*.ts`, `active-group-update.ts`, `group-sync/*`, `incoming-group-sync-request.ts`, `task/common/group-helpers.ts`) | members, user state, requests of the last hour | create, change, disband, leave, delete, setup, sync request | incoming messages, outgoing group messages | messages of members in any order; an end of the group that overtakes the announcement of a change | devices agree on the members |
| Conversations, messages (`model/conversation.ts`, `model/message/`) | messages, read marks, lock | add, remove, edit, delete, receipts | tasks in both directions | delete while a task needs the lock | one copy of each message |
| Model stores, signals (`utils/store/`, `utils/signal.ts`) | value, subscribers | subscribe, update, derive | everything | updates while notifying | no missed update |
| Background jobs (`background-job-scheduler.ts`) | timers | schedule, update, cancel | backend | update while the job runs | one timer per job |
| Group calls (`protocol/call/`, `dom/webrtc/group-call.ts`) | participants, connection to the SFU | join, leave, peek | groups, WebRTC | many | not in this plan |
| Endpoint RPC (`utils/endpoint.ts`) | proxied objects | call, release | worker and UI | lifetime across threads | no leak, no use after release |
| Backend start (`dom/backend/`) | key storage, database, dialogs | create, link, restore, unlink | all | long dialog sequences | – |
| Storage (`node/db`, `node/file-storage`, `node/key-storage`) | files, SQLite | read, write, migrate | models | crash between statements | – |
| Directory, blobs, Safe, update, rendezvous (HTTP) | none | requests | tasks, backend | may take any time | – |
| User interface, view models, Electron shell, launcher, conferencing app, generated packages | derived | rendering, packaging | backend over RPC | – | – |

`PROJECT.json` lists the same parts under `components` with what is modelled of each, and under
`hazards` the lines at which something hard to test can go wrong.

### What makes it hard

* **Awaits.** Everything runs on one event loop, but every `await` is a point at which the
  connection may go, another message arrive, or the manager be replaced. The models make each
  stretch between two awaits that matter one action.
* **The connection is shared state.** Losing it errors three queues, kills the main loop,
  aborts tasks, and discards nonces; a task that waits for something else does not notice.
* **Acknowledgements.** There are four kinds, each lost with the connection, each deciding
  whether something is repeated.
* **Several devices.** Another leader may process the same message; another device may change
  the same contact.

## 2. Modules and code

`PROJECT.json` maps every definition to the lines it stands for.

| Module | Models | Instance |
|---|---|---|
| `TaskManager` | `protocol/task/manager.ts`, `utils/queue.ts`, `task/d2m/reflected.ts`, `drop-device.ts`, and the servers | `MCTaskManager` |
| `TaskLedger` | abstract: what the task manager promises to those who schedule tasks | as a property of `TaskManager` |
| `ContactSync` | transactions of the codec, `model/contact.ts`, `model/profile-picture.ts`, `utils/lock`, the contact sync tasks, the mediator's lock, log and mailboxes | `MCContactSync` |
| `IncomingMessage` | `task/csp/incoming-message.ts`, `crypto/nonce.ts`, `task/d2d/reflected-incoming-message.ts`, and the servers | `MCIncomingMessage` |
| `Connection` | `dom/network/protocol/connection.ts`, `protocol/layer-3-codec.ts`, the alerts of `layer-4-codec.ts`, the leader and the dry queue of `layer-5-codec.ts`, and both servers | `MCConnection` |
| `OutgoingMessages` | `task/csp/outgoing-conversation-message.ts`, `outgoing-csp-messages.ts`, `task/common/user-profile-distribution.ts`, `protocol/persistent-protocol-state.ts`, the picture of `model/settings/profile.ts`, and the servers | `MCOutgoingMessages` |
| `Groups` | `model/group.ts`, the outgoing and incoming group tasks and `task/common/group-helpers.ts`, on the devices of all users of a group | `MCGroups` |
| `TaskManagerProofs`, `TaskInboundProofs`, `TaskLedgerProofs`, `ContactSyncProofs`, `IncomingMessageProofs`, `ConnectionProofs`, `OutgoingMessagesProofs`, `GroupsProofs` | theorems and their proofs | – |

### TaskManager

`inner` is the manager in place (connected or disconnected); `tasks` with `ticket` is the
unbounded task queue (a set with the position of each member stands for the linked list);
`loop` is the program counter of the main loop: `next` (in `_next`), `inbound` (the race has
been decided for an inbound message, its continuation has not run yet), `run` (in `_run`).
`backlog` belongs to the manager, `codecBacklog` to the running task, `slot` is the decoder
queue of capacity one. `up` and `down` are the two directions of the connection.

A task is what it does on the network: perhaps wait for something outside of the connection (a
blob upload), reflect a batch, and await the acknowledgements. Incoming chat messages reflect
one envelope and are acknowledged afterwards; reflected messages are processed and acknowledged.
`ExitLoop` is the catch block of `run`. When a task returns after the connection was lost, the
transfer of its backlog throws and the task stays queued, to be run again: `TaskReturns` has
both outcomes. A reflected message that reaches a task which is reading is handed to a bypass
task (`bypassed`), which runs on its own.

Simplifications: one handle per task and no transaction tokens; a re-run may overlap with what
is left of the previous run only outside of the connection, and the model abandons that rest;
validation and decryption failures are the outcome `discard`.

### TaskLedger

Four variables and six actions: tasks join a line, are turned down, cancelled together at a
reconnection if they are volatile, and completed in order, when all they reflect is delivered.
`KeepsLedger` states that `TaskManager` implements it under the mapping at the end of
`TaskManager.tla` (`before` is derived from the tickets, `delivered` from the mediator's store).

### ContactSync

One synced value stands for the data of a contact or for its picture: both controllers have the
same lock, version counter and transaction. An update notes what it has seen, waits for the
lock, and runs a transaction: BEGIN, acknowledged, or rejected while another device has the
lock (then it waits for ENDED and begins again); precondition; reflect; COMMIT. Updates of the
user come through `schedule` (a volatile task), those of a chat message run inside of a task.
A picture (`Slow`) that the user has set is uploaded inside of the open transaction, with the lock of
the device group held and no limit of time (phase `upload`, ended by `EndUpload`). Reflected updates
are applied when read, pictures only after a download. A download may fail: the update is then
acknowledged, its nonce committed, and it is never applied (`FinishDownload` with `Missed`, recorded
in `missed`). `log` is what the mediator has committed, `mailbox` what it has yet to deliver.

`md-d2m.proto` describes the mediator: it releases the lock of a device whose connection closes,
and reflects what was committed before it tells anyone that the transaction ended. It is
modelled from that description and marked external.

Simplifications: the branch in which a remote update finds its value already set; creation and
removal of contacts. An update whose commit was acknowledged is applied in the same step
(microtasks of one message), but the acknowledgements of reflected entries are separate steps.

### IncomingMessage

A *delivery* is a message with its nonce. The same message may be delivered again with the same
nonce (it was not acknowledged) or another one (its sender sent it again). `tasks` has one
program counter per connection, because a task that waits for the directory or a download
outlives its connection and still holds its nonce guard. Deliveries differ by what becomes of
them: `Control` (an update of some kind; the others are saved to a conversation), `Rejected` (may be
discarded), `Unknown` (a type the app does not know), `Waits` (waits for the directory or for a
download while holding the nonce: messages of groups, whose sender or members may have to be looked
up, and updates), `Downloads` (the updates that wait for a picture: if the download fails, the task only
logs it and goes on, so that the message is acknowledged and the update not made). Other devices may
lead while this one is disconnected.

Simplifications: subtasks are one step; message flags that suppress the acknowledgement, messages
that are not reflected or deferred, removal of messages, and missing contacts are left out.
A message whose reflection was not acknowledged to us, and which the next leader acknowledges, is
lost to this device: the model has that behaviour, no property forbids it, and `hazards` names it.

### Connection

`loop` is the program counter of the generator `_run`: it waits for auto-connect (`auto`), creates
a connection, waits until it is closed (`open`), waits for the user's answer (`dialog`), sleeps,
or has ended with an exception (`dead`). `csp` and `d2m` are the two handshakes that share the web
socket; `unblocked` is the message by which the chat server is told to send what it holds. `closed`
is the close information once it is raised, `inFlight` what the servers sent and the pipe has not
yielded yet, `drained` that the readable side has ended: `ClosingDone` is the closing sequence,
which waits for the draining only when the other side closed. `fallback` is the connection to the
mediator alone by which a device unlinks itself (`selfKickFromMediator`).

`Finish` is the second half of `_connectAndWaitUntilClosed` with everything `_run` does by close
code; `Connect`, `Disconnect` and `Abort` of `TaskManager` are what the task manager sees of
`StartConnecting`, `Finish` and the raising of `closed`.

Behaviour that the model has and no property forbids: auto-connect turned off while a connection
is being created is noticed only at its end (`missed`); the D2M-only connection and the main one
can exist side by side; a fallback that fails while the main connection is created or open resets
the task manager under the loop (`torn`) and ends it; a fatal close code ends the loop for good.
There is no timeout for the D2M handshake: a mediator that stays silent leaves the loop waiting,
unless the connection is lost. A close-error whose text is not UTF-8 returns before auto-connect is
disabled; stale messages of an old pipe after a local close, and a device that unlinks itself while
connected (`WriteDrop` in `TaskManager`), are left out.

### OutgoingMessages

Each message is a persistent task in `queue`; `phase` is where the run of the first one is: the
profile picture distribution with its uploads, mirroring to the own devices, sending receiver by
receiver with the acknowledgement awaited after each, the sent update. A run reads the members, the blocked
contacts and the picture settings when it starts (`addressed`), and takes the prepared nonces one by one.
`LoseConnection` at any step ends the run and the next connection starts it again; an upload goes
on (`ghost`) and still writes the cache and the profile's blob. `Restart` forgets the queue.

`cache` is the persistent protocol state: which picture each contact was told last. It is written
by the distribution steps, *before* the message is sent. The messages of one run all carry the
blob ID of its first upload (`FirstBlob`; `set ??=` in the code), while the cache keeps the one that was
uploaded for each receiver: the IDs differ, the picture behind them does not, and `ToldAsCached` is
about the picture. `lost` remembers the contacts whose
message was given up in between, and a block or a removal at that time has the same effect;
`ToldAsCached` holds for all others.

Simplifications: the chat server and the receivers drop a message that comes a second time
(external); the order of the members is arbitrary; pictures are changed between runs only (by a
task of their own, which waits); one ghost at a time; which receivers a message omits
(`Omits`) is given, as the tasks for edits, reactions and polls decide; the upload of a message's
own attachment, before the run, is left out.

### Groups

One group over the devices of its creator and its members, each with its copy (`userState`,
`members`), the persistent tasks it has in memory, and a mailbox at the chat server. A change of the list goes through
`StartUpdate` (the difference is computed under the group's lock), `CommitUpdate` (the transaction
reflects the whole list and stores the difference), `ScheduleDue` (the announcement is put in line, a
few microtasks later) and `Announce`; between any two of them messages are processed, except that a
device runs a task before it takes the next message. Disbanding goes through `RequestDisband`,
`CommitDisband`, `ScheduleDue` and `Announce`; it takes no lock and does not look for a change.
The two transactions are volatile tasks in line with the persistent ones: `behind` counts the tasks of
the creator that are ahead of each, and a lost connection drops them. So the end of the group may
be committed between a change and its announcement, which then fails its precondition and is
dropped; those it was to remove become `stray`. If the group was also deleted, the announcement
hits an assertion before the precondition, ends the connection and is the first task of the next
one, for ever (`AnnounceThrows`).
`mirror` is the list the creator's other devices have. An announcement that is interrupted reaches
some members and runs again. Requests for a setup are limited to one an hour on both ends
(`requested`, `answered`); `Expire` lets the hour pass (and counts as one of
the failures, which keeps the instance small; the proofs cover any number of both).

A leave that crosses a setup that names its sender leaves him a member in his own eyes and not in
the creator's, until the creator sends him a setup again, which may be the empty one that answers
his next post; he is `stray`, too. That can happen to somebody who never left of
his own accord: a device that was
removed answers a post of another member with a leave, and the setup that adds it again
crosses that leave. `departed` are all who have sent a leave for either reason. Announcements are
tasks in memory: a restart forgets them (`forgotten`). A request is marked as answered before the
answer is sent, so a lost connection may leave it unanswered for an hour.

Simplifications: names, pictures and calls of a group; the contacts that are created on the way;
the other devices of a member. The user interface only deletes a group that is over, and the model
follows it.

## 3. Runs, bounds and what they show

| Run | Instance | Checks |
|---|---|---|
| `task_manager` | 1 persistent task (2 envelopes, external wait), 1 volatile one, 2 chat messages, 1 reflected message, duplicate acknowledgements, 1 failure | `TypeOK`, `PendingIffQueued`, `RunsFirstInLine`, `ResolvedAfterStored`, `ForgottenAfterStored`, `NoInboundLost`, `CspInOrder`, refinement `KeepsLedger` |
| `task_manager_live` | 1 chat message, the reflected message is one that reveals an unrecoverable state, no duplicate acknowledgements, fair | `AcksOfRunningTask`, `PersistentCompletes`, `VolatileSettles`, `InboundAcknowledged` |
| `contact_sync` | 2 devices, 3 updates (user, user of the other device, chat message), one of them a picture (its upload may take for ever, its download may fail), 1 loss, fair | `TypeOK`, `NothingMissedSinceLock`, `NoPendingBacklog`, `ConvergesUnlessMissed`, `LockReleased`, `TransactionEnds` |
| `incoming_message` | 4 deliveries (a group message that waits for the directory, twice; an update that waits for a download; an unknown type), other leaders, 1 loss or restart, fair | `TypeOK`, `SavedOnce`, `AckedOrWaits`, `DoneIsShared`, `ReceiptOnce`, `InboxEmpties` |
| `connection` | 2 reflected messages, 3 failures, 2 requests of the user, 2 unread messages at the close, fair | `TypeOK`, `ManagersAgree`, `UnblockedAfterQueue`, `OffClosesConnection`, `NoBarredReconnect`, `Reconnects` |
| `outgoing_messages` | 2 contacts, 2 messages (one omits a contact), 2 changes of members, settings or picture, 1 loss or restart, fair | `TypeOK`, `SentMeansStored`, `InOrder`, `NoncesMatch`, `ToldAsCached`, `TasksEnd` |
| `groups` | creator and 2 members, creation, 1 change of the list and the end of the group, 1 leave, 1 post, 1 loss, restart or hour that passes, symmetric | `TypeOK`, `Settled`, `MirrorDiffers` |
| `task_manager_assert`, `task_manager_poison`, `contact_sync_stuck`, `incoming_message_hung`, `connection_delay` | smallest that shows it | one property each, violated: see section 5 |

Why the bounds are enough to be of interest:

* *Two chat messages* are the least that can be swapped; with a decoder queue of one, the second
  waits in the stream while the first is in a backlog. *One reflected message* can bypass a reading
  task. *One batch of two* distinguishes an acknowledgement of the right batch from the right
  position in it. Duplicate acknowledgements are on in the safety run, as the code has to tolerate
  them; `AcksOfRunningTask` holds only of a mediator that acknowledges once.
* *One failure* may fall between any two steps, and is followed by a second, complete connection.
  The proofs cover any number.
* *Three updates*: one by each kind of author and one on the other device, so that two are in
  conflict while a third waits for the lock. An update by a chat message on the *other* device
  is excluded in the instance with a picture: two authors that conflict with each other tear
  their connections down and try again for ever, which grows the queues without bound.
  That livelock is outside of the instance and covered by no property.
* *Four deliveries*: a message with its repetition, one update, one unknown; each subset of the
  outcomes occurs. One loss gives two connections, so at most two tasks overlap.
* *Connection*: two reflected messages, so that a queue can be read in part; three failures and two
  requests allow a lost connection, a verdict of a server and a failed fallback in one behaviour, in
  any order with the user turning auto-connect off and on. *Two unread messages* let a verdict come first or last.
* *OutgoingMessages*: two contacts, so that a loss may fall between them; two messages, so that
  they could be swapped; five blobs are one more than are in use at any time (the blob numbers are
  reused, `FreshBlob`). Two changes: a picture and a member, block or setting.
* *Groups*: two members, so that one can learn of the other; one change after the creation removes,
  adds or swaps members while one leaves, and the group may be disbanded at any time: before, between
  or after. The limit on posts only bounds the answers to them. Three
  changes are what it takes to remove a member and add him again; that instance takes too long to be
  checked each time, and the theorems cover it.
* All counters (tickets, reflect ids, log positions) are bounded by the number of tasks, messages,
  updates and failures; no further bound is needed.

Deadlock checking is off in all configurations: the system stops when nothing is left to do.

Each property has a mutant in `PROJECT.json`: a plausible bug in one mapped definition under
which TLC finds the property violated. They stand in the modules next to what they replace, such as
`NeverCommitted` next to `Commit`.

## 4. Fairness

Safety properties need none. For liveness:

* *TaskManager*: the main loop, the codec, the transport, the servers, connecting and
  disconnecting are weakly fair, as groups. The event loop runs every microtask, a
  promise reaction is never withheld, and the connection manager's loop always reconnects. Scheduling a
  task, losing a connection and throwing an error are not fair: nothing has to go wrong.
  Liveness is conditional on `registered`, since a device that was dropped does not come back.
* *ContactSync*: per update its controller's steps, per device the transaction, the reflection,
  the connection and the mediator's answers. The blob server is not fair: nothing limits the time of
  an upload or a download. `LockReleased` and `TransactionEnds` are therefore about devices that are not
  uploading for ever.
* *IncomingMessage*: each connection's task takes its steps (a request to the directory has a
  timeout; a download is taken to end or fail, so that `InboxEmpties` says nothing of one that hangs on a
  connection that stays), the chat server delivers each message it holds,
  servers answer, and the manager reconnects. Other leaders do not have to do anything.
* *Connection*: the loop, its wake-up after the delay, what the servers have sent is read, and they
  carry on with a handshake they have begun. Nothing the user does is fair, and neither is a
  failure. `Reconnects` leaves out a loop that waits for the user's answer or has ended.
* *OutgoingMessages*: the running task, the servers and connecting, each as a group.
* *Groups* has no liveness property: `Settled` states what holds whenever everything is quiet.

The number of failures is bounded (`MaxFailures`, `MaxLosses`), so these properties say: whatever
happens a finite number of times, it ends well afterwards. A task that fails *every* time blocks
everything behind it for ever; that is a hazard the properties do not cover.

## 5. Where the code and its documentation disagree

Each has a run in which TLC finds a behaviour of the model that violates what a comment, doc or
assertion says; `findings` in `PROJECT.json` quotes the lines.

| Run | What the code does |
|---|---|
| `task_manager_assert` | A task scheduled between the microtask in which the race of `_next` is decided and the one in which it goes on makes `assert(this._tasks.empty)` fail; the connection is torn down. |
| `task_manager_poison` | A reflected message that reveals an unrecoverable state while a task is reading is acknowledged, and the state never recorded: its bypass task's error reaches nobody. |
| `contact_sync_stuck` | `update.fromLocal` holds the contact's lock while it waits for a task; the running task waits for the lock. |
| `incoming_message_hung` | A task that waits for the directory (any message of a group may) or a download outlives its connection with its nonce; the message, delivered again, is taken for its own duplicate and acknowledged unprocessed. |
| `connection_delay` | `skipConnectionDelay` is set by one dialog and never reset: all later attempts follow each other without delay. |

More that the models show, without a run of their own:

* `schedule` throws between the exit of the main loop and the replacement of the manager, for
  persistent tasks too (`manager.ts:863`), while the doc of `replace` says that all persistent tasks are kept.
* When the acknowledgement of a COMMIT is lost, the author never applies its own update
  (`contact.ts:413`); a reflected picture whose download fails is acknowledged and never applied
  (`reflected-contact-sync.ts:101`). `ConvergesUnlessMissed` states that a device lacks nothing else.
  A picture that finishes downloading overwrites a newer one (`reflected-contact-sync.ts:138`), so
  which value wins is only stated where there are no pictures.
* What an update sets is fixed when `fromLocal` is called, and the version is looked at when it has
  the lock of the contact (`contact.ts:388`): what arrives while it waits for the lock is
  overwritten without notice. `NothingMissedSinceLock` is about the time from the lock on.
* The lock of the device group is held while a picture is uploaded, without a limit
  (`reflect-contact-sync.ts:296`).
* The end of a group can get between a change of its members and the announcement of that change
  (`group.ts:1929`, `group.ts:1400`): those it removed hear of neither. If the group is deleted as well, the
  announcement fails an assertion each time it is run (`outgoing-group-create-or-update.ts:72`), and
  nothing behind it is ever run.
* The doc of the fallback says "On failure, auto-reconnect is turned on" (`connection.ts:1151`); its
  catch block first hits the assertion in `TaskManager.replace` when the device is not connected.
* The closing doc says that draining comes before the abort (`connection.ts:641`); the abort is
  raised first, and layer 5 delays what it does about it.
* "This can only happen once per function call" (`user-profile-distribution.ts:106`): the picture is
  captured at the start, so it is uploaded once for each receiver.
* The cache of the distribution is "the most recent set-profile-picture message sent" by its
  comment (`user-profile-distribution.ts:129`), but is written before sending.
* `.catch(assertUnreachable)` at `outgoing-csp-messages.ts:413` is reached at each loss of the
  connection while the sent update is being reflected.
* The precondition of a member's leave (`outgoing-group-leave.ts:49`) looks for a group the *user*
  has created, so it is always true; its comment speaks of the group being left.
* The device that changes a group's list reflects members who left while the change was waiting
  (`group.ts:1187`): its own copy does not have them, the others' do (`MirrorDiffers`).

## 6. Proofs

All proofs are about the specifications as they stand, for every value of the constants that
satisfies the assumptions. They say of what kind each constant is, and little else: a task that waits
for something outside of the connection reflects something (`TasksAssumption`), a device runs an
update or the task for reflected entries, whose name is no update's (`ContactSyncAssumption`), only a
message of a known type waits for the directory or a download, and only an update that waits for
a picture (`IncomingMessageAssumption`), there are more blobs
than can be in use at a time (`ConstantsAssumption` of `OutgoingMessages`), the creator is not one of
the members (that of `Groups`); `BoundsAssumption` says that bounds are numbers. TLC evaluates
these assumptions in the runs.

**TaskManagerProofs.** `TypeCorrect`, `PromisesMatchQueue`, `RunningIsHead`, `ResolvedIsStored`,
`ForgottenIsStored`, all from `Invariance`, which says that `IndInv` is
invariant. The properties are not inductive. The interesting one is `ResolvedAfterStored`:
that all acknowledgements were counted must imply that the mediator has stored all envelopes,
although it may acknowledge twice and old acknowledgements wait in four queues. The
strengthening follows an acknowledgement through the system. `QueueInv`: the running
task is the head, tickets lie below the next one and promises match the queue. `FramesInv`: a reflect frame in flight
belongs to the running batch and stands for the right envelope. `AcksInv`: an acknowledgement
anywhere, with an id of the running batch, means that its envelope is stored. `BatchInv`: ids are
used once per connection; every envelope counted so far is stored. `CspInv`: a chat message about to
be acknowledged, or whose acknowledgement is in flight, was reflected. The induction step goes
through summaries (`FramesStep`, `AcksStep`, `OutcomeStep`, `RunningStep`): each says what any step of
`Next` may do to one part of the state, is proved action by action, and each conjunct
is then proved from the summaries alone.

**TaskInboundProofs.** `NoInboundLostAlways`, `CspInOrderAlways`, `AcksOfRunningTaskAlways`, from
`InboundInvariance`, on top of the invariant above. A message on its way in passes the connection
(`down`), the decoder queue (`slot`), perhaps the manager's backlog, and the backlog of the running
task, in which a task puts aside what it is not waiting for. `Rising` says that the messages of one kind
in a queue are in the order of their ids, `Before` relates two queues, and `Aligned` says so of
all four along the way. The hard case is the task that gives back what it has put aside: its
backlog goes in front of the manager's, which is in order only if one of the two is empty
(`OneBacklog`). It is, because the acknowledgements in an inherited backlog are older than the batch the
task reflects, so it has read all of that backlog when it finds its own (`ReturnInv`).
`NothingLost` gives every message that was sent and not acknowledged its place (`Somewhere`); it
needs that no reflected message is in a backlog. `OnceInv` is about a mediator that acknowledges
once. `MessageStep` (with `Movement`), `SentStep` and `UpStep` summarise what steps do to the queues.

**TaskLedgerProofs.** `ImplementsLedger`: `Spec => Ledger!Spec`, every step of the task manager
is a step of the ledger or a stutter, under the same invariant.

**IncomingMessageProofs.** `TypeCorrect`, `SavedOnceAlways`, `AckedOrWaitsAlways`,
`DoneIsSharedAlways`, `ReceiptOnceAlways`, from one inductive invariant. Its parts:
`CountInv` (connections are counted by losses), `TaskInv` (a task whose connection is gone is at
a step that waits for something else), `SharedInv` (what is being processed is known to the
others), `ReceiptInv` (what is about to be acknowledged is done, and its receipt has not been
sent), `AckInv` (the running task's delivery is still held by the chat server, and a nonce in the
database of a delivery the server still holds belongs to something settled: without it, a
duplicate could be acknowledged that was never processed). The proofs hold for any number of
deliveries, connection losses, restarts and changes of leader.

**ConnectionProofs.** `TypeCorrect`, `ManagersAgreeAlways`, `UnblockedAfterQueueAlways`,
`OffClosesConnectionAlways`, `NoBarredReconnectAlways`, for any reflection queue and any number of
failures, requests and unread messages. `HandleInv`: the main connection is the current one only
while the loop waits for it, and a torn manager is not replaced. `StateInv`: an open connection is
recognised by the state store, which is what the assertions of `replace` rest on. `DryInv`: the D2M
handshake's promises resolve in their order. `VerdictInv` carries the last theorem: while
auto-connect is on, a server's verdict is the close code itself, or a message that is still unread while
the closing sequence is not over; three lemmas about sequences say what reading and sending do to it.

**OutgoingMessagesProofs.** `TypeCorrect`, `NoncesMatchAlways`, `InOrderAlways`,
`SentMeansStoredAlways`, `ToldAsCachedAlways`, for any number of contacts, messages, changes of members,
settings or picture, losses and restarts. `RunInv` relates the variables of a run to its phase,
`QueueInv` what is queued to what was scheduled. `OrderInv` compares the order in which messages
were written and received with the queue (`Before`). `StoreInv` follows what a message mirrors and sends to
the stores of the servers. `PictureInv` is behind `ToldAsCached`: for each contact, what his device will
have been told when it has read what is in flight (`Tells`) is what the cache says, or he is still to be
told by the run (`Untold`), or has missed it (`lost`). It rests on a fresh blob being
fresh (`FreshBlobIsFresh`), which is a pigeonhole argument about the size of the set of blobs.

**ContactSyncProofs.** `TypeCorrect`, `NothingMissedAlways`, `NoPendingBacklogAlways`,
`ConvergesAlways`, for any set of devices and updates. The invariant says what a
device that is offline has left (`Offline`), how entries and answers stand in its line
(`Line`, `InLine`), what the steps of an update and of its transaction imply of each other (`Runs`,
`Dialog`), that nothing is put aside that still blocks (`Backlog`), that the log and the mailboxes
hold the same entries, and that what is marked as processed was applied, is being downloaded or was
missed (`Entries`, `ReadAll`, `Noted`), and that what a device saw before it began is
covered by the log when it reflects (`Covered`). Most steps concern one device, and its part is proved from its
own step while `Elsewhere` says what others may have done. That devices agree in the end is `OrderInv`: as
long as no picture is involved, the entries of the others are marked in the order of the log
(`Marked`), those that are not will come in that order (`Arriving`), a commit comes after all of them
(`Committed`), and the contact has the value of the last one it applied or a later one is on its
way (`Latest`). These formulas were checked with TLC before they were proved.

**GroupsProofs.** `TypeCorrect`, `MirrorDiffersAlways`, `SettledAlways`, for any set of members and
any number of changes, leaves, posts and failures. `MirrorDiffers` is not inductive: whether the
reflected list and the stored one agree after `CommitUpdate` depends on a difference computed long before.
`UpdateInv` says what is left of it while it waits: everything the new list has beyond what the
stored list will have is somebody who left meanwhile. `Settled` is about a quiet moment, and
says nothing of the moments in between, in which any number of setups and leaves are on their way.
`SettledInv` describes those: how a member's copy will be when he has read his whole mailbox depends
on the last setup in it (`Ends`, `TakesPart`, `Lists`). Whoever takes part in that sense belongs to the
group, is `stray`, or is about to be told that it is over (`OutsidersInv`); whoever belongs to it
takes part with the right list, unless an announcement is still to be made or a leave of his is
on its way to the creator (`InsidersInv`). The creator may have several announcements in line, or
about to be (`Queued`, `DueInv`): one that carries a list tells everybody on the list of the moment it
is run (`Announcing`), one that names a removed member tells him of the end (`TellsEnd`), and an
announcement that is dropped leaves those it names stray; a leave comes from a member who has
`departed` (`LeaveInv`). The steps go through summaries: a member's copy is told, kept or
departs (`CopyStep`), and likewise for the leaves, the plan and the list (`LeaveFlow`, `PlanStep`, `ListStep`).

The proof changed the property. Its first form took only those who leave on their own for `departed`, and
dropped a member from `stray` too early; it held in the instance with two changes, and the induction
failed at the leave with which a removed device answers a post. With three changes TLC finds that
behaviour. The history variables `stray` and `departed` were corrected; no action of the code changed.

**Only model-checked**: the liveness properties `PersistentCompletes`, `VolatileSettles`,
`InboundAcknowledged`, `LockReleased`, `TransactionEnds`, `InboxEmpties`, `Reconnects` and
`TasksEnd`. Liveness under fairness is beyond the prover in use. Every invariant that a passing run
checks, and the refinement `KeepsLedger`, is a theorem.

## 7. What is not modelled

* *External code* is modelled from how the code uses it: mediator, chat server, directory, blob
  server, other devices (marked external in the map).
* *Cryptography, encodings, WebSocket framing, HTTP, file formats*: no control to check, and no
  property here is about them.
* *User interface, view models, Electron shell, launcher, generated packages*: derived state.
* *Group calls and the RPC endpoint*: state machines of their own, independent of the messaging
  core; after it.
* *Time*: delays and expiry appear as steps that may happen at any time.
* *Conversations*: receipts, edits and the removal of messages; background jobs; model stores.
* *Restore, linking, Safe*: sequences of dialogs and requests, without concurrency of interest.

## 8. Plan

Done: `TaskManager` with `TaskLedger`, `ContactSync`, `IncomingMessage`, `Connection`,
`OutgoingMessages`, `Groups`, and the proofs of all their invariants.

Next: an abstract inbox (every message is processed at most once and acknowledged
afterwards) that `IncomingMessage` implements, with its proof in `IncomingMessageProofs`.

Modules that would come after: `Conversations` (removal, edits and receipts next to saving) and
the composition of `ContactSync` with `IncomingMessage` (a reflected message whose sender's contact
has not been read yet).
