# Paloondra: a TLA+ development

Paloondra is a web panel for one Minecraft server. A Node.js backend keeps one
SSH, one SFTP and one RCON connection to the game server, runs its scripts,
follows its console, schedules tasks and keeps the panel's accounts; a React
frontend shows all this. The interesting behaviour is in the backend's
`services/` and in the frontend's tabs: single-threaded code in which every
`await`, timer and event listener is a place where something else may happen
first.

The modules here are translated from `src/backend/src` and `src/frontend/src`.
`PROJECT.json` maps each definition to the lines it stands for, and lists the
runs, the mutants that show each property can fail, the hazards of the code and
the theorems.

## 1. Inventory

| Component | State | Operations | What is hard | What makes it correct |
|---|---|---|---|---|
| JSON document store (`jsonStore.ts`) | files under `DATA_DIR`, temporary files | `readJsonFile`, `writeJsonFile` | saves of one file overlap; crash or I/O error between open, write and rename | the file always loads; what was acknowledged is not lost |
| Panel accounts (`users.service.ts`) | `users`, `users.json` | seed, migrate, create, remove, role, permissions, SFTP root, password | requests interleave at bcrypt and at the save; failed saves; restarts | an admin is always left, admins are unrestricted, names are unique |
| SSH connection (`ssh.service.ts`) | `client`, `connected`, `connectPromise`, timer, backoff | `start`, `exec`, `execChannel`, events | on-demand calls race the timer and the events of older clients | one connection, always retried while down, callers answered |
| SFTP connection (`sftp.service.ts`) | the same and the channel | the file operations | a connection may outlive its channel, nothing hears its close | the same |
| RCON connection (`rcon.service.ts`) | the same, without a channel | `execute` | the socket of a rejected `connect()` may live on | the same |
| Game console (`gameConsole.service.ts`) | `following`, `lastError`, `history`, timer, backoff | `follow`, confirm, retry, `sendCommand` | confirmation timer, data, error and close race; stopped container | one follower, status and notices are true, it comes back |
| Script runner (`scripts.service.ts`) | `running`, `history` | `run`, `execute` | the script outlives its channel, late close | one script at a time, never stuck |
| Task scheduler (`scheduler.service.ts`) | `tasks`, `handles`, `scheduled-tasks.json` | create, update, delete, run now, firing | operations interleave with runs; failed saves; restarts | fired = enabled, by the expression it has now; file = memory |
| Audit log (`auditLog.service.ts`) | `entries` (1000), `audit-log.json` | `record`, `list` | concurrent records | nothing lost but the oldest |
| Metrics sampler (`metrics.service.ts`) | `history`, interval | `sample` | rounds longer than the interval | viewers see the samples there are |
| Authentication (`auth/`) | none | `requireAuth`, `requireAdmin` | the account changes under a request | only admins administer |
| WebSocket gateway (`ws/`) and `useSocket` | open sockets; socket, timer and `closedByUser` of a hook | upgrade, replay, live events; mount, unmount, reconnect | sockets break between replay and live; late `onclose` | no line lost or doubled; one socket or one timer |
| File manager, scoping, sudo (`fileManager`, `sudoFs`, `sftp.routes`, `SftpManager`) | files; path, entries, editor, locks | list, read, write, upload, rename, move, delete | dots in names, half-done deletes, listings that overtake each other | a scoped user stays in the root; a text is saved where it was read |
| Whitelist and operators (`whitelist`, `ops`, their tabs) | `whitelist.json`, `ops.json`; list, locks, banner | add, remove, level, toggle, restart | answers out of order, partial failures, a level that waits for a restart | a settled tab is right; the banner says what waits |
| File editors (`propertiesFile`, YAML, `motd`, their tabs) | remote files; form, text, dirty flags | load, type, save, restart | stale forms, two modes, others who write | a save changes no value but the edited ones |
| Plugins, backups, tasks, accounts: the tabs | list, locks, forms, confirmations | toggle, delete, install, run, edit | the same | one request per row; a toggle undoes no edit |
| LuckPerms (`luckperms.service`, `luckperms.routes`, its tab) | none; selection, panel, lists | nodes, parents, prefixes, meta, weights, tracks, moves, search | panels come and go under their requests; two requests for a weight or a display name | the panel shows what is selected; one weight |
| Plugin store, metadata cache, Modrinth | metadata cache | search, read, download | cache keyed by a path that is renamed | the metadata shown is the jar's |

How they interact: scripts, console and metrics use the SSH connection
(`exec`, `execChannel`); metrics, scheduler, ops, whitelist and MOTD use the RCON
connection; the scheduler starts the restart script and ends every run in the
audit log; accounts, tasks and audit log save through the document store;
routes and the gateway read the accounts at each request or upgrade. A tab asks
the routes over HTTP and shows what they answer; the live views hear the
services' events over a WebSocket.

## 2. Modules

| Module | Models | Composes or refines |
|---|---|---|
| `AtomicStore` | what a caller of `writeJsonFile()` is promised | abstract |
| `JsonStore` | `services/jsonStore.ts` | implements `AtomicStore` |
| `UsersService` | `users.service.ts`, the admin routes, `auth/middleware.ts` | |
| `ConnectionConstants` | constants of the three connections | |
| `SshService`, `SftpService`, `RconService` | the three connection services | share the constants |
| `Connections` | one of the three at a time, under one of several assumptions about the network | the three services |
| `ChannelConstants` | constants of the users of an SSH channel | |
| `GameConsole`, `ScriptsService` | the two users of an SSH channel | share the constants |
| `Channels` | one of the two at a time, under one of several assumptions about its channels | the two services |
| `Scheduler` | `scheduler.service.ts`, its routes, the audit entry of a run, the Dashboard's script start | |
| `PanelRequests` | what the tabs share: a view, what the backend answers from, requests in between | |
| `ListTabs` | Whitelist, Ops, Backups, ScheduledTasks, InstalledPlugins, Users, and their routes | extends `PanelRequests` |
| `EditorTabs` | PropertiesEditor, YamlFileEditor, Motd, and their routes | extends `PanelRequests` |
| `Explorer` | SftpManager, FileEditor, `sftp.routes.ts`, the operations of `sftp.service.ts` and `sudoFs.service.ts` | extends `PanelRequests` |
| `LuckPermsTab` | the LuckPerms tab, `luckperms.routes.ts`, the calls of the REST API | extends `PanelRequests` |
| `LiveSockets` | `useSocket`, `ws/`, the console, script and metrics views | extends `PanelRequests` |
| `PanelLists`, `PanelFiles` | constants, and their assumptions, of the tabs in `Panel` | lists, editors and live views; files and LuckPerms |
| `Panel` | one tab at a time, calm or not | extends the two before |
| `MCJsonStore`, `MCUsersService`, `MCScheduler`, `MCConnections`, `MCChannels`, `MCPanel` | the constants of the runs, and nothing else | their module |
| `JsonStore_proof`, `UsersService_proof`, `Scheduler_proof`, `Connections_proof`, `Channels_proof` | theorems | each extends its component |
| `PanelLists_proof`, `PanelFiles_proof` | lemmas about the tabs | each extends its module |
| `Panel_proof` | theorems about `Panel` | extends the two before and `Panel` |

How state and actions correspond to the code:

- An action is a piece of code that runs without an `await`: an event listener, a
  timer callback, a route handler up to its first `await`, and what follows each
  `await`. Everything such a piece calls synchronously is in the action.
- **Connections.** `conn[c]` is the client object of attempt `c`, and `c` also
  names the promise that attempt made, so `promise` is `connectPromise` and
  `client` is `this.client`. `stripped` are the clients whose listeners
  `handleDisconnect()` removed. `handleDisconnect()` is not told its client in the
  code, and `HandleDisconnect` takes no argument. An `error` that meets no listener ends
  the process (`alive`); nothing in `index.ts` catches it.
- **Console.** A slot of `run` is one call of `follow()`; `confirmed` is the local
  variable of that call. Lines have a kind, not a text. A container that is
  not running still has a log: docker prints its tail and exits.
- **Scripts.** `remote` is apart from `state`: the process on the server and the
  channel to it end at different times.
- **Accounts.** Records are objects shared by reference (`user`), `users` is the
  array; a save that has not produced its text yet holds the array by reference
  (`live`), or one that `remove()` has replaced since (`old`). Permissions are all or
  some, a root is null or a directory; a record of an older file may lack either. The
  start-up is one of the requests (`Boot`): what it seeds or migrates is in memory before it is
  saved, the server listens meanwhile, and requests wait for the load and for the save of a
  migration, not for the one of seeded accounts (nobody awaits `seedIfEmpty()`,
  `index.ts:78`). When the start-up's save fails, the process ends.
- **Scheduler.** A task has its cron expression, which is not interpreted: an armed task
  may fire at any time, and `handles` has the expression `node-cron` fires it by. `busy` is what
  `scriptsService.run()` looks at. A save takes three steps, as in `writeJsonFile()`: it holds
  `this.tasks` (`live`) or an array that `delete()` has replaced since (`old`), makes its text
  after the `await` of `mkdir` (`Stringify`), and lands. It may reject at any of them, a lone save
  too: then a request answers with an error, a run by hand has no audit entry
  (`scheduler.service.ts:139`), and a firing ends the process, because nobody awaits its
  `execute()`. A start whose file cannot be read ends the process as well.
- **Store.** Names are bound to inodes: a writer goes on writing to the inode
  it opened after someone renamed it. A text is a version and a length, and parses when
  they agree.

- **Requests of the panel.** A slot of `calls` is one request of a tab: `sent` by
  the handler that ran up to its `await api...`, `answered` by the backend (with
  its effect on `server`), and free again when what follows the `await` has run.
  A handler that goes on with another request keeps its slot. A form save reads
  and then writes the file, a LuckPerms route changes and then reads: two steps each
  (`"read"`, `"changed"`); the other routes take one, and may fail half way. `view` is the mounted component: its `useState` values and
  the dialog that is open. `page` says which tab it is; a tab that is left is unmounted,
  and its answers change nothing, so one mounted tab is enough.
- **Lists.** A row is a player, a backup, a task, a jar or an account, reduced to
  the fields its handlers tell apart; `busy` holds the keys that disable buttons.
  `server.stale` is an operator level, or a YAML file, that waits for a restart.
- **Files.** `Explorer` has paths as sequences of names, normalised as the code does;
  `EditorTabs` has a file as its lines, a key and a value each. A drop uploads one file or two, and
  the route writes them one after the other: what is written stays when a later one fails.
- **LuckPerms.** Nodes are a permission, a prefix, a piece of metadata, parents (of groups and of the
  user), and the weight and the display name of a group, each of which is replaced by two requests.
  Where the backend has no address of the API (`unset`), there is no Retry. A panel has its entity as its key, so a selection mounts another one,
  and `mounted` says whether an answer still has one to be shown in.
- **Live views.** A slot is a WebSocket with its messages under way; `mine` is
  whether its handlers belong to the hook that is mounted.

A comment that begins with "Slip" stands before an operator that is not the code: a
plausible mistake in the definition after it. Each property has one that breaks it.

## 3. Runs

| Run | Distinct states | Asks |
|---|---|---|
| `Store` | 370,000 | Is a save atomic when saves of the file do not overlap, whatever crashes or fails? Does the document ever go missing when they do? |
| `Users` | 2,350,000 | Is an admin left, are admins unrestricted, are names unique, over requests, failed saves, restarts, seeding and migration? |
| `Connections` | 240,000 | Is each connection single, retried while down, not dropped by an older client's events; does it come back, and is every caller answered? |
| `Channels` | 260,000 | Does the console have one follower, a true status and true notices, and come back? Do scripts run one at a time and never block for ever? |
| `Tasks` | 1,640,000 | Does node-cron fire what is enabled, by the expression it has now, and does the file follow memory, over failed saves and restarts? |
| `Panel` | 2,240,000 | Does a settled tab show what the server has? Does a save change only what was edited, where it was read? Is there one request per row, one socket, one weight, the right panel, and does a confined account stay in its root? |
| `StoreCrash` | violation | finding 1 |
| `UsersSameName` | violation | finding 2 |
| `SshKeyFault` | violation | finding 3 |
| `TasksIgnored` | violation | finding 4 |
| `ConsoleStopped` | violation | finding 5 |
| `PropertiesStale` | violation | finding 6 |

**Worlds.** What holds depends on what the surroundings do, so a variable is chosen at
the start and never changes. In `JsonStore`, `UsersService` and
`Scheduler`, `concurrent` says whether saves, requests or operations may overlap.
The code does not serialise them, so both happen; `Serial...` properties are
claimed when they do not overlap, the others always. That is all `Serial...` means:
a lone save or request still fails at any step, and the process is killed and restarted, in
both worlds. (So `SerialPersistedWhenQuiet` has to except the time after a save that rejected, in
which memory has a change the file lacks; a restart then brings a deleted task back.) In `Connections` and
`Channels`, `world` names a service and an assumption:

| World | Assumption | What is claimed |
|---|---|---|
| `ssh`, `sftp`, `rcon` | an attempt ends with `ready`, `error` or a rejection, `close` comes with `error` | everything |
| `ssh late close` | `close` any time after `error` | retried; waiters have an attempt |
| `sftp channel` | the channel is refused or closes alone | retried; waiters have an attempt |
| `rcon lingering` | a rejected `connect()` leaves its socket open | retried, waiters, comes back, callers answered |
| `ssh unreadable key`, `sftp unreadable key` | reading the key file may throw; `SshKeyFault` is finding 3, and `sftp.service.ts:80-85` is written alike | types |
| `ssh any`, `sftp any` | everything the modules can do, silent closes and throws included | types |
| `console` | `close` with `error` | everything |
| `console late close` | `close` any time after `error` | notices agree with the status |
| `scripts` | a script ends with its channel | everything |
| `scripts detached` | it may go on, `close` may be late | never stuck |

In `Panel`, `calm` says whether one person works alone, answers arrive in the order
they were given and a form is left alone while it is being submitted. Every tab is
run both ways (the live views have no such assumption, and are run once). Without
`calm`, answers overtake each other and are lost after their effect, and others change
the server at any moment.

| Claimed in every world | Claimed when calm |
|---|---|
| `OneRequestPerRow`, `RenamesStayInDirectory`, `ShownIsSelected`, `OneSocketOrTimer`, `ConfinedToRoot`, `FormSaveWritesOnlyEdits` (YAML and MOTD), and `SettledViewIsTruth` of the live views | `SettledViewIsTruth` of the other tabs, `RestartAnnounced`, `SavesGoWhereLoaded`, `OneWeight`, `WholeSavesKeepEdits`, `FormSaveWritesOnlyEdits` of server.properties |

What happens in the worlds where a property is not claimed: a late `close` of an
SSH client drops the client that replaced it (`ssh.service.ts:97`); a refused or
closed SFTP channel leaves a connection nobody ends (`sftp.service.ts:56`, 69), and
its later `error` ends the process, because its listeners were removed
(`sftp.service.ts:93`); the lingering RCON socket makes a working client forgotten
when it ends (`rcon.service.ts:62`); a silent close before `ready` leaves
`connectPromise` pending for ever (`ssh.service.ts:84`, `sftp.service.ts:69`); two
followers of one log (`gameConsole.service.ts:105`); two scripts at once on the server
(`scripts.service.ts:98`); with overlapping requests and a failing or stale save,
`users.json` may lack an admin after a restart (`users.service.ts:188`); with
overlapping saves `scheduled-tasks.json` may keep the older one.

And in every world: a run whose save rejects has no audit entry, or the process ends
(`scheduler.service.ts:139`), although "every run" is said to show up in the audit log
(`README.md:614-617`). No property claims it, since one that excepted such runs would only restate the
two lines of code; it is a hazard in `PROJECT.json`.

And in the panel without `calm`: a list whose answers overtake each other shows the
older one until it is loaded again; of two files opened at once the first text stays
and is saved under the second path, because the editor has no key
(`SftpManager.tsx:367`); a weight whose answer is lost is added again by the
retry (`GroupInfo.tsx:42`); a deletion, a creation or a lookup that ends late changes
whatever is selected by then (`LuckPerms.tsx:78-110`); the end of a submitted task
form closes the form that was opened since (`TaskFormModal`); what is typed while a
save is under way is overwritten by its answer.

Behaviour of the editors a reader should know. `FormSaveWritesOnlyEdits` says what a save does to
the values of the file: those of edited rows that are still in the form when it is saved, and whose
key stands once, become what was typed, and every other value stays. So it says, too, that "Remove"
in the properties editor removes nothing, since `applyProperties()` keeps a key that is missing
from the form (`PropertiesEditor.tsx:53`), and that an edit of a key that occurs twice has no effect:
the first line is changed while the last one counts (`propertiesFile.ts:37`). Both saves are
reported done. `README.md:639-644` speaks of rewriting lines and adding properties only, so they are
hazards in `PROJECT.json` and not findings.
Saving one mode discards what was typed in the other. Of the file manager: a file that is
dragged into another directory while it is being opened, and then saved, is created
again under its old path, and no listing shows it, because a save lists nothing
(`FileEditor.tsx:43-54`); until the next listing the tab does not show the server, and
`SettledViewIsTruth` says so (`half`).

**Bounds.** `MaxFaults` 3 lets a failure meet the recovery from one before it, and a third
meet both; four attempts are more than are ever alive at once in the steady worlds, and two
callers are enough for one to wait and one to work. `MaxBackoff` 3 (7 in the code) reaches the cap. Three
slots hold an old channel, its successor and a third. `HistorySize` 2 (1000 and
500 in the code) makes the ring full. Four saves by two writers let each save meet the leftover of
another and a shrinking text follow a longer one (`Size`). Three admin requests
(`MaxActs`) by two slots over four ids and three names: the shortest way to lose
an admin takes two. Three task changes (two when operations overlap) over two tasks and two
expressions let one be created, edited and deleted while the other runs. Ids, operations and
expressions of tasks are alike, and so are the requests and the unused ids of accounts: there TLC uses
symmetry, with safety properties only. In the panel a person
does three things when calm and two otherwise, when others may do one of them
(`MaxActs`; the live views count mounts, breaks, restarts and lines, and get
seven), with two requests in flight (`Slots`): a first load, an operation and its
reload, an overtaking one. Two rows, keys, groups, weights and names are the
least in which one can be taken for the other; the files of the editors have
no line; two keys and a line that is none; and one key twice. At the start the track has
a group with a weight (`MCApi`): a weight that is replaced and a track that is emptied
would each take the person more steps than there are from an empty server. Histories keep one
line and views two, so both are full after three.

**Deadlock** is checked in `Users`, `Channels` and `Tasks`. In `Store` the service may be
broken for good by a file that does not load, and in `Connections` the process may
end and, with a silent close, nothing may be left to do: there the system stops.
In `Panel` and `PropertiesStale` a tab rests once the person has done what `MaxActs` allows.

**Fairness** is weak, per action, and never on a fault. Timers fire (`setTimeout`); a server
that is reachable answers a connection attempt, once the bounded faults are spent; a
command, an operation or a reply ends (rcon-client times each packet out); `rcon-client`
rejects `connect()` after its own timeout; a channel that failed closes; a
stopped container is started again. Scripts end: that is an assumption about the
scripts, without which `running` stays set rightly.

**Findings.**

1. `StoreCrash`: `writeJsonFile()` names its temporary file after the process
   (`jsonStore.ts:33`), so two saves of one file write into the same one; a crash after the
   first rename leaves an unreadable document, against the comment at
   `jsonStore.ts:29`. Every later start fails to load it.
2. `UsersSameName`: `create()` awaits `bcrypt.hash()` between the check of the name
   (`users.service.ts:159`) and the push, so two requests create the same account twice.
3. `SshKeyFault`: when reading the key file throws, the executor clears
   `connectPromise` (`ssh.service.ts:89`) and the assignment around it then stores the
   rejected promise: the service never tries again, against `README.md:1593-1598`.
4. `TasksIgnored`: `scriptsService.run()` ignores a restart while a script runs and returns
   nothing, and the scheduler records "Triggered the restart script"
   (`scheduler.service.ts:127`), against `README.md:614-616`.
5. `ConsoleStopped`: the tail of a stopped container confirms the channel
   (`gameConsole.service.ts:91`): the backoff never grows, and "reconnected" and "lost"
   alternate, against the comment at line 147 and `README.md:494-498`. The property
   (`ResetOnlyWhenProven`) allows a reset by a running container, and by a channel that has stayed
   open for `CONFIRM_MS`.
6. `PropertiesStale`: the properties editor sends every property as it was loaded
   (`PropertiesEditor.tsx:78`), so a save undoes what somebody else has changed since,
   against `README.md:644`: "Saving only rewrites the specific lines that changed".

## 4. Theorems

Proved by TLAPS for all values of the constants that satisfy the modules' `ASSUME`s, which TLC
evaluates on the instances of the runs. Every theorem states a property that a run
checks, or the part of one that is about one tab; the invariants below it were checked
with TLC before they were proved.

`JsonStore_proof`:

- `TypeCorrect` and `Stays`: `[]TypeOK` and `NeverVanishes`, for every interleaving: a
  rename replaces the name and nothing removes it.
- `Uncorrupted` and `Durable`: saves one at a time, `[]SerialNeverCorrupt` and
  `[]SerialAcknowledgedSurvives`. The invariant `Serial` says which inode is whose: the one the
  document names is not the one being written (`Apart`), and how far the save is says
  what the latter holds (`Step`).
- `Implements`: under the same assumption `SerialImplementsAtomicStore`. Each step maps to a
  step of `AtomicStore` (the rename is the commit) or to none.

`UsersService_proof`:

- `Unrestrained`: `[]AdminsUnrestricted`, for every interleaving. The invariant
  `Guarded` carries it to where an admin may come from: records being created, texts
  about to land on disk, and objects removed from the array but still referenced. The
  shape of all of them (`Shape`) is an invariant of its own, on which it rests.
- `LastAdmin`: `LastAdminStays`, for every interleaving. Each guard is checked and used
  in one piece without an `await`, and a record never leaves memory while one may point to it.
- `NeverLockedOut`: with requests one at a time, `[]SerialSomeAdminRemains`, restarts
  included. The invariant `Serial` says that at most one request is in progress, and that
  the file and every text to be saved have an admin.
- `TypeCorrect`: `[]TypeOK`, which takes the shape of the requests on top of `Shape`.
- `Unambiguous`: with requests one at a time, `[]SerialNamesUnique`. The invariant
  `Named` says it of the file and of every text to be saved too, and that a record
  being created has a name nobody has. The theorem assumes that neither an older file nor
  `USERS` has a name twice, and needs it: `parseUsers()` (`env.ts:67-95`) accepts a name
  that is listed twice, and both accounts are seeded.

`Scheduler_proof`:

- `TypeCorrect` and `HandlesRight`: `[]TypeOK` and `[]HandlesMatchTasks`, for every
  interleaving and over rejected saves: what is armed, and by which expression. The invariant `Armament` adds that operations refer to objects there are:
  one that outlives its task writes it, and arms nothing.
- `Persisted`: `[]SerialPersistedWhenQuiet`, operations one at a time, over saves that
  reject and restarts. The invariant `Serial` says what the save in flight has, or will have, to
  write, and that only a rejected save lets the file fall behind.

`Connections_proof`, for each of the three services in the worlds of the table above:

- `TypeCorrect`: `[]TypeOK`, in every world.
- `Retried` and `Awaited`: `[]DownIsBeingRetried` and `[]WaitersHaveAnAttempt`. Neither is
  inductive: that the attempt in `promise` is still on its way has to be known of any promise,
  not only of one that callers or a down service wait for. The invariant `Retrying` says for
  each service that a promise is an attempt that is connecting (`SshPromised` and its like;
  for RCON one may also have ended and still have to reject), that a waiter waits
  for such an attempt, and that down means the timer or a promise.
- `Single` and `OnlyLost`: `[]SingleConnection` and `OnlyLostConnectionsAreDropped` in the steady
  worlds. The invariant `Steady` says which attempt is which: what connects is `promise`,
  what is ready is `client`, and never both; so an event can only be of the client in use or
  of the attempt, and an attempt means there is no client.

`Channels_proof`:

- `TypeCorrect` and `NoticesRight`: `[]TypeOK` and `[]NoticesMatchStatus`, late closes included.
  The invariant `Notices` adds that a cleared `lastError` means "lost" is not the last word.
- `Follower` and `StatusRight`: with `close` at `error`, `[]OneFollower` and
  `[]StatusTruthful`. With the absence of channels that failed and still report
  (`ConsoleSteady`) the two are inductive together, and not apart: the one follower that ends is
  the only one with a confirmed channel.
- `OneScript`: where a script ends with its channel, `[]OneScriptAtATime`. The invariant
  `ScriptsSteady` says that what runs on the server runs under an open channel, that there is one
  channel at most, open or about to be, and none while nothing is `running`.

The panel, for every number of slots, rows, files, keys, groups and messages. `Panel` is a
sum of five tabs, so a theorem is proved from an invariant of each tab it is about, and lemma
`OneTab` says that a step of the panel is a step of the tab at hand. The theorems are in
`Panel_proof`; the lemmas about lists, editors and live views are in `PanelLists_proof`,
those about the file manager and LuckPerms in `PanelFiles_proof`.

- `RowsLocked`: `[]OneRequestPerRow`. The invariant `Locked` says that a request
  about a row holds the row's key, that no two hold the same, and that the key of
  the question in the dialog is free.
- `RightPanel`: `[]ShownIsSelected`. The invariant `Keyed` says that a
  request whose answer would be shown is about what is selected: each change of the
  selection unmounts the panel.
- `SingleWeight`: `[]OneWeight`, when calm. (Display names are saved by the same code and are in
  the model; that a group has one at most is not claimed.) That a group has one weight at most is safe
  only as long as the panel that replaces or adds one knows the one there is, through a
  selection, a creation, a deletion and reloads that answer in between. The invariant
  `PermSolid` has four parts. `PermLocks` says who is at work: one creation, deletion or
  lookup at a time, one request that changes the weight or the track per panel, its key in
  `busy`; and a load under way while a panel is loading. `PermTruth` says that every document that
  is shown, or on its way in an answer, has the weights of the server (all of it, for a
  track); or the entity is being deleted or created, or an answer that comes later in
  the queue, or a change that is not answered yet, corrects it. So a request about a weight
  that is still to be served was made from what the server has (`PermFits`), and it leaves
  one weight (`PermOneEach`). `PermShelved` says the same of the list of groups and the track
  in the sidebar; `PermShaped` that a panel has nothing else. Each is carried by six
  kinds of step to which every action of the tab is reduced (`PermCalmSteps`).
- `ViewsSettle`: `[]SettledViewIsTruth`, when calm, of every tab. None of the five is inductive:
  while something is under way a view may be wrong, and the invariant says what will
  correct it.
  - Lists: `ListCurrent` says of every row and flag that is shown, or on its way in an answer, that
    it is what the server has, or a load is under way that will bring it, or an answer behind it
    in the queue brings the part again or says that it changed. `ListLoaded` says of the users tab,
    which shows an account from the answer to its change, that one load is under way at a time
    and that a change is about an account that is shown; `ListRunKeyed`, what the backups' button stands for; and
    `Locked`, that a row's change is alone.
  - Editors: `Current`, the invariant of `FormWritesOnlyEdits` below, says it of the file.
  - File manager: `FileFresh` says of a listing that is shown or in an answer that it is what
    the disk has at its path, or a listing is still to be served, or an answer behind it says that
    something changed. `FileSaving` says that one save at most is under way, and that the editor waits
    for it; `FileNamed`, that what is listed, read and written has no "..". (A save that creates an entry
    which no listing shows is the exception that `half` records.)
  - LuckPerms: `PermSolid`.
  - Live views: `LiveTelling` says of a socket that is open that what is shown, with every
    message under way heard in turn, is a run of lines without a gap that ends with the last line
    emitted, and that the status heard last is the server's. A view keeps more than one line
    (`HistoryAssumption`), as they all do.
- `WholeSavesUndoNothing`: `WholeSavesKeepEdits`, when calm. For tracks it is `PermSolid`. For tasks
  `ListForms` says that a form that is open is alone, and that a toggle still to be served has
  the text the server has; `ListBehind`, that where a list shows another text, the answer to
  the request that changed it is still behind it, so the row is busy and has no toggle.
- `RenamesStay`: `[]RenamesStayInDirectory`, of renames (moves choose their directory). What is
  typed may have dots, and leads where they lead. The invariant `Pathed` has, of every entry shown, asked
  for, or on its way in an answer, that it is in the directory it was listed in, and that
  a call still to be sent goes where its source is.
- `Scoped`: `ConfinedToRoot`. `scopedPath()` lets through what is under the root after
  normalisation, and an operation, whole or stopped half way, changes only what is under the paths
  it is given; so the lemmas are about `Normalized` (it has no ".."), about prefixes, and
  about a tree of which a part is moved (`FileIsMoved`).
- `SavedWhereLoaded`: `[]SavesGoWhereLoaded`, when calm. The invariant `Edited` says that one
  file is being read at a time and the editor is closed meanwhile.
- `FormWritesOnlyEdits`: `FormSaveWritesOnlyEdits`, removed rows and repeated keys as said above. The invariant `Current` says what a form on its way to
  the server has to do with the file: what was not edited agrees with the file as it is, or
  (YAML and MOTD) is not sent; it takes the shape of the form (`Filled`) and that loads and saves
  exclude each other. What `applyProperties()` does to a file with doubled keys is a lemma.
- `RestartShown`: `[]RestartAnnounced`, when calm. The invariants (`ListAnnounced`, `Announced`) say of
  a server that waits for a restart that the banner is shown, or will be by an answer
  under way, and that no answer of a restart comes after it. They rest on `Queued`: when calm the
  answers under way are in the queue, each once.
- `OneAtATime`: `[]OneSocketOrTimer`; with the states of the sockets (`Sockets`) it is
  inductive.
- `TypeCorrect`: `[]TypeOK` of the tab at hand.

What the theorems assume of the constants is in `PanelRequests`, `PanelLists` and `PanelFiles`:
there is a slot; the administrator has a row; a form that is closed or new is open for no row; the
fields of a form are finitely many, a file is a sequence of lines and broken text is none;
histories have a length, and a view keeps two lines or more; the root of an account is a path without "..", a tree of files has its
directories, ".." is no entry of it and a directory no text; the groups, the track and the user are different, and a
weight is no other node; what is gone is no document; at the start the API has one weight per group at
most. None of them is a bound, and the code keeps each.

**What is only model-checked.** Liveness (`Reconnects`, `CallersAnswered`, `FollowsAgain`,
`ScriptsEnd`) rests on fairness, which is out of the prover's reach. Every other property of a
passing run is a theorem. The six properties that the code violates are shown by
counterexamples of TLC.
No module uses RECURSIVE operators, and the proofs do without induction over data: where a statement is
about every position of a queue or every part of a path, the proof takes the least one for which
it fails.

## 5. What is not modelled

- The terminal (`ws/sshSocket.ts`, a pipe between a socket and a shell), the plugin
  store (a catalogue that is read), downloads (streams without state), charts,
  previews, toasts, spinners, types and styles.
- Login, the token and the permission each path asks for: every tab is modelled for an
  account that may see it, and admin requests check the account in `UsersService`.
  That a socket outlives its account (`ws/index.ts:53`) has no property: no step of
  the code would close it.
- The restart banner of the plugins tab (`Plugins.tsx:16-24`), which the plugin store shares: nothing in
  the model says which plugins wait for a restart.
- The metadata cache of the plugins, zip files, the Modrinth client, the list of the audit
  log and its other callers, what the metrics measure.
- A LuckPerms body that never comes (`luckperms.service.ts:68`): in the model it is an
  answer under way, which may be for ever.
- Texts, wording and logs; shell quoting; a power cut that loses completed writes; the content
  of commands and replies; JSON that parses but has another shape; the shutdown at
  SIGTERM, which to the modules is a crash.
- The development build, in which StrictMode mounts every hook twice.

## 6. Plan

What is left, in order of importance:

1. Compositions: scheduler, script runner and SSH connection together; console
   and SSH connection, where a lost connection is what closes the channels.
2. `RemoteEdits`: the read and the write of the whitelist and the operators by two
   requests and the game server.
3. `PluginCache`: list, toggle and replace over the metadata cache; `AuditLog`: the
   bounded list over concurrent records.
4. `Sessions`: login, tokens and permissions, accounts removed under an open socket.

Runs stay small: one MC module for each group of components that share constants, with
worlds as above. `Panel`, the largest, takes two to three minutes.
