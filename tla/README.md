# A TLA+ verification of HopToDesk

HopToDesk is a remote desktop program. A controlling computer (the *client*)
connects to a controlled one (the *server*); both are the same program. This
directory holds TLA+ models of the controlled side's core and of the protocols
it takes part in, the TLC configurations that check them on small instances, and
TLAPS proofs of the safety properties of all ten systems modelled, for
instances of any size.
Paths below are relative to the repository. The build modelled is the one for
FreeBSD: the `unix` branches, without the feature `flutter`.

## 1. The system

### Components, their state and their operations

| Component | Source | State | Operations |
|---|---|---|---|
| Service framework | `src/server/service.rs` | per service: `subscribes`, `new_subscribes`, `active`, the thread's position | `on_subscribe`, `on_unsubscribe`, `is_subed`, `snapshot` with `ServiceSwap`, `send_shared`, the loops `repeat` and `run`, `join` |
| Server registry | `src/server.rs` | `Server::{connections, services}`, `CONN_COUNT` | `add_connection`, `add_camera_connection`, `remove_connection`, `subscribe`, `capture_displays`, drop |
| Video capture loop | `src/server/video_service.rs` | encoder, `OPTION_REFRESH`, `VideoFrameController` | one loop per display: create the encoder, capture, snapshot, encode, wait for the connections |
| Quality of service | `src/server/video_qos.rs` | a common frame rate, delays and limits per viewer | delays measured or overdue, options, the loop's update |
| Connection | `src/server/connection.rs` | login state, kind, permissions, options, subscriptions, voice call | one `select!` loop: messages of the peer, of the connection manager, timers |
| Connection manager | `src/ui_cm_interface.rs`, `src/ui/cm.rs` | `CLIENTS`, one `IpcTaskRunner` per connection | shows connections, lets the user accept, refuse, switch permissions, answer calls; writes uploaded files |
| Authorized connections | `mod raii` of `src/server/connection.rs`, `src/server/display_service.rs` | `AUTHED_CONNS`, `WALLPAPER_REMOVER`, `CHANGED_RESOLUTIONS` | `AuthedConnID::new` and its drop, change of a resolution |
| Print service | `src/server/printer_service.rs`, `src/platform/linux.rs` | `PRINT_SERVICE_RUNNING`, `PIPE_STOP_TX`, the server thread and its socket | start, stop |
| Port forwarding | `src/port_forward.rs`, `try_port_forward_loop` of `connection.rs` | the state of both ends of a tunnel | login, change to raw bytes, forward |
| File transfer | `libs/hbb_common/src/fs.rs`, `src/client/io_loop.rs`, `connection.rs`, `ui_cm_interface.rs` | a job that reads and one that writes, files with `.download` and `.digest` | digest, decision, block, done, cancel, resume |
| Terminal | `src/server/terminal_service.rs` | `TERMINAL_SERVICES`, sessions with a shell, its reader and writer threads | login, open, data, close, read outputs, clean up |
| Privacy mode | `src/privacy_mode.rs`, `src/privacy_mode/linux.rs` | the connection that turned it on, brightness and devices as they were, a watchdog process | turn on, turn off, restore after a crash |
| Link to a dashboard | `connection.rs`, `src/dashboard.rs`, `src/ui_cm_interface.rs` | the pending invite code, the linked account, the thread's socket | request, dialog, answer, timeout, enrolment, unlinking |
| Sessions, login failures | `src/server/connection.rs` | `SESSIONS`, `LOGIN_FAILURES` | lookup, update and removal by connections |
| Client session | `src/client.rs`, `src/client/io_loop.rs` | the controlling side of all of the above | |
| Rendezvous, TURN | `src/rendezvous_*.rs`, `src/turn_client.rs` | registration, the candidates of a connection | register, offer, connect |
| User interface, IPC, MCP, configuration, platform, vendored libraries | see `PROJECT.json` | | |

### How they interact

* Every connection is a tokio task of a multi-threaded runtime; tasks run in
  parallel. Every service has a thread of its own.
* Connections call the registry under its write lock. Services reach a
  connection through its channels (`ConnInner::send`), never through the
  registry; a service's two maps are behind a lock of their own.
* A connection and the connection manager are two processes joined by an IPC
  stream. Each has its own idea of whether the connection is authorized, in a
  call or asking for a link; each changes it when it reads the other's message.
* All connections share globals behind separate locks: `AUTHED_CONNS`,
  `WALLPAPER_REMOVER`, `CHANGED_RESOLUTIONS`, `VIDEO_QOS`, `PRIVACY_MODE`,
  `TERMINAL_SERVICES`, the print service, `SESSIONS`.
* Some state is outside the process and outlives it: brightness and input
  devices (the X server's), files and their parts, the dashboard's record.
* The two ends of a session talk over one ordered stream; when it is lost the
  client may come back on another.

### What is hard, and what is correct

Hard to test are the interleavings of the above: a swap of a service's maps in
the middle of a call on the registry; a subscriber that joins, leaves or asks
for a refresh anywhere in the capture loop; messages of the two processes that
cross; the last session's clean-up while another logs in; the change of a stream
from messages to raw bytes; a transfer that is broken off and resumed; a terminal
two connections share; the process's death between two commands; a file that
cannot be created after another was finished; an answer that meets its timeout;
rates that depend on each other. `hazards` of `PROJECT.json` lists them at the
line where they bite, with the property that would catch them.
The components are correct if

* services: a subscription that was asked for is in force, a removed connection
  is gone for good, no subscriber sees an older state after a newer one, a new
  subscriber is served, and the server can be dropped;
* video: a connection that joins others begins with a key frame, a request for a
  refresh is not lost, a client that cannot decode recovers;
* quality of service: nobody gets more than its network or its limit allows, and
  the rate recovers when the networks do;
* connection: the subscriptions follow the permissions and options whatever
  the order of their changes; the camera's sound is heard only in a call;
  the connection manager shows the connection, its call and its end as they are;
* authorized connections: what they share is released with the last one, and the
  display goes back to its user's resolution;
* port forwarding: bytes and messages are never taken for each other;
* file transfer: nothing but a whole file gets a file's name, what the user keeps
  is kept, what is reported as done is there, jobs end;
* terminal: no shell is left behind, the output comes before the end, no call
  waits for ever;
* privacy mode: the screen is dark while it is on, and as it was afterwards, even
  if the process dies;
* dashboard: the computer is linked to an account its user agreed to, and whoever
  asks is answered unless the server keeps the connection waiting for ever.

## 2. Modules

| Module | Models | Checked by | Proved in |
|---|---|---|---|
| `Service` | registry and service framework, one step per lock | `MCService.cfg` | `ServiceProofs` |
| `VideoService` | the capture loop of a display with its subscribers | `MCVideoService`, 2 configurations | `VideoProofs` |
| `Connection` | one connection and the connection manager | `MCConnection` | `ConnectionProofs` |
| `SharedResource` | abstract: a thing that sessions share | as properties of `AuthedConns` | `ConnectionProofs` |
| `AuthedConns` | authorized connections, wallpaper, resolutions, print service | `MCAuthedConns.cfg` | `ConnectionProofs` |
| `PortForward` | both ends of a tunnel | `MCPortForward.cfg` | `TransferProofs` |
| `FileTransfer` | both ends of the jobs that copy files | `MCFileTransfer` | `FileTransferSteps`, `TransferProofs` |
| `Terminal` | terminals with their shell, threads and clean-up | `MCTerminal` | `TerminalProofs` |
| `PrivacyMode` | privacy mode, its X11 implementation, the watchdog | `MCPrivacyMode.cfg`, `MCPrivacyModeOther.cfg` | `PrivacyModeProofs` |
| `Dashboard` | the link to a dashboard | `MCDashboard.cfg` | `DashboardProofs` |
| `VideoQoS` | the frame rate | `MCVideoQoS` | `VideoProofs` |

Definitions carry the names of the source where they can; `map` in
`PROJECT.json` gives the lines of each. An operator whose name ends in
`_Something`, next to the definition it varies, is a mutant: the definition with
a plausible mistake, which the property named with it in `PROJECT.json` detects.

### Service

A call on the registry holds its write lock, so calls run one at a time: `call`,
`caller`, `todo` and `item` say which one and how far it is. The service's
thread never takes that lock; both sides reach the service's maps through the
lock of `ServiceInner`, and one action is one acquisition of it. `is_subed`
takes it twice and is two actions (`IsSubedSubscribes`, `IsSubedNew`);
`snapshot` reads, sends and swaps in three (`Snapshot`, `SwapSend`, `SwapDrop`).
What a service publishes is a version number; the callback is shaped like
`run_cursor`, the service whose snapshot repeats the last state. `want` (what was
asked for last), `closed` and `remote` are history variables.

### VideoService

The loop of one display: `CreateEncoder`, `ClearRefresh`, `LoopHead`, `Capture`,
`SnapshotCallback`, `SnapshotDrop`, `Encode`, `WaitNext`; the environment changes
displays, codecs and privacy mode and lets capturer and encoder fail. Pictures
are abstracted to whether an encoder's frame is its first, the key frame.
`lag[d][c]` counts the frames on the connection's channel, `notified[c]` the
entries of the channel through which connections tell that they took a frame.
`AckConns` are those that acknowledge by a message (`VideoReceived`). `first`,
`company` and `asked` are history variables.

The wait for a frame (`video_service.rs:831`) can be ended by the late
notification of an earlier frame. It is a matter of pace only: no property here
depends on it.

### Connection

Every arm of the `select!` loop, and every message of the peer that changes
login, permissions, options or a voice call, is one action, because the task
handles one input at a time; a handler's trailing subscriptions are part of it.
A password or code is right, wrong or missing by choice. `to_cm` and `from_cm`
are the IPC stream; `RunnerStep` is the connection manager's reader, and the
user's clicks (`authorize`, `UserClicks`, `remove`, `close_incoming`) may come
whenever the entry is shown. The subscriptions a handler touches are computed by
`OptionServices`, `PermissionServices` and `AudioService`, what they should be by
`Wanted`. Left out: permissions and options that concern no service (files,
restart, recording), the session choice of Windows, the service of the build
option `unix-file-copy-paste`.

A LoginRequest that is handled between the user's click and the arrival of its
Authorize sends the entry of the connection manager a Login that is not
authorized, which its reader takes for a new state (`ui_cm_interface.rs:413`,
`:590`): the entry then says "not authorized" though the connection is. The
model has this behaviour; no property contradicts it.

### SharedResource and AuthedConns

`AuthedConnID::new` and drop as sequences of steps, one per lock, atomic or call
of the system, run by any number of connections in parallel. The options
`enable-remote-printing` and `allow-remove-wallpaper` are on, or the step
fails: `BindFails` and the second outcome of `RemoveWallpaper` are also what
happens when they are off. `servers` are print server threads, named for the
connection that started them; `socket` is the one that listens at the path. A
change of the resolution reads the original, records it unless there is a record
and applies the mode in three steps; the drop restores and forgets in two. The
commands that set a mode take effect in the order in which they are given.
`overlapped` is a history variable: a change was made during a restoration, when
the comment of `display_service.rs:146` no longer holds and an original can be
recorded that is not the user's.

`SharedResource` says what sharing means: a resource is taken for a session, and
whoever leaves either sees another or gives the resource back. `AuthedConns`
implements it twice, with the wallpaper and with the print service's mark as the
resource; `leaving` is mapped to the connections that are out of `AUTHED_CONNS`
and have not yet counted or cleaned up. It promises no more than that: a session
that begins while the last one cleans up may find its wallpaper restored.

A print server that ends late removes the socket of its successor
(`linux.rs:2324`), and a second server started in parallel replaces the handle of
the first, which then nobody stops; the model has both, the mark
(`PRINT_SERVICE_RUNNING`) is right in spite of them.

### PortForward

Two queues between `Connection::start` with `try_port_forward_loop` and
`connect_and_login` with `run_forward`. The loops change from messages to raw
bytes independently. What reaches a forwarded socket is collected in `app` and
`target`; `clicked` is a history variable. After a password login the loop is
left only when no TestDelay is unanswered (`connection.rs:778`); the Authorize
arm (`:537`) leaves it without that test, so a connection accepted by click can
change over with a TestDelay under way, whose reply then goes to the target.
`PasswordLoginIsClean` is stated for the former only.

### FileTransfer

A scenario (`sc`) says which files there are, which way they go, which are at the
destination already and what may happen (loss of the connection, failing files,
cancelling). `rjob[j]` and `wjob[j]` are the two `TransferJob`s with the same id.
A file of size n is the blocks 1 .. n, so a torn or mixed file is seen in `disk`.
A step is a message of the peer, a tick of the file timer or a command of the
user; `Ask` is the dialog, of which there is one: a question replaces an earlier
one (`lost`). `OnSend`, `OnDigest`, `OnCheckDigest`, `OnAsk`, `OnConfirm...`,
`OnBlock...`, `OnDone...`, `OnError...`, `OnCancel` are the handlers of the
messages on either side; `ConnectionLost`, `Reconnect` and `ResumeJob` save, add
and resume the client's jobs.

What the model showed and the properties except, each in so many words:

* An upload is resumed at the reader's `file_num`, so a file before it that was
  still on the way is not sent again: `DoneIsWhole` looks at the files from there
  on (`from`).
* A `.download` left by an earlier, different transfer can be completed and
  renamed (`fs.rs:668`), and so can one that an interruption has left, if the peer
  does not know overwrite detection: nobody looks at it when the job is resumed.
  The properties speak of the other transfers, `Sane`. The jobs, messages and
  types (`FTTypeOK`, `Life`, `Tokens`, `Parts`) are right in all.
* A file that is followed by the marker of an empty directory keeps its
  `.download` (`fs.rs:660`): the marker takes the place of the block with which
  the file would get its name. The same happens when only files lie between them
  that are not sent, because the user keeps them or they cannot be read. Those
  files are `Shadowed`.
* A file that the user keeps may have been copied all the same if it is empty:
  its name is given when the next file begins (`Orig`).
* When the next file cannot be created, `write` has already given the previous
  one its name and moved `file_num` (`fs.rs:668`-`692`), but its stream is still
  the previous file's, and both callers keep the job. The next blocks of the job
  then go behind the data of a finished file. The model has this (`OpenFails`, the
  field `on` of a job that writes, `spoilt` of a file); the properties except a
  file if a later one of the same job failed (`LaterFails`).

What can fail is a step of its own, which puts the file in `faulted`: looking at
the file that is there (`LookFails`; a download is then never answered, of an
upload the client is told, and the job is kept), the digest of a file without a
date (`DigestFails`, repeated at each tick), reading (`ReadFails`), going to an
offset (`Seeks`), syncing the file before (`SyncFails`), removing the `.digest` or
creating the `.download` (`OpenFails`), writing (`WriteFails`). A file that has
failed is excepted from what is said of its contents, its job from `JobEnds`.
Failures that the code drops with `.ok()` (renaming, writing the `.digest`) are
not modelled, nor is a `send_current_digest` that fails now and succeeds later.

Saved jobs are loaded again (`load_last_job`) by the flutter interface only; the
actions are those of the session, whoever calls them.

### Terminal

Connections of one client share a service by its id. A service and a session are
named for the connection that made them, and dropped with their last holder
(`KeptSvc`, `KeptSess`), which stops the session: exit flag, message to the
writer, join of both threads, end of the shell. `Drop` says in four alternatives
what the end of a call drops: the session, which has to be stopped
(`DropStops`); a session with a finished reader that is still to be taken out
(`DropFinished`); the service (`DropService`); nothing (`DropEnds`). Locks that
are held across a call that blocks are variables, so that waiting in a circle
would be seen.
`is_persistent` is FALSE in every call of this program, and
`terminal_service::run`, `set_persistent` and `send_terminal_close` are never
called: these are left out.

Assumed of the system: the reader sees the end of the stream when the shell has
ended, and the shell's terminal echoes (`Echoes`; if it does not, a writer may
stay blocked, and a join with it). The end of a connection removes the service
also when another one has come back to it meanwhile (`message.proto:95`: "Service
ID for reconnecting to existing session"), and a second login with the id makes
the two read the output in turns. The model has both.

### PrivacyMode

A call holds `PRIVACY_MODE` to its end, but screen and devices are changed by
one command after another: `Dim`, `Disable`, `RestoreOutput`, `RestoreInput` are
single commands, any of those of `turn_on_privacy` may fail, and `Crash` may
come between any two. `watchdogs` and `orphans` are the watchdog processes of the
living and of dead processes; `Restart` begins again. `raced` is a history
variable: a new process has looked at the screen before an orphan had restored
it, and takes the dark screen for the normal one. The commands that restore are
assumed to succeed, and outputs and devices neither come nor go. On this platform
there is one implementation, a synchronous one.

### Dashboard

A connection waits for the dashboard's server inside its handlers; one action is
what it does between two waits. `pending`, `to_cm`, `from_cm` and `shown` are a
request on its way to the user and back, `owed` the technicians that have not been
answered. `ReadInvite`, `LinkValidate`, `register_device` and `Linked` are
`link_device`, run by a connection or by the thread of `dashboard::start`, which
then keeps a socket (`Connect`, `CheckUser`) until the server unlinks the
computer.
`file` and `token` are the files an installer may leave (`InviteCode.toml`,
`EnrollmentToken.toml`): a token needs no validation, and only the thread removes
the files. In the settings the thread is started first (`EnterInvite`) and the
option written after it (`StoreInvite`), so the thread may find no code.
`crossed` is a history variable: a click has crossed the timeout of its request,
and is taken for an answer to the next one.

`make_http_client` (`common.rs:957`) limits the time to connect and no more. A
server that accepts a connection and stays silent keeps the handler, and with it
the connection's loop and the timeout of the request. `RequestAnswered` therefore
speaks of a connection that is again and again not at the server (`AtServer`).

The model is of one process that runs the window, the server and the thread
(`core_main.rs:256`-`265`). An installed program has several, each with a
configuration in memory, a `DASHBOARD_RUNNING` and a thread of its own
(`core_main.rs:524`, `:632`), which is not modelled. Nor is that the settings
write all their cached options with the code (`ui_interface.rs:526`).

Seen while modelling: `set_in_session(false)` has no caller; "registered" stores
the account only if there is none; the settings have no command to unlink, which
the dialog ("You can undo this anytime", `ui.rs:2824`) suggests; a code entered
while the thread runs is used after the next start only; a link to another account
leaves the socket of the first until it ends; a failed link leaves `invite_code`.

### VideoQoS

A viewer's share is computed from the common rate and the common rate from the
shares (`adjust_fps`, `Estimate`); delays are integers in ms and keep the
source's thresholds. `test` is the TestDelay under way, `late` after 2 s. The
rates are scaled down (constants), the rules are the source's. The time of a
chosen quality is the number of options changed so far. Two viewers whose
counters of good delays are out of phase never rise above the normal rate
(`video_qos.rs:12` "increase fps"): the common rate rises only when the slowest
share does; `Recovers` therefore speaks of the normal rate. The bit rate ratio,
a floating-point function of the same delays, is left out.

## 3. Runs

Expected to pass:

| Run | Instance | Checks |
|---|---|---|
| `service` | 2 connections, a camera service registered on demand, 3 versions | `ServiceInv`, `RemovedIsGone`, `SubscribeTakesEffect`, `NeverOlder`, `NewIsPromoted`, `DropEnds` |
| `video_safety` | 1 display, 2 connections | `EncoderInv`, `RefreshNotLost` |
| `video_live` | 1 display, 1 acknowledging connection | `Decodes` |
| `connection` | camera, tunnel and remote control, permissions keyboard and audio, an option, voice calls, invitation, switched sides, second factor | `SubscriptionsFollow`, `CallInv`, `EndIsShown`, `CloseEnds` |
| `authed_release` | 2 connections, 2 resolutions, failing binds | `Inv`, `AllReleased`, `ModeRestored`, `WallpaperIsShared`, `PrintingIsShared` |
| `forward` | login by password or by click | `StreamInv`, `PasswordLoginIsClean`, `ForwardingStarts` |
| `file_transfer` | 38 scenarios: one or two jobs in either direction, up to two interruptions, cancelling, failing files, markers, leftovers | `Inv`, `DoneIsWhole`, `KeptAsItWas`, `NothingLeft`, `JobEnds` |
| `terminal` | 2 connections, the clean-up thread, 3 scenarios | `Inv`, `OutputBeforeClosed`, `CallsEnd`, `ShellReaped` |
| `privacy` | 2 connections, 2 outputs, 1 device, a restart | `Inv`, `ScreenRestored`, `OnIsDark`, `CrashRestored` |
| `dashboard` | 2 connections, 2 accounts, 2 codes, a file, a token | `Inv`, `RequestAnswered`, `UnlinkedGoesOffline` |
| `qos` | 2 viewers, one with a network that fails for a while | `QoSInv`, `LimitObserved`, `Recovers` |

The combined invariants (`...Inv`) are conjunctions of the module's `TypeOK` with
its smaller safety properties, each with a comment of its own where it is defined:
`MapsDisjoint` and `ConnCountCoversRemotes`; `SharedEncoder`; `CameraHearsInCall`
and `CallIsShown`; `ReleaseInv`; `NoRawParsed`; `NothingTorn`; `NoShellLost` and
`NothingLeft`; `HolderIsThere`; `LinkedAsAgreed`; `ViewersSpared`. Where there is
a proof, they also contain what makes them inductive (section 4), so that TLC
checks the invariant that the proof uses.

Expected to find a violation, where the source promises what the code does not
keep (`findings` quotes the lines):

| Run | Violated | What happens |
|---|---|---|
| `privacy_other` | `MineUntilIEnd` | a connection whose request to turn privacy mode on is refused, because another has it, turns off that of the other |

### Bounds

* Connections: two are enough for every race between a service's thread, a
  caller and a bystander, because the calls are serialised; what one connection
  does to a third is symmetric. `AuthedConns` passes with three as well (1.4
  million states, too long for a routine run). The proofs have no bound.
* Options and permissions: `disable_keyboard` and the permissions for keyboard
  and audio are those that meet each other, the kind of connection and the voice
  call in one service. The others change one service each by the same
  expressions and are left out of the run.
* `MaxVer` = 2: a version that is shown, one that replaces it and one that
  arrives while that happens.
* `MaxLag`, `MaxNotified`: the largest count stands for itself and all larger
  ones (`More`, `Fewer`), so the bound loses no behaviour of the safety runs.
* `MaxQueue`: a sender waits when the queue is full. One message in each
  direction of the IPC stream lets an answer cross a request; in `PortForward`
  four let a login, a TestDelay, its reply and raw bytes be under way together.
  The channels of the code are unbounded, so a longer queue can occur; what it
  adds is more of the same crossings. The queues of `FileTransfer` have no bound:
  its jobs are finite, and of the errors that a digest sends at each tick one is
  under way at a time.
* `FileTransfer`: files of up to two blocks (a first one and one that an
  interruption or a failure can separate from it), two files (one that is
  finished when the next begins), two jobs (one that takes turns with the other
  or replaces its question). The theorems have any number of jobs, files, blocks
  and losses.
* `Terminal`: `Capacity` = 1, so that every channel is full at once. The
  scenarios combine the calls that meet: one connection with the clean-up thread,
  a second one that takes over the terminal, a second one that closes it.
* `PrivacyMode`: two outputs, so that a command fails or the process dies with one
  of two dark; `MaxStarts` = 2, a crash and a restart.
* `Dashboard`: `MaxInvites` = 2, a request that is answered and one that meets it;
  `InviteCode.toml` names one account and `EnrollmentToken.toml` the other.
* `VideoQoS`: `FPS` = 6, least rates 1, 2 and 3, a window of 2 samples: small
  enough to be enumerated, in the order the source's values have.
* Symmetry over connections is used in `video_safety`, which checks no liveness.
* Deadlock is not checked: all these systems may stop, when every connection
  has gone or a job is done. That they do not stop earlier is what the liveness
  properties say.

### Fairness

* `Service`: a call that has begun goes on, and every registered service's
  thread runs (weak); the callback of a service does not fail for ever (strong,
  `NothingToPublish`): it is repeated every few milliseconds and its errors are
  those of single calls of the platform.
* `VideoService`: threads and connections run (weak); the loop is not left at
  every pass for a change of display, codec or privacy mode or for a failure
  (strong); a client that cannot decode asks for a refresh, as `client.rs` does.
* `Connection`: the connection manager's reader runs (weak), and the
  connection's loop reads the messages of the connection manager (strong):
  `select!` chooses at random among the ready inputs, and the bounded queue of
  the model may make a handler wait that does not wait in the code.
* `AuthedConns`: a drop that has begun goes on (weak): it waits for nothing but
  locks that are held for a moment.
* `PortForward`: both loops read what arrives (weak).
* `FileTransfer`: both sides read what arrives and their timers tick (weak); a
  question the user sees is answered in the end (weak), since a job waits for the
  answer without a limit.
* `Terminal`: reader and writer run (weak); a call that waits for a lock that is
  free again and again gets it, and so does the timer (strong): the locks are
  `std` mutexes and `try_lock` of a timer that ticks for ever.
* `PrivacyMode`: a watchdog looks once a second, and its commands end (weak).
* `Dashboard`: handlers, timers, the connection manager's reader and the thread
  go on (weak). None for the user, and none for the calls to the server, which
  need not return.
* `VideoQoS`: the loop, the timers and the clock go on, and a viewer that stays
  answers (weak).

Nothing else is assumed of users, of peers or of what fails.

## 4. Proofs

`tlapm` checks every proof. The theorems have none of the bounds of section 3:
they hold for any sets of connections, services, displays, outputs, devices,
accounts, jobs, files and option messages, and for queues and counts of any size.
Every module's argument is the same: the inductive invariant holds initially,
each action keeps it (one step per action), and the property follows from it.

The assumptions are those on the constants, one named `ASSUME` per module, which
TLC evaluates in every run: sets of connections are finite where they are
counted, a constant that stands for "none" or for a thread is not a connection,
and bounds are natural numbers, not zero where a queue or a count needs room.
In `FileTransfer` the jobs are finitely many, and the constant for "no file" is
not a sequence of blocks. `"reaper"`, the name of a thread, is not one of the
actors of `Terminal`: with a connection of that name a shell given to the reaper
would count as its own.

`ServiceProofs`

* `TypeCorrect`: `Spec => []TypeOK`. `TypeOK` alone is not inductive: a step of
  a call is typed because its caller is a connection. `IndType` adds
  `CallerOpen`, that a call in progress works for a connection not yet removed.
* `Disjoint`: `Spec => []MapsDisjoint`. `MapSteps` shows that all steps change
  the maps by one of three operations, each of which keeps them apart.
* `Removed`: `Spec => []RemovedIsGone`. The strengthening `IndRemoved` says how
  far `remove_connection` has come: the services it is done with do not hold the
  connection, and nor does a service that is not registered (the loop does not
  visit those). `MapsDisjoint` is needed, since `on_unsubscribe` searches the
  second map only when the first has no such id.
* `Subscribed`: `Spec => []SubscribeTakesEffect`. `IndSubscribed` says that
  whoever wants a service and is not held by it is the caller of a subscribe
  between its first read and its write, and that a pending unsubscribe was
  recorded.
* `InOrder`: `Spec => NeverOlder`, an action property. `Ordered` says that a
  connection has seen nothing newer than what the thread shows, unless the
  thread has just reset its state.
* `Fits`: `Spec => []ServiceInv`. `CONN_COUNT` is not zero while a connection of
  `add_connection` is registered; inductive because such connections are in the
  map whose length it is, which `ConnCountCoversRemotes` says too.

`VideoProofs`

* `JoinsWithKeyFrame`: `Spec => []EncoderInv`. `SharedEncoder` (nobody who joined
  others began in the middle of a stream) is not inductive: the frame that
  decides comes steps after the join. `EncoderFollows` says what holds between:
  who joined others and has no frame yet waits for an encoder that has produced
  none, and when the callback promotes without a switch, all others have left.
* `RefreshIsServed`: `Spec => []RefreshNotLost`, with `EncoderInv` as hypothesis.
  The step that matters is `ClearRefresh`: it clears the option only when the
  encoder is new.
* `ViewersAreSpared`: `QoSSpec => []QoSInv` of `VideoQoS`. (The module extends
  both video modules, hence the prefix of the names of the second.) Only
  `adjust_fps` raises the rate for viewers who are there, and `Adjusted` shows
  that what it finds is in range and right for all; the rest is to show that every
  average and estimate is a number: the least of any set of limits exists
  (well-foundedness), the latest of the chosen qualities too, and the sum of a
  history, a recursive function, is written out for its at most three entries.

`ConnectionProofs`

* `CallAgrees`: `Spec => []CallInv`. `BeforeLogin` says that a connection not yet
  authorized has neither call nor options nor subscriptions other than those a
  permission switches at any time. `CallIsShown` speaks of an empty stream only;
  `CallToShow` extends it to a stream under way, by its last message. Lemmas
  about `Wanted`, `OptionServices` and `PermissionServices` say which service each
  is about, so that no step has to look at all options.
* `SubscriptionsAreWanted`: `Spec => []SubscriptionsFollow`, together with
  `CallInv`: a login subscribes what was permitted and asked for before it, and a
  handler touches just the services whose expression it may have changed.
* `Inductive`: `AuthedSpec => []Inv` of `AuthedConns`; `Released` and `Restored`
  follow from it: `AuthedSpec => []AllReleased`, `AuthedSpec => []ModeRestored`.
  (The module extends both, hence the prefix of the names of the second.) `Inv`
  says that `AUTHED_CONNS` holds exactly the connections between new and drop,
  that a removed wallpaper and a running service are owed to a remote connection
  in it or to one that has left it and has yet to count or clean up, that the
  handle is that of a server nobody has stopped (`HandleInv`), and that a changed
  resolution has the user's on record, owed in the same way (`ModeInv`). The
  argument is that of `ConnOwed`: a connection goes without cleaning up only if
  it counted another remote one, which will count in its turn.
* `WallpaperRefined`, `PrintingRefined`: `AuthedSpec => Wallpaper!Spec` and
  `AuthedSpec => Printing!Spec`, the refinement of `SharedResource`. Given `Inv`,
  each step of a connection is a step of the abstract specification or leaves its
  variables as they are; `Inv` is needed for `Take`, which must be for a session.

`FileTransferSteps` and `TransferProofs`

* `FileTransferInvariant`: `FTSpec => []Inv` of `FileTransfer`; the rest follows
  from it: `NothingIsTorn` (`[]NothingTorn`), `DoneWasCopied` (`[]DoneIsWhole`),
  `KeptIsKept` (`[]KeptAsItWas`) and `NothingIsLeft` (`[]NothingLeft`). What
  is on the disk is right because of what is on its way, so `Inv` describes both
  queues:
  * `Life`, job by job: which of the two jobs exists in which state of the user's
    list, and which messages there may still be of a job that starts, ends, was
    cancelled or has failed.
  * `Tokens`: a question travels. There is at most one digest, question, dialog or
    answer of a job, about the file that its reader waits at. An *item* is a
    message that moves the writer: a block, the end, an offset. No item comes
    after a digest, and none is under way once the digest was read.
  * `Chain`, the heart of it: the first item in the queue continues what the
    writer has received (`StartOK`), each next one continues the one before it
    (`FollowOK`), and what the reader will send next continues the last
    (`LastOK`, or `NoneOK` if there is none). *Continues* is: the next block of
    the same file, or the first of a later one when the file before has ended or
    failed and all files between them are kept or failed (`Gap`).
  * `Torn`, `Touch`, `Resumed`: what is written is a first part of its file,
    nothing is written past the writer's file, and only a resumed job finds a part
    when it begins.
  * `Answers`, `Keeps`: an offset that is asked for or told is the length of the
    `.download` at the time it arrives; a file that is to be kept has no items.
  * `Ending`, `Leftover`: what holds when a job is over.

  A step concerns one job. `Frame(j)` says that it leaves everything of job j that
  `Inv` looks at as it was; `FrameJob` carries `Inv` over for all the other jobs,
  whose messages share the queues. For the job itself every handler is reduced to
  what it did to the two queues (`Took`, `Gave`), to the disk and to the two jobs,
  and lemmas about `Opens`, `Closes` and `Follows` (the first, the last and
  neighbouring items of a job in a queue) say how these change at its ends.
* `StreamsAgree`: `Spec => []StreamInv` of `PortForward`. `NoRawParsed` looks at
  the head of the queue; the reason lies further back in it. `ReplyAhead` says
  that, while the controlled side waits for a reply, the TestDelay is ahead of the
  LoginResponse or its reply is ahead of the raw bytes; `OneTestDelay` and
  `NoneLeft` count what is under way. `Carries`, `Ahead` and `OnlyOnce` have a
  lemma for each end of a queue.
* `NoInjection`: `Spec => []PasswordLoginIsClean`, from `NoneLeft`.

`TerminalProofs`

* `NothingForgotten`: `Spec => []Inv`. That nothing is left at the end
  (`NothingLeft`) follows from who holds what on the way: a session that is not
  stopped is held by a service or a call (`NoShellLost`), which position of a
  call holds what (`HoldInv`), a session, its shell and its threads exist
  together (`MadeInv`), who joined the reader joins the writer (`JoinInv`), a
  registered service has a connection that will remove it (`RegistryInv`), and a
  connection that has found a finished reader goes on to take the terminal out
  (`FinInv`).
* `OutputIsSent`: `Spec => []OutputBeforeClosed`, from `FinInv`: a reader that was
  seen finished before the channel was emptied adds nothing to it.

`PrivacyModeProofs`

* `HolderThere`: `Spec => []Inv`; `ScreenIsRestored` and `DarkWhileOn` follow:
  `Spec => []ScreenRestored`, `Spec => []OnIsDark`. `HandlersInv`, `LockInv` say
  who may hold the lock at which step. `WatchdogInv`: from its start to its end
  the watchdog has what the process has saved. `SavedInv`: what was saved is the
  state before, and without a watchdog or an orphan the screen is in that state.
  `ProgressInv`: what a command has not been given for yet is in `todo`. The last
  two hold as long as no process has read a screen that was still to be restored
  (`raced`).

`DashboardProofs`

* `LinkIsAgreed`: `Spec => []Inv`. An account becomes the linked one long after
  the click, so `CodesAsAgreed` follows the code through `link_device`, and
  `DialogMatches` and `DialogsAlternate` say that the dialog, or the answer on its
  way, belongs to the request that waits, as long as no click has crossed a
  timeout.

The proof of `NothingForgotten` showed a flaw of an earlier form of `Drop`: it was
a CASE with guards that overlap, of which TLA+ leaves open which is taken. Its
alternatives now exclude each other, in the order in which the code drops. That
of `FileTransferInvariant` found the exceptions that section 2 lists for
`Shadowed` across kept files, for `Orig`, and for interrupted transfers without
overwrite detection: the scenarios that the run had until then did not show them.

Only model-checked:

* Liveness (`NewIsPromoted`, `DropEnds`, `Decodes`, `EndIsShown`, `CloseEnds`,
  `ForwardingStarts`, `JobEnds`, `CallsEnd`, `ShellReaped`, `CrashRestored`,
  `RequestAnswered`, `UnlinkedGoesOffline`, `LimitObserved`, `Recovers`, and the
  fairness of `SharedResource` in `WallpaperIsShared` and `PrintingIsShared`): the
  prover has no rules for fairness and ENABLED.
* Nothing else: every invariant that a run checks is a theorem.

## 5. What is not modelled

`components` of `PROJECT.json` lists every part with the reason. In short:
cryptography, pixels, sound and codecs (out of TLC's reach), user interface and
platform calls (presentation and I/O, most of it for other systems),
configuration and translations (data), third-party libraries under `libs/`.
Together these are the larger part of the repository by far, so the share of its
lines that the models stand for stays small however much of the core is
modelled. Of the core, these are left:

* `SESSIONS` and the wakelock's counts: each is a map or number read under one
  lock and acted on under another; planned.
* `LOGIN_FAILURES`: counters per address, without other state.
* Rendezvous, TURN and the handshake of `create_tcp_connection`: the servers are
  external; the race of direct and relayed connections is planned.
* The client's side of a voice call: reached with the feature `flutter` only.
* The asynchronous implementations of privacy mode, virtual displays and session
  choice: Windows only.

Within the modelled parts these details are left out; no property depends on them:

* `Connection`: the permission for the camera (`connection.rs:666`), which
  switches the camera's service of a camera connection and is kept nowhere: the
  next login or refresh of the displays subscribes it again. A connection whose
  login is refused after its target was connected, which goes through
  `try_port_forward_loop` on its way out (`:979`).
* `PortForward`: the box that asks for a password again (`client.rs:3455`), so a
  second LoginRequest on a connection whose first one has connected the target.
* `Terminal`: the terminal of a finished reader is looked up in a copy of the
  service's map and then taken out of the map under a second acquisition of the
  lock (`terminal_service.rs:1021`, `:1027`); `Closed` is one step. Were the
  terminal closed and another opened between the two, the other would be dropped
  under the lock, which stops its threads as every drop does. A shell that was
  spawned when the writer or the reader of its terminal cannot be had
  (`terminal_service.rs:752`-`760`): its handle is dropped and it is left to the
  hang-up of the terminal.
* `PrivacyMode`: `Data::Close` turns privacy mode off only in the server
  (`ipc.rs:466`); another process never has it on.
* `VideoQoS`: the rounding of 32-bit floats (`video_qos.rs:295`): the model rounds
  up the exact quotient.

## 6. Plan

Done: the modules of section 2 and the proofs of section 4. Next, in this order:

1. `Sessions`: `SESSIONS` with `AUTHED_CONNS`: a session is kept while a remote
   connection needs it.
2. `Rendezvous`: registration, direct and relayed connections racing.
3. `Subscription`, the abstract specification of a service (a set of
   subscribers that changes at one point of each call), and `Service` shown to
   implement it for subscriptions. For unsubscriptions it does not: a swap
   between the two reads of `is_subed` hides a subscriber, and the call returns
   without removing it.
