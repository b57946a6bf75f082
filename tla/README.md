# ohmyssh, specified

TLA+ models of ohmyssh, an ssh client with a terminal browser for hosts and files: what
each part keeps, the steps it takes, and what has to stay true when they meet in an order
nobody wrote a test for. TLC checks the models on small instances; TLAPS proves part of it
for every value of the constants.

Paths below are relative to `src/internal/`. `PROJECT.json` lists the components, the runs,
the line of the code each definition stands for, the faults each property was seen to catch,
and the hazards the properties are for.

## 1. The system

A command (`command/`) parses its flags and calls one service (`service/`). A service reads
the ssh config (`config/`), dials (`sshclient/`, through `repository/`), uses the saved
passwords (`credential/`), and hands the terminal to the browser (`ui/`) or to a session.

| part | state it keeps | operations | meets |
|---|---|---|---|
| `sshclient.Client` (client.go) | the connection, `done`, `stopped`, `onClose` | `Close`, the keepalive loop and its pings | everything that runs over the connection |
| `Dial` (client.go, auth.go, conn.go) | legs, agents and clients opened so far | direct dial, bastion chain, handshake, channel through a bastion, unwinding | host key check, `Client` |
| what is offered to a host (auth.go) | the methods, in order | `buildAuthChain` | the agent, key files, the loop of x/crypto/ssh |
| proxy command (conn.go, client.go) | a shell, two pipes, `closeOnce` | start, `Close` with its grace and its kill | several closers, the dial's context, the log's writer |
| host keys (knownhosts.go) | known_hosts, a mutex | the verifier's snapshot, order of algorithms, the callback, recording | other connections, other processes |
| interactive session (session.go, winch_unix.go) | terminal mode, stdin pump, resize watcher | `Run` and what it defers | the copier of x/crypto/ssh, whoever has the terminal next |
| one command (exec.go) | a session, a watcher of the context | `RunCommand` | ctrl+c, the far end |
| SFTP session (sftp.go, service/filesession.go, service/transfer.go) | channels, the connection | subsystem, fallback paths, `Close` | file view, `put`/`get` |
| transfers (transfer.go) | a plan; files on either side; reports | planning a tree, `Run`, copy, place, clean up | context, dead links, other runs |
| connect service (connect.go) | an attempt | `dialWithPrompt`, `remember`; `AddHost`, `RemoveHost` | credential store, hosts file |
| credential store (credential.go) | `credentials.json`, the legacy file | `Get`, `Set`, `Delete`, `Clear` | other processes, crashes |
| config (sshconfig.go, hosts.go) | `~/.ssh/config`, `~/.ohmyssh/hosts` | parse, resolve, match; append and remove a host | ssh itself, the user's editor |
| progress lines (ui/progress.go) | the width, whether a frame is drawn | `Update`, `Done` | the reports of a transfer, the log, a resize |
| host browser (browser.go, runner.go) | mode, hosts, question, cursor, window | keys; answers of jobs; resizes; sessions launched from the list | jobs on the hosts file, the file view, the terminal |
| add form (hostform.go) | the fields, the one with the keyboard | move, submit, cancel | `Validate` and `Block` of hosts.go |
| file view (filebrowser.go, filesession.go) | session, listing asked for, running transfer; two panes | open, list, transfer, cancel, leave; walk, filter | their goroutines, by messages |
| log and prompt (zlog.go, prompt.go) | the writer and the logger | detach, restore, ask | whoever has the terminal |

What is hard: the UI is one loop whose commands run on goroutines of their own and answer
in any order, possibly after the view that asked is gone; a far end may fall silent at any
moment, and then only a timer or a close ends what waits on it; every dial opens several
things of which each failure has to release some; files are shared with other processes and
with the user's editor; a terminal has to be given back as it was found.

What makes each part correct is the subject of its module, below.

## 2. The modules

State variables and actions carry the names of the code's fields and functions; where a
function is several steps, each step that another goroutine, process or the far end can get
between is an action. A definition named as a *fault* is a plausible bug kept beside the
definition it would replace; it is used by no specification. Each property was seen to
catch one.

**Connection** - `Client.Close`, `keepAlive`, `ping`. Any number of owners may close, any
number of operations wait, the far end may fall silent or reset. `TornDownInOrder`: the
keepalive is told to stop, then the connection goes, then what the transport opened;
`done` is closed once. `CloseMeansReleased`: whoever returned from `Close` finds it all
done, also when somebody else was doing it. `NothingHangs`: an operation on a silent
connection fails. `GoroutinesEnd`: the loop and the goroutine of an abandoned ping end.

**Dial** - `Dial`, `dialBastionChain`, `handshake`, `hopDial`, `buildSSHConfig`. A chain of
legs; per leg an agent socket, a transport, a handshake run by a helper goroutine that can
race its timeout. `NothingOutlivesItsOwner`: after a failure or a close nothing is open and
no goroutine is left, and a connection that is up holds just what it will release.
`ReleaseOrder`: nothing is closed under a leg that runs through it. `DialReturns`.

**AuthChain** - `buildAuthChain` with the agent, `IdentityFile`, the default files and the
password in the forms a host may take it, and the loop of x/crypto/ssh that uses it.
`AnswersTheHost`: the user gets in exactly when what the library gets to offer is what the host
asks for, alone or one thing after the other. `KeysComeFirst`: no password to a host a key
opens. `UnarmedHasNothing`: a dial ends for want of a method only if there is none.

**ProxyCommand** - the shell, what it started, our ends of the pipes, `cmdConn.Close` by several
at once and the goroutine in `Wait`. `ProxyIsReaped`: whoever returns from `Close` finds the
shell reaped and the pipes shut. `ProxyCloseReturns`, as long as its stderr is a file.

**HostKeys** - `AcceptNewHostKeyCallback`, `HostKeyAlgorithms`, `appendKnownHost`.
Connections take their snapshot, ask which key types to offer, are presented a key, and
judge it again under the mutex. known_hosts begins as whatever ssh recorded, keys of several
types of a host, and stale ones, included; each of the three reads may fail, and a failure of the
second is taken for a host without recorded types (149-156). `KeysAreVerified`: accepted only over
a key that is on record from then on, and was before if any key of the host was; refused only over a
changed one, and not because the host offered a type that is not on record, unless that second
read failed.

**Session** - `InteractiveSession.Run` with all its deferred calls as a list `todo`, the pump
(ours) and the copier (of x/crypto/ssh). stdin is a terminal or a file, which a cancel can
interrupt, or something else, which it cannot. `LocalSideRestored`: mode, resize watcher and
session are back however far `Run` came, and nobody reads the next key. `RunReturns`,
`InputEndArrives`.

**Exec** - `RunCommand` and its watcher. `EndIsToldRight`: success is reported exactly when
the command reported success, and a cancellation that cut it short is called that.
`CancelEnds`, `GoroutineEnds`.

**RemoteSession** - `NewSFTPClient`, `startSFTPServer`, `openRemote`, `transferHost` and the
two ways they are closed. `LetsGoInOrder`: no channel left behind by any path tried, channel
before connection. `OpenEnds`.

**TransferPlan** - `PlanUpload` and `PlanDownload`: what is named on one end, what is there
already on the other, and the walk of a directory as a stack of calls over any small tree with
links back to its root. `PlanIsSound`: the plan is the tree, each file once, each directory
before what it holds; and it lands where it was sent, the root and the working directory told
apart and no file put over a directory.

**Transfer** - `Run`, `copyDown`, `copyUp`, `copySink`, `copySource`, `runState`. Names point
at files, as directory entries do, so that a rename and a truncation differ. `FailureIsClean`:
no half of a file under its own name in a download at any step; what a failed run did not
finish is as it was found; a cancelled run begins no other file. `LastReportIsComplete`.

**LiveLines** - the two lines of `TransferProgress`, drawn again and again by moving up a row,
on a terminal as rows that a long line wraps over. `RewritesInPlace`: however many reports, one
pair of lines a display, and nothing above it touched, unless the terminal was made narrower or
something was logged meanwhile.

**CredentialStore** implements **PasswordMap** - the calls as load, adopt the legacy file
(write, then unlink), edit, save; a process may die between any two. `CallsDoWhatTheyAsk`
is the refinement, with `Saved` (what a reader would find) as the map, and that no step of a
call touches another login.

**Login** - `dialWithPrompt`, `remember` and `forget` over PasswordMap, with logins a key is
enough for and logins there is no key to try for. `SavesWhatWorked`: a password nobody gave on the
command line is saved only once its host accepted it, and none in a run told not to.
`StaleIsAskedOver`.

**HostsFile** implements **HostList** - `AddHost` and `RemoveHost` as clash check, read,
write, list; two may run. The file is how many of its blocks name each alias. A read that fails
(connect.go:117, hosts.go:131, 172) ends the call as a write that fails does, and has no step of its
own. `ImplementsHostList`: each call that does not overlap another is one add or one removal.

**HostsEdit** - the text of that edit: `Block`, `appendHost`, `withoutHost`, `blockEnd`,
`blockStop`, `dropPreamble`. `EditsTouchOneHost`: the directives and tags of every other host
stay what they were, every mention of the removed one goes, and no other line does but blank lines
and tag comments, of which only the tags of other hosts are kept account of. `RemoveUndoesAdd`.

**HostBlock** - a host from the add form to the list and back: `spec`, `splitTags`, `Validate`,
`Block`, then the line reader of sshconfig.go with its comments, quotes, equals sign and tags.
Texts are sequences of the characters the code tells apart: one that means nothing to it, and six
that do. `ReadsBack`: a host that passes the check is read back as the host typed, unless
punctuation stands where the reader takes it for its own, and never as two.

**SSHConfig** - `parseBlocks` line by line with a frame per Include, `resolveBlocks`,
`resolveHost`, `blockMatches`, `ResolveName`. `ReadsAsSsh` compares the two passes of the
code (blocks first, names later) with a definition of ssh's own way, which reads the lines
once for one name and goes by the condition of a `Match`. The code does not, so the two are compared
for the hosts that no Match block bears on (`MatchApart`: no condition holds for them, and no Include
stands in a Match block); for the others they part (`MatchCounts`, section 6). It also says that just
the configs are refused whose Includes go deeper than the bound (`NestTooDeep`), as those of one that
includes itself always do (`IncludesLoop`), or reach what cannot be opened or read on
(`ReachesBroken`, a line of the kind "broken"). An Include of no file, or with a malformed
pattern, is a line of the kind "nothing", and is passed over. ssh's reading is a fold over the lines
of a file, and what a file is inside the others a function of the level it is at (`SshWithin`).

**Config** - the three together, for one proof and one run: `part` says which of them runs.
`AddsAreExact`: `ReadsBack` of the form, and `RemoveUndoesAdd` of the hosts file.

**GlobMatch** - `matchPattern`, one action per arm of its loop. `AnswersTheGlob`: the answer
is whether the pattern can be laid over the name. `MatchEnds`.

**Browser** - the modes of `browserModel`, the delete question, the form, jobs and answers,
over HostsFile, whose variables it shares; the status line, as whose answer it holds; a session, which
has the event loop until it ends (`Listens`); and quitting, in any mode and with jobs out.
`AnswersArrive`: the sentence of every add and delete gets to the status line, wherever the user
has gone meanwhile, unless he quits or stays in a shell; and no list is shown but one that a call
read after its write. That the sentence is then *drawn* does not follow: `AnswersAreDrawn`
(section 6).

**HostTable** - `listWindow`, `clampScroll`, `move`, `applyFilter`, resizes.
`WindowFollowsCursor`: the cursor is on a row, after each key that row is drawn and no line
is wasted, and the frame fits the terminal.

**Frame** - `tableLayout`, `trimToFit`, the form's `lines` and `cutFrame`. `FrameFits`: no row is
wider than the terminal that has room for it; columns are given up in the order meant, and none
that would have fitted; the widest are cut alike; the field that is typed on is drawn.

**Terminal** - who may write to the terminal and read from it: `RunHostBrowser`, `sessionCommand`,
the logger, banners, the stderr of proxy commands, the password prompt, and dials of file views
that go on beside a frame, a session or the end of the browser. `FrameIsAlone`, `SessionIsAlone`,
`LinesComeBack`.

**Panes** - the two panes of the file view: where each is, its listing, cursor and window, the
filter that follows the keyboard, replies on their way. `RemoteShowsItsListing`: the remote pane's
files are of the directory it names, and a reply that is waited for is never the one dropped.
`PanesFollowCursor`, `StepsBackOntoIt`: the cursor counts the rows drawn and is on one, and
stepping up leaves it on the directory left. A name is a number, a query the set of names it
matches.

**FileView** - `filesModel` with its dial, its listings and its transfers as goroutines and
messages. Views, and the sessions dialled for them, are numbered; the code has no such
number, which is the point of `LateSessionIsClosed`. `SessionIsOwned`: what is open belongs to the
view on screen. `OneReader`: exactly one reader or message is out for the running transfer.
`PaneShowsAsked`: whatever order replies come in, the pane shows what was asked for last.
`LeavingReleases`, `CancelledTransfersEnd`.

How they are composed. Browser has HostsFile inside it, because a job's steps interleave with
keys. CredentialStore and Login meet at PasswordMap: the first implements it, the second is
written over it, and what a host makes of what is offered (Login's `Accepts`) is AuthChain.
HostBlock writes the block that HostsEdit appends as one line of a kind; what HostsEdit leaves is
what SSHConfig reads, and what a pattern covers there is GlobMatch. Dial asks of HostKeys a
verdict, and of ProxyCommand that a close ends a read. Exec, RemoteSession and FileView assume of
the connection what Connection shows (a silent one ends), and say so. FileView has of a pane the
directory asked for; Panes has the rest of it. TransferPlan makes the plans that Transfer carries
out, and its reports are what LiveLines draws.

## 3. The runs

`MC*.tla` are the instances. An instance EXTENDS the module whose properties it checks as they
are, and takes the others of its group with `INSTANCE`. Where the modules of a group do not look
at each other's state (a shell and a file session; a plan being made and one being carried out;
the table and the event loop; the password file and the attempts), the instance has a variable
`part` that says which of them runs while the others rest in one fixed initial state. So its state
space is the sum of theirs, not the product, and a property of a part is checked on every
behaviour of the part; a property of the instance is the conjunction of properties of its parts.

| run | states | what runs in it | bounds |
|---|---|---|---|
| MCDial | 41296 | Dial, HostKeys | 0 to 3 bastions; 2 handshakes with a host of 2 key types, a key of each type set up anew once, and any of 4 keys in known_hosts |
| MCFileView | 75439 | FileView | 1 view, 2 directories, 2 transfers, 2 listings out, a channel of 1 |
| MCBrowser | 518062 | Browser over HostsFile, HostTable, Panes (each pane), Terminal, Frame | 2 jobs on 2 aliases, one session at a time; 5 hosts, 7 heights; 2 folders and a file, 2 replies out; 2 views and a session; 6 widths, 5 heights |
| MCGlobMatch | 52306 | GlobMatch | patterns and names up to 4 long over 2 letters |
| MCConfig | 830695 | Config: HostBlock, HostsEdit, SSHConfig | texts of 4; hosts files of 4 lines, edited up to 8; configs of 4 lines with an include of 2, of 3 with lines that cannot be read |
| MCLogin | 178905 | AuthChain, Login, CredentialStore | 2 keys, 2 logins, 2 passwords |
| MCOperations | 79386 | Connection, ProxyCommand, Session, Exec, RemoteSession, TransferPlan, Transfer, LiveLines | 2 owners and the loop; 2 closers of a proxy; trees of 3 entries; runs of 0 to 2 files of up to 2 packets; 6 terminals |
| MCLateSession | violated | FileView | 2 views |
| MCDialStalledBastion | violated | Dial | 1 bastion |
| MCConfigInPlace | violated | SSHConfig | an Include above a default |
| MCAuthFirstKey | violated | AuthChain | a key of its own and a default one |
| MCFirstLogin | violated | Login | a login without a key |

Bounds, and why they are enough to meet the interesting cases:

- `MaxHops` 3 has a bastion that is neither first nor last, so that unwinding in the wrong
  order shows.
- `Callers` 2 and the loop give three racing calls of `Close`: one inside, one waiting, one
  that comes after. They may call again.
- `Handshakes` 2 of one process: one that records and one that waits for the mutex with an older
  snapshot. `MaxKeys` 2 has the host set up anew between them or after. `Preference` has two types,
  and known_hosts begins with any of the four keys: of either type, both, and ones the host does not
  have yet or any more.
- `MaxTransfers` 2, one after the other, have a late report of the first meet the second;
  `MaxListings` 2 lets replies swap; `Buffer` 1 is full after one report, as 64 is after 64.
  `MaxViews` is 1 in the run that passes, because with 2 the properties fail for the reason
  MCLateSession shows, and 2 there.
- `Jobs` 2 with `MaxActive` 1: calls that follow each other, answered in either order. With
  `MaxActive` 2 the file loses updates (section 6). A session begins when the end of the one before
  has been heard of: a later one only holds the loop again.
- `Heights` 5 and 8 leave no room for a row, 9 one, 14 all five hosts.
- `MaxLength` 4 has two stars with a letter behind each. The proofs of GlobMatch have no
  such bound.
- `MaxIncludeDepth` is 2 where the code has 16: deep enough for an Include inside an Include,
  and a file that includes itself still meets it. The configs with broken lines and Includes of no
  file (`Faulty`) have three lines, enough for one of these above, below and inside an Include.
- `MaxEntries` 3 has a file or a link two directories down.
- `MaxPackets` 2 has a file that is neither empty nor whole.
- `MaxKeys` 2 of the shell leaves a key in the hands of the pump while another is there to be read.
- `Attempts` 5 is the code's number of paths.
- `ProxyClosers` 2: one inside `closeOnce` and one that waits for it or comes after.
- `KeyFiles` 2, one of them a default: an agent that holds the one the host does not trust, or a
  file that opens ahead of it.
- `Folders` 2 and `Leaves` 1 give a pane of three rows at most and folders on either side of the
  one stepped out of; `PaneHeights` 10 and 11 draw two rows and three; `MaxReplies` 2 lets a
  refused listing meet one that is awaited.
- `MaxText` 4: a separator, a character that means something and one on either side of it.
- `Widths` and `FrameHeights` lie below, at and above each threshold of the layout: no room for
  two columns, room for two, for all cut, for all; no field of the form, one, all.
- `Terminals` are too narrow for a bar (8), just wide enough (12, 13), and wide enough for the
  figures (30, 60); 0 is a pipe. `LabelWidths` and `TailWidths` are what fits there and what does
  not. `MaxRows` 7 has two displays, one after the other, with a line logged between.

`CHECK_DEADLOCK FALSE` is given where the program, or the call that is modelled, really ends;
each cfg says which.

Fairness. `Spec` of every module has none. `FairSpec` adds, and only adds: goroutines that can
run do run; the messages of commands are delivered (the runtime of bubbletea does both); timers
fire; a message that waits for the event loop is taken in its turn, so that a loop that listens again
and again passes none over for ever (`SF` on the answers in Browser: while a session runs, no message
is taken); a Go mutex goes to a goroutine that keeps waiting (`SF` on `Lock`, the mutex's starvation
mode); a request on a connection that has been closed or dropped returns with an error; a silent
connection is closed by the keepalive loop (`NothingHangs` of Connection, and so assumed of the
connection under a shell, a command or a file session); a process that was killed is reaped.
Nothing is assumed of the user, who may quit or stay in a shell for good, of a host that answers
nothing, or of a command ending by itself.

## 4. What is proved

TLAPS checks eight proof modules, and every leaf of every proof. Nothing is assumed but what a
module says of its constants (that model values differ and bounds are numbers; TLC evaluates it in
the runs) and what a theorem names beside that. Each invariant was checked by TLC before it was
proved.

A theorem about a composition (`MCOperations`, `MCDial`, `MCLogin`, `MCBrowser`: `AllSpec`; `Config`:
`Spec`) is of the specification in which `part` lets one component step and the others rest, so it is
of the very property the run checks; behind it stand, per component, an invariant, that its `Init`
gives it and that its `Next` keeps it, and for the instances `AllSteps`, that a step of the instance
is a step or a stutter of each.

| theorem | says, for every value of the constants | hypothesis |
|---|---|---|
| OperationsProofs `Typing`, `InOrder`, `Released` | `TypeOK`, `TornDownInOrder`, `CloseMeansReleased` | |
| OperationsProofs `NothingIsKept`, `EndsAreTold` | `GivesBackWhatItTook`, `EndIsToldRight` | |
| OperationsProofs `PlansAreSound`, `ReportsShow`, `TypesAreKept` | `PlanIsSound`, `ReportsAreShown`, `OperationsTypeOK` | |
| OperationsProofs `FailuresAreClean` | `FailureIsClean` | `Separate`: no two files are written under one name |
| TransferProofs `RunsAreSound`, `NoHalfIsLeft`, `LastReportIsWhole` | `TransferInv`, `FailureIsClean`, `LastReportIsComplete` | `Separate` for the first two |
| DialProofs `KeysAreRight`, `Verified`, `KeysAreTrusted` | `TrustInv`, `KeysAreVerified` | `SharedMutex`: one mutex |
| DialProofs `Books`, `Typing`, `NothingLeft`, `InOrder` | `DialInv`, `TypeOK`, `NothingOutlivesItsOwner`, `ReleaseOrder` | |
| FileViewProofs `Typing`, `Shown` | `FileViewTypeOK`, `PaneShowsAsked` | |
| FileViewProofs `Owned`, `Read` | `SessionIsOwned`, `OneReader` | one view |
| GlobMatchProofs `Bounds`, `Correct` | `GlobTypeOK`, `AnswersTheGlob` | |
| LoginProofs `StoreIsSound`, `StoreIsAMap`, `StoreIsExact`, `CallsAreDone` | `StoreInv`, `ImplementsPasswordMap`, `OnlyWhatWasAsked`, `CallsDoWhatTheyAsk` | `OneProcess`: one call at a time |
| LoginProofs `WhoMayGetsIn`, `WhatWorkedIsSaved`, `TypesAreKept` | `WhoMayGetIn`, `SavesWhatWorked`, `LoginTypeOK` | |
| ConfigProofs `ConfigReadsAsSsh` | `ReadsAsSsh` | |
| ConfigProofs `ConfigEditsTouchOneHost`, `ConfigAddsAreExact` | `EditsTouchOneHost`, `AddsAreExact` | |
| ConfigProofs `ConfigTyped` | `ConfigTypeOK` | |
| BrowserProofs `ListIsKept` | `ImplementsHostList` | `MaxActive` = 1: no two calls overlap |
| BrowserProofs `WindowFollows`, `PanesKeep`, `ScreenStays`, `TypesAreKept` | `WindowFollowsCursor`, `PanesKeepTheirPlace`, `ScreenIsWhole`, `BrowserTypeOK` | |

Each hypothesis is one the code needs: without it the property is false (section 6).

### The arguments

*OperationsProofs* (`OperationsAssumption`).

- The connection. That a `Close` that returns released everything depends on who held the mutex and
  on how far the holder was. `TeardownInv` says it: `closeMu` is held exactly by the one closer
  that is inside the teardown; `stopped` records that `done` was closed; each stage finds the
  earlier ones done; the loop is inside `Close` only from a missed ping.
- The shell. `ShellInv`: what is up is on the list `todo` from the moment there is one, and before
  that each stage knows what is not up yet; a step taken off the list (`TakenOff`) leaves the others
  on it. So an empty list has everything down, whichever way `Run` went.
- The file session. `FilesInv`: a channel is held only from its opening to its `Close`, and is the
  one of the path in hand, whichever of the paths that is. `LetsGoInOrder` follows of each step.
- The proxy command. `ProxyInv`: only the first of the closes is past `closeOnce`, and what it has
  done by each stage; who returns from a later call returns after it.
- The command. `EndIsToldRight` follows of the step that returns.
- The plan. `PlanIsSound` speaks of the end, of a walk that may read each directory in any order.
  `PlanInv` says of the middle: what is planned has its directory planned before it (`Lists`); each
  call of the recursion is for a directory that is planned, has left only what is in it and is not
  planned, and lies deeper in the tree than the one that made it (`Frames`), which bounds the stack;
  and what is wanted of a directory that was read is planned or left to a call (`Complete`). With
  the stack empty nothing is left, and since each entry but the root is in another, with a smaller
  number, an induction on the numbers gives the whole tree.
- The bar. `BarInv`: while nothing disturbed it the cursor is in the last row, lines come in pairs
  and no row holds the rest of another (`Tidy`). `FillsTheLine` says that `liveFrame` makes its line
  just as wide as the terminal, from the narrowest on, so that it takes one row (`OneRow`).
- The runs are those of TransferProofs: `SameRuns` says that its copy of the module is the same.

*TransferProofs* (`TransferAssumption`: paths are sequences, files new and old are told apart).
`TransferInv` says, for each item of each run, whether it is moved, in hand or to come, which file
its two names point at and how much that file holds; and since names are apart, a step of one run
leaves every other item as it was.

*DialProofs* (`DialsAssumption`), for chains of any length. That a failed dial left nothing open is
settled by what every step before it kept account of. `Accounted`: what is open is on the list of
closers or is the one thing in hand. `Phases`: how far `Dial` is, from what it has built.
`Upright`: the legs under the one being built are up, all but a bastion just given up on.
`Stacked`: each entry of the list may be released before those it lies on. `ReleaseOrder`, an
action property, follows from `Stacked` and the one unwinding step.

*DialProofs* (handshakes), for any number of connections, hosts, key types and keys a host has had. The
properties speak of verdicts, and what makes a verdict right was settled steps before. `TrustInv`
carries it. The mutex is held from the second look to the record (`MutexHeld`), so a key is recorded
only of a host that has none. Then a snapshot with any key of the host has all of them
(`SnapshotsAreWhole`): whoever had one judges by the file as it is, and asks for types that are on
record (`AsksForRecorded`, `KeyIsOfAType`), so that a refusal means that the key of that type changed.
To who had a snapshot without, what is on record by now was recorded by connections that asked for
the default types as well, and is of the type the host presents first (`RecordsAreForemost`), which is
the type this connection is presented, also when its read of the types failed. There remains the
connection with a snapshot and no types, which is the exception of the property. It rests on two
facts of the model: known_hosts is only added to, and a host does not gain a key type in the
middle of a connection to it.

*FileViewProofs*, for any number of directories, transfers and listings and a buffer of any size.
`PaneInv` adds to `PaneShowsAsked` that the pane waits for what it asked for last, or for nothing,
and that a reply is of a directory. `SessionInv` says that no dial precedes its view; `CountsInv`
that the transfers of a view have generations of their own, so that a report counts for one.

*GlobMatchProofs*, for patterns and names of any length over any alphabet. `StarInv` is the
bookkeeping of the last star: what follows the star in the pattern has covered exactly what was read
since its run. The hard half of `Correct` is that backing up only to the last star misses nothing.
`Found` says that what was passed can be laid over what was read, so a "yes" is right. `Level` says
that every laying of the whole pattern over the whole name has the last star's run end at `match` or
later, and keeps level with the loop or ahead of it: so when the loop gives up no laying is left,
and a "no" is right.

*LoginProofs* (`GettingInAssumption`), for any key files, default keys, logins and passwords.

- What is offered. `AuthInv`: the chain is what was built; a name that was turned down was turned
  down for its first method, of which the host would have none; what the host would have next tells
  how far an account that asks for both is. `FirstIsThere` and `FirstDecides` say that a chain has a
  first method of a name and that it alone decides whether the name fits.
- The attempts. `AttemptInv`: who asks has been refused, so no key is enough for that login.
- The store. `StoreInv`, what each step of a call works on: the map as it was saved, with the one
  entry changed that was asked for. The refinement reads the map off the two files; moving the
  legacy file, and every step but the write of the new one, are stutters.

*BrowserProofs* (`BrowserAssumption`), for lists, trees, filters, terminals and texts of any size.

- The table. `TableInv` is the types and `CursorOnARow`. No more has to be carried from step to step:
  where `clampScroll` puts the window depends on the cursor and the sizes alone (`RowsFit`,
  `ClampShows`).
- The hosts file. `OneInv`: one call at a time is at work, and what it is about to write it has read
  from the file as it is, an add once it found its alias free, a removal once it found it taken. The
  write is then an `Add` or a `Remove` of the abstract list, and every other step leaves it.
- The panes. `PanesInv` adds what stepping back up rests on: the remote pane, while it waits for the
  parent of where it is, remembers the name it came from; and what lies in a listing of a directory
  at the bottom of the tree is no folder. The argument is by pane: it rests, is placed, takes a
  listing or waits for one, and a step of the view is one of these for each side. `ClampedPane` is
  what `clampScroll` does to any pane, `RowsAreCounted` that positions and rows number the same.
- The frame. `FrameFits` follows from the types: the layout is computed anew for each frame. Columns
  given up are the first that suffice (`DroppedIs`); the loop of `trimToFit` takes one column of
  width a turn until it fits, none more than one narrower than any other that it could cut
  (`TrimmedCuts`, by induction over its turns).
- The terminal. `ClearInv`: while frames are drawn, and before, the log goes elsewhere and with it
  the stderr of every proxy command; only the session asks, and the frame waits for its end.

*ConfigProofs* (`ReadAssumption`, `EditAssumption`, `TypedAssumption`), for texts and files of any
length and Includes of any shape. Nearly everything here is a fold, and the library's induction
theorems cannot be used with these provers; so `AllNumbers` (a set with 0 and the successors of its
numbers has all numbers) is proved from the order of the naturals, `FoldIsTraced` shows once
that a fold is the last value of a function over the positions of its list, and for each fold
a lemma says what one element more does. The inductions after that are over how many lines, or
characters, have been taken.

- The reading. The code reads all the files into blocks and then asks the blocks; ssh reads for one
  name and keeps a state. `ReadInv` says for every file on the stack that the blocks opened since it
  was begun give of each name what ssh's fold has found in the lines so far: whether the lines below
  apply, and the first value (`FrameRight`). Below the top of the stack ssh stands before the Include
  that is being read; when its file ends the level above takes one line, for which `Levels` has the
  included file as a whole. Blocks that give nothing to a name may come between (`Pick`), and the
  defaults of a file have to stand at its head (`Leading`), which is where `IncludesCountInPlace` of
  section 6 goes wrong. The code takes nothing from a Match block, ssh what its condition allows: the
  argument is by name, for those that `MatchApart` has (`Apart`), for whom ssh is out of scope from
  the Match line to the next Host line, as the code's blocks are. For refusals, `StackNests` accounts
  for depth: no Include of the lines passed leads deeper than what is left, so a reading that ends was
  within the bound, and a frame too many is the end of a chain of Includes that long. A frame stands
  at the end of such a chain too (`StackLeads`), so a broken line in it refuses a config that
  `ReachesBroken`; and of the lines passed none is broken or leads to one (`Dead`), so a config that
  is read to its end does not.
- The edits. `withoutHost` goes down the lines and keeps, shortens or skips. `Walk` is what holds on
  the way: what was kept means to every other host what the lines so far do, its value, its tags
  where `Tidy`, and whose block the next line belongs to; within a block that goes (`Past`, `InOwn`)
  nothing was anybody else's. `HandAt` does the same for the lines that no host is the owner of. For
  the addition it is enough that blank, tags, `Host` and directive come last. `RemovalUndoes` follows
  the removal over the very lines that `Appended` put there.
- The form. A field that passes the check has no space (`Solid`), and so goes whole through each of
  the things the reader does: trimmed of the one space before it (`TrimSolid`), no comment begun in
  it (`NoComment`), one word to `splitFields` (`FieldOfSolid`). Tags are joined by comma and space and
  split at commas: `TagsWritten` says, by induction on how many, that the parts are the tags with a
  space before each. `FormInv` then has only to say what was written, and what was read.

### Model-checked only

- Liveness, everywhere: `NothingHangs`, `GoroutinesEnd`, `DialsReturn`, `LeavingReleases`,
  `CancelledTransfersEnd`, `AnswersArrive`, `MatchEnds`, `CallsReturn`. Fairness and `ENABLED` are
  beyond the prover.
- The five violations, and the claims of section 6.

Every invariant and every safety action property of the runs that pass is a theorem.

Some definitions are stated so that they can be reasoned about. `PlanIsTheTree` compares a plan
with the tree by the parent of each entry, not by a recursive path. A chain of AuthChain is a set of
methods with their places, of which the first is the one with the least. A listing of Panes is any
sequence that is sorted, and a row is numbered by how many drawn ones lie before it. What reads or
edits lines is a fold, and ssh's way through Includes a function of the depth, with no recursive
operator.

## 5. Not modelled

- The command line and translations: flags, and tables of messages. Of drawing (help, styles,
  summary), what a cell says; how wide it may be is in Frame.
- What a `ProxyJump` entry resolves to: an alias of the list the program started with, or
  `[user@]host[:port]`. It chooses an address and changes no state; Dial has the legs.
- In the browser: tag chips. In a text field: editing, which is bubbles's.
- Of ssh_config: tokens, `~` and globs in paths (an Include is of a file, of none, or of what cannot
  be opened), what a `Match` condition says beyond the names it holds for, the default values of a
  resolved host.
- Choosing a host by name (`connect web`), the one-match shortcut, the summary after a command.
- Encryption of the credential store, a store that does not parse, temporary files left by a crash.
- Hashed names and certificate lines of known_hosts. The bytes that go through a proxy command.
- What libraries do is taken from how the code uses them and marked external in the map:
  x/crypto/ssh, pkg/sftp, bubbletea, cancelreader, os/exec, the terminal, the far end.

## 6. Where the code and its comments part

Five claims have a run that shows the counterexample:

- `LateSessionIsClosed` (MCLateSession). filebrowser.go:187-188: "A session that arrives after it
  has come down is closed on arrival". A message carries no mark of its view, so if another view
  is open by then it takes the session (filebrowser.go:315-324): the files of another host are
  shown, and when the right session comes the first is replaced, unclosed.
- `HandshakeBounded` (MCDialStalledBastion). client.go:286-289: "closing it is what lets that call
  return". Over a bastion, `conn` is a channel, and closing it is a request that the bastion has
  to answer. One that stalls after it opened the channel holds the dial past its timeout.
- `IncludesCountInPlace` (MCConfigInPlace). sshconfig.go:397-399: "ssh reads the file at that point,
  and from there on the values it sets compete for first-value-wins like any other". The file's own
  defaults are put ahead of all its blocks (sshconfig.go:489-493), so one below an Include wins.

- `EveryKeyIsOffered` (MCAuthFirstKey). src/README.md:366-379: "Methods are tried in the order ssh
  uses". Every key is a method "publickey" of its own (auth.go:77, 140-141), and x/crypto/ssh uses
  the first method of a name only: behind an agent with any key no file is shown to the host, and
  behind an `IdentityFile` that opens no default key.
- `FirstLoginAsks` (MCFirstLogin). src/README.md:373, 385-390: without a saved password there is a
  prompt. Who has no key has nothing to offer at the first dial; that is an error of its own
  (client.go:329-333), not the refusal that is asked over (connect.go:293).

Others are stated in the modules under "claims that do not hold", each seen by TLC to be
violated, without a run of its own here:

| property | the claim | what the code does |
|---|---|---|
| FileView `ReportsAreCurrent` | filebrowser.go:172-174, a report "the user has moved past cannot be drawn over its successor" | the generation restarts with each view (two views) |
| FileView `NoNilSession` | filebrowser.go:379-381, "rather than reach a nil session" | the check is at the key; the goroutine reads the field later |
| FileView `QuitReleases` | browser.go:153-155, 758-759, "closeView releases what the browser is still holding" | `closeView` has a pointer receiver, the final model is a value: the interface is never satisfied |
| Panes `PathIsOfTheRows` | filebrowser.go:123-124, the directory the pane names is the one it shows | locally the name changes before the read: refused, the old files stand under the new path, and a download goes to the path |
| Panes `StepsBackUnderAFilter` | filebrowser.go:136-138, the cursor lands on the entry left | under a filter its row is looked for among all the files |
| Browser `OpenViewIsShown` | browser.go:596-598, closing is "the only way out of the file view" | a late answer to an add shows the list over it |
| Browser `QuestionHasRow` | browser.go:208-210, "a question can never outlive the row it was asked about" | the answer to an earlier delete takes the row away |
| Browser `AnswersAreDrawn` | browser.go:357-359, of a delete that failed, "the reason in the status line" | under an open view or a question the line is not drawn, and closing either writes over it (browser.go:602) |
| Browser `ListIsRebuilt` | browser.go:366, "rebuilt from what the file holds now" | answers of two jobs can be delivered the other way round |
| HostTable `AskedRowIsOnScreen` | browser.go:112-114, "still on screen, under the cursor" | a resize does not move the window |
| Frame `FocusIsAlwaysDrawn` | hostform.go:163-165, "the one being typed on is always drawn" | not on a terminal of fewer than five lines, where `cutFrame` takes the last fields off |
| Terminal `ProxyHasAFile` | client.go:601-603, "Output is a *os.File in both cases" | without a log file it is `io.Discard` |
| ProxyCommand `ProxyCloseIsBounded` | conn.go:37-43, the close is bounded by its grace | with stderr no file, `Wait` also waits for whatever holds it open |
| ProxyCommand `ProxyIsGone` | conn.go:40-43, the command is killed | the shell is; what it started is not |
| AuthChain `PasswordIsOffered` | src/README.md:366-379, a password given is tried | without a home directory the chain ends before it (auth.go:59-62) |
| HostsFile `OthersUntouched` | hosts.go:122-124, "Nothing already in the file is touched" | two calls at once: the second writes what it read before (`MaxActive` 2) |
| HostsFile `AddsOnce` | connect.go:106-110, "That is worth refusing" | two adds at once both find the alias free |
| HostsFile `FailedDeletesNothing` | browser.go:357-359, "nothing was deleted" | the write happened and the list read after it failed |
| HostsEdit `NobodyIsTagged` | hosts.go:161-164, "a host nobody tagged" | another comment between tag and block keeps the tag in the file |
| HostsEdit `BlankLinesSurvive` | src/README.md:354-356, "blank lines survive untouched" | the blank lines about the block that goes make way for one, or none (hosts.go:230-247) |
| HostBlock `ReadsBackAsMeant` | hosts.go:37-38, "read back as the host the user meant"; hosts_test.go:196-197 | `=web` is read as another block of web, a quote is dropped, a tag `#prod` loses its sign |
| SSHConfig `MatchCounts` | src/README.md:287-288, `Match` blocks "all behave as they do in ssh" | the condition is not looked at: nothing in a Match block counts, and an Include in one is read as if it stood outside (sshconfig.go:424-427, 466-467) |
| HostKeys `TypesAreAskedFor` | knownhosts.go:144-147, offering the recorded types "stops a server from presenting a different key type" | an error of the read is taken for no types, and the host may then present another, and is refused though it has not changed |
| SSHConfig `SourceNamesTheAlias` | sshconfig.go:31-32, "config file this alias came from" | the first wildcard block that covers it takes its place (235-238) |
| Login `SavedWasShownToWork` | connect.go:318, "a password that has just been shown to work" | a password from the flag is saved when a key let the user in |
| CredentialStore `LegacyIsRetried` | credential.go:257-258, "retries by itself" | once the new file is written the old one is not looked at again |
| Transfer `NoHalfUpload` | transfer.go:449-452, "take the half-written file back with it" | not over a link that is dead |
| Transfer `StoppedUploadIsThere` | src/README.md:186-190, "The file is there but incomplete" | it is removed (transfer.go:469-472) |
| LiveLines `FrameStaysInPlace` | progress.go:133-135, lines never overrun, or the cursor "lands in the middle of the line above" | the width is read once; a terminal made narrower has them overrun |
| LiveLines `LogsStay` | command/transfer.go:173-174, the display is closed "before anything else is written" | what the keepalive logs is not held back, and is drawn over |
| Exec `StatusIsReported` | exec.go:20, "returned as an *ExitError" | not if the context ends before `Wait` is through (65-67) |
| RemoteSession `RefusalIsReported` | sftp.go:69-72, "the error reported when every path fails too" | overwritten by each path (78-103) |

And some properties hold only as far as the run goes: `KeysAreVerified` of one process, since
two share known_hosts and not the mutex (knownhosts.go:34-36 says "must match exactly");
`CallsDoWhatTheyAsk` of one process at a time (credential.go:50-53 gives two processes as the
reason to read the file every time, but nothing locks it); `FailureIsClean` of plans whose names
do not collide, since `f` and `f.part` of one plan, or two runs on one file, share a partial file
(transfer.go:414).

Noted while reading, without a property: what a session launched from the browser says before it is
up (a banner, "connection failed") goes to the log file and not to its user; a ProxyJump entry that only a wildcard
block describes, or that is written `user@alias`, is taken for an address (client.go:561-581), and
an alias is looked up among the hosts the program started with (connect.go:78).

## 7. Next

1. The choice of a host by name, and what a ProxyJump entry resolves to, as the address of a leg of
   Dial.
2. Two processes: known_hosts, the store and the hosts file, with the weaker properties that hold.
3. The default values of a resolved host and the expansion of paths, against ssh's.
4. Proofs of what those add; liveness stays with TLC.
