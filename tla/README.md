# perp: a TLA+ model of the supervisor and its tools

perp is a set of programs that keep services running: `perpd` scans a base
directory, runs and supervises the services it finds there, and takes commands
on a local socket. This directory holds TLA+ modules translated from the C
source under `src/`, TLC configurations that check them on small instances,
and proofs that TLAPS checks for every instance.

## 1. Inventory

### perpd (`src/perp/perpd.c`, `perpd_svdef.c`, `perpd_conn.c`)

One process, one thread. State:

* `svdefs[0..nservices-1]`, one `struct svdef` per active service (identified
  by device and inode): flags ACTIVE, HASLOG, CULL, CYCLE, the descriptors
  `fd_dir` and `logpipe[2]`, and two `struct subsv` (main and log) with a pid,
  the flags ISRESET, ISONCE, ISPAUSED, WANTDOWN, FAILING, the last wait status
  and the time stamps of the respawn governor;
* the flags `flag_chld`, `flag_hup`, `flag_term` raised by the signal handler,
  `flag_failing` (a `fork()` failed) and `flag_terminating`;
* the selfpipe, whose bytes make `poll()` return when a flag was raised;
* up to 20 client connections with a buffer each.

Operations: the phases of one iteration of `perpd_mainloop()` are, in this
order, `poll()` with signals unblocked, draining the selfpipe, starting a
shutdown (SIGTERM), reaping children (`perpd_waitup`), scanning
(`perpd_scan`: activate, keep, initiate deactivation), retrying failed forks
(`perpd_svdef_checkfail`), and clients (`do_control`, queries). All of them
meet in `perpd_svdef_run()`, which forks a child for a slot (main or log) and a
target (start or reset), and in `perpd_svdef_wantcull`/`cullok`/`perpd_cull`,
which bring a service down and remove it.

Interactions: children change state by dying (SIGCHLD, `waitpid`); clients by
commands; the administrator by setting or clearing the sticky bit of a service
directory and sending SIGHUP or SIGTERM; the kernel by failing `fork`, `open`,
`pipe`, `opendir` or `readdir`, and by handing out the lowest free descriptor
number and recycled pids.

What is hard: signals that arrive between the tests of flags; SIGCHLDs that
merge; children that die while others are being reaped; commands that arrive
in the middle of a reset or a deactivation; a deactivation that is revoked; a
fork that fails in any of these; descriptors closed by number in two places.

What makes it correct: every process that should be up is up, about to be
forked, or marked for a retry; the table knows exactly the unreaped children;
nothing is slept upon; a deactivation, an activation, a restart and a shutdown
complete; the logger is the last to go; children get their directory and pipe.

### tinylog (`src/perp/tinylog.c`)

The logger perpd starts as the log of a service. State: the input buffer, the
line being collected, `current_size`, the flags `flagexit` and `flagrotate`
set by SIGTERM and SIGHUP, and the log directory: `current` (mode 0644 while
in use, 0744 after a clean end), `previous` and `zipped` during a rotation, and
the archives `_<stamp>.s|u[.Z]`. Operations: read and post lines; rotate
(rename, link, unlink, gzip, prune, open); at a start resume or archive what
it finds. What is hard: a kill between any two of these calls, signals between
a test and a call, errors in the forked gzip, and a cached file size. What
makes it correct: nothing but the oldest text is lost, torn text is marked
`.u`, `current` stays within its size, every SIGHUP rotates, and SIGTERM and
end of file end it.

### The control socket (`perpd_conn.c`, `perpd.c:686-750, 862-911`, `pkt`)

Up to 20 connections, each a descriptor, a packet buffer with a cursor, a state
(reading, writing, closed) and the time it was started. Requests come and
replies go in pieces, on non-blocking sockets; a connection is closed when it
is stale, broken, closed by its peer, or when perpd is terminated. The clients
`perpctl`, `perpls`, `perpstat` and `perpok` ask and wait for one reply at a
time. What makes it correct: no connection is lost or used twice, a request is
acted upon at most once, an answer is that of the request, nobody waits for
ever.

### Bootstrap, locks and tools

| part | state and operations | what is hard | properties that matter | module |
|---|---|---|---|---|
| `perpboot.c`, `rundeux.c`, `runtrap.c` | two children joined by a pipe, or one with a trapper; a self-pipe loop | children that die behind one SIGCHLD, nested handlers, the order of the end | nothing is slept upon, each child runs once, no line is lost, SIGTERM ends all | `Deux` |
| `pidlock`, `padlock`, `perpd_control_init`, `runlock`, `runtool -L/-P`, `perphup`, `perpctl A/X` | a lock file, its inode, an fcntl lock, a socket | two starts at once, kills, a lock lost by fork or close | one holder, held by the program, found by the clients; the socket is the holder's | `Pidlock` |
| status packet, `perpls`, `perpstat`, `perpok` | 66 bytes packed once and decoded three times; a listing built while services change | offsets, times, flags, the order of sorting and decoding | the tools agree with each other and with what was sent | `Perpls`, `Encodings` |
| runtools | one process: arguments, environment, descriptors, limits, ids | a call in the middle that fails, options that combine | the program runs as asked or not at all | `Runtool` |
| `cdb`, `hdb` | a writer's buffer and lists, a file, a reader's cursors | collisions, wrap-around, offsets at their limit, an unfinished file | what was added is found, all of it, in order | `Cdb` |
| `sissylog`, `outvec`, `sysstr`, `cstr`, `buf`, `dyn*` | lines to syslog; pure functions on bytes | | | not modelled, see below |

## 2. Modules

| module | what it is |
|---|---|
| `Perpd` | the supervisor: main loop, service definitions, control commands, children, signals, descriptors |
| `Supervise` | the abstract life of one supervised process, as perpd.8 promises it |
| `PerpdRefines` | the refinement mapping from `Perpd` to `Supervise` |
| `PerpdProofs`, `PerpdControlProofs` | theorems about `Perpd`, checked by TLAPS |
| `PerpdRefinesProofs` | the proof that `Perpd` implements `Supervise` |
| `TinylogProofs`, `DeuxProofs`, `PidlockProofs`, `PerpdConnProofs` | theorems about these modules |
| `PerplsProofs` | theorems about `Perpls` and `Encodings` |
| `PerpdConn` | the control socket: connections, packets in pieces, clients |
| `Rpc` | the abstract promise of the socket, which `PerpdConn` implements (`Answered`) |
| `Encodings` | `upak`, `tain` and `nfmt`: numbers and times as bytes and digits |
| `Perpls` | the status packet and what perpls, perpstat and perpok make of it |
| `Tinylog` | the logger |
| `Deux` | perpboot, rundeux and runtrap |
| `Pidlock` | the lock file and every program that uses one |
| `Runtool` | the chain loaders |
| `Cdb` | the constant databases |
| `MC...` | for each, the constants TLC is given |

### How `Perpd` corresponds to the code

`svdefs` and `subsv` are `svdefs[]` and its `svpair[]`, as functions of the
service (and slot) instead of an array: the code finds services by dev/ino or
pid only, so the order of the array, which `perpd_cull()` changes, has no
effect but on the order of forks (which is free in the model, the log before
its main excepted). `in` says that the service is among the first `nservices`.
A pid is `None` for the code's 0. `flags` are Booleans, the code's counters
being only compared with zero. `ping` says that the selfpipe is not empty.
`fds` is perpd's descriptor table restricted to what services and scans use:
`open`, `pipe` and `opendir` take the lowest free number, `close` acts on a
number whatever it now stands for; this is what makes a double close visible.
`proc` are the children (external): their slot, target, the status argument of
a reset, whether they found the right directory and pipe, and what signals
they got.

`pc` is the phase of the iteration. One action is one phase, one child
returned by `waitpid()`, one directory entry of a scan, one client request or
one `fork()`; each is the whole handler. Handlers that fork put their calls of
`perpd_svdef_run()` into `runs`, and nothing but those calls (and the
environment) can happen until `runs` is empty, so that a child of the first
fork may already be dead when the second is made, as in the code.

Every phase and handler is an action: `SigTrap`, `PollReturn`, `Drain`,
`Terminate`, `ChldCheck`; `WaitpidStray`, `WaitpidRerun`, `WaitpidStopLog`,
`WaitpidDown`, `WaitupDone`; `ScanOpendirFails`, `ScanBegin`, `ScanIgnore`,
`ScanKeep`, `ScanFail`, `ScanActivate`, `ScanReaddirFails`, `ScanEnd`;
`FailDie`, `FailRetry`, `FailDone`; `ControlRefused`, `Control`, `LoopEnd`;
`SvdefRun`, `SvdefRunRefused`, `SvdefRunForkFails`. The environment is
`ChildExit`, `Chmod`, `Signal` and `Send`. "map" in `PROJECT.json` gives the
lines of each.

Abstractions:

* **Signals and clients arrive at `poll()`.** Signals are blocked elsewhere, so
  a signal sent in another phase is pending until then and nothing can tell
  the difference; likewise for requests, which perpd looks at after `poll()`.
  SIGCHLD is sent when the child dies, in any phase.
* **A request is atomic.** Reading and writing packets is in `PerpdConn`; a
  request is executed or refused in one step, as it is in the code.
* **Commands without an effect on perpd's state** (a, h, i, q, w, 1, 2) are one
  command `h`; the process may or may not exit of it, as it may at any time.
  `killpg` is not distinguished from `kill`.
* **The respawn governor** is reduced to its effect within one `perpd_waitup()`:
  the second start of a slot in it cannot have exited before it ends, since the
  child sleeps with signals blocked until a second has passed. Without this, a
  service that dies at once would keep perpd in the `waitpid()` loop for ever in
  the model. The slot is in `wait.held` until then.
* **Failures** of `fork`, `open`, `pipe`, `opendir`, `readdir` are choices
  limited by `Budgets`; running out of descriptors or of table space is decided
  by the state. An error of `poll()` itself is left out.
* Names, logging, time stamps and the environment of the child are left out.

### `Supervise`

A slot is absent, down, starting, start, resetting or reset. "start" is always
followed by "reset", "reset" by "starting" while the process is wanted, by
"down" when not; it leaves only from "down"; a log is never present without its
main. If `fork()` may fail (`Lossy`), a life may be cut short while the fork is
outstanding. `PerpdRefines` reads the state of a slot off `svdefs`, `subsv` and
`runs`, and `Supervises` says that `Perpd` implements it.

### `Tinylog`

A step is one system call, so that a kill, a signal or a failure can fall
between any two. The directory `dir` maps names to inodes and `file` gives
their content and the bit 0100 of the mode; `proc` holds the variables of each
process. Actions: `Start`, `InitCurrent`; `KeepStat`, `KeepLink`, `KeepUnlink`,
`ForkGzip`, `ForkReturns`, `Gzip`, `Publish`, `Zchmod`, `Drop`, `Unzip`, `Prune`
(`tinylog_keep` and what it calls); `OpenCurrent`; `CollectLine`, `ReadOp`,
`EnterRead`, `ReadData`, `ReadEof`, `Post`, `Rename`, `Write`, `Close`
(`do_log`, `tinylog_post`, `tinylog_rotate`); `Fails`; the environment is
`Term`, `Hup` and `Kill`.

* Text is a sequence of numbered characters and newlines, so that an order and
  a cut can be seen; time stamps in lines and the filter of control characters
  are left out.
* A failing call that is repeated after a pause is a stuttering step; `Fails`
  has the failures that end the process, and gzip, rename and chmod have theirs.
* `ForkReturns` is the child of `tinylog_gzip()` that returns into the logger:
  a second process with a copy of the first one's variables. It happens when
  an `open()` fails (event "open", remembered in `returned`), and without any
  failure when `-z` meets a `current` with two links, because `fn8601` was not
  set.
* `tinylog_prune()` uses a directory stream after `closedir()`: the outcome is
  an error or an abort, whichever.
* The clock is not set back; it may repeat a stamp once (the EEXIST branch).
* The lock is not modelled: perpd starts tinylog only when the last one is
  gone, and the lock is gone with it. A kill loses no file content.

### `PerpdConn` and `Rpc`

A socket is two sequences of units with a capacity, and what the kernel says of
it (in the backlog, open, closed by one side, reset). `loop` is the part of an
iteration that tends connections: what `poll()` reported, `nready` and the
index of the loop over `clients[]`. Every `read()` and `write()` moves any
number of units that fit, so packets arrive in every division. `C`, `Q` and
malformed requests are told apart, since they take different paths; a service
is known, being culled or unknown, and up or down. `Raw` clients keep to no
protocol: they stop, close or pipeline requests anywhere. `done` and `told` are
history, and `Answered` says that for the tools they behave as `Rpc`: at most
one execution, and no answer but its result. In the model as in the code a
request may be executed and its answer lost.

### `Perpls` and `Encodings`

`Exec_query` packs the 66 bytes of a status, and each tool decodes them at its
own offsets; times go through `tain_pack`, `tain_minus` and `tain_uptime`,
numbers through decimal digits. The clock ticks thirds of a second, so that
rounding goes both ways, and counts from an arbitrary instant. perpls is a
process (`List`, `Now`, `Query`, `Show`, `Output`), and services change between
its steps. Colours are the capabilities of `PERPLS_COLORS`.

### `Deux`

The three programs share one loop, and `mode` says which runs: `perpboot` and
`rundeux` with a logger and a pipe, `runtrap` with a trapper. Signals are
blocked except around `poll()`; in runtrap a handler waits for the trapper
while others may nest in it (`traps`). Lines written, in the pipe and logged
are counted. A pid is reused as soon as it is free.

### `Pidlock`

A program is the sequence of system calls it makes (`Plan`), each a step; a
lock belongs to a process and an inode, and is gone when the process ends,
forks or closes any descriptor of the file. The failure path of `pidlock_set()`
closes and unlinks. `gen` tells the pid after a fork or restart from the one
before.

### `Runtool`

The state is the process: arguments, environment, descriptors, limits, ids,
directory. A command line is a chain of tools with options, and each tool the
sequence of steps its `main()` makes of them; a step is an operator on the
process and may fail, which ends the chain. Files are sequences of parsed
lines; escape sequences, the merge of environments, the search of PATH and the
redirections are modelled as the code does them.

### `Cdb`

One writer and one reader (and a copy of the reader, as `cdb_cc()` makes) on a
file of units. `db` says which of the two formats is used; they differ in the
number of tables, the hash function, the header and the limits. Offsets wrap at
`W`. The buffer of the writer is flushed when it is full, so a reader may open
a file that is written in part.

## 3. Runs

| run | instance | shows |
|---|---|---|
| `control` | one service with a log, two commands out of d u o p c k D U, SIGTERM (469,924 states) | `Supervised`, `StoppedIsPaused`, `LoggerLast`, `Supervises`, no deadlock |
| `failures` | two services, the first of every kind, a table of one, four descriptors, autoscan, an inherited child; a failing `fork()` with a command or a chmod and SIGTERM, or a failing `open`, `readdir` or `opendir` with a chmod (957,318 states) | `TypeOK`, `NoLostWakeup`, `NoLostChild`, `FailingIsRetried`, `OnlyWantedStarts`, `Supervises` with `Lossy` |
| `pair` | two services, one with a log (once or not), SIGHUP, a chmod, SIGTERM (491,573 states) | `ChildTracking`, `CleanExit`, `FdsOwned` (`DirOwned`, `PipeIntact`), `ChildrenWired`, no deadlock |
| `progress` | one service with a log, or without one and flag.down; p, a failing `open()`, SIGHUP, a chmod, SIGTERM, or p and two failing `fork()`s; fairness (296,531 states) | `ShutdownCompletes`, `DeactivationCompletes`, `ActivationHappens`, `Restarts` |
| `tinylog` | 8 characters in 4 lines (one cut, one empty, one unfinished), buffer of 3, lines of 2, files of 4, one archive kept, or none without -r, -z and -r or not; one kill, one failure, SIGTERM, SIGHUP, a repeated stamp and two starts, or two kills and three starts, or a SIGHUP and a failing `open()` in the gzip child; fairness (629,472 states) | `FilesSafe` (`TypeOK`, `SafeIsWhole`), `Retention`, `CurrentBounded`, `HupHonoured`, `EofExits` |
| `conn` | a tool that sends a command and a query and a client of no discipline, a table of one, sockets of four units; the clock and a change of the service, or SIGTERM and a failing accept, or a kill with failing forks, or pipelined requests; fairness (594,578 states) | `ConnInv` (`TypeOK`, `ConnTable`, `NoUnhandled`), `Answered`, `ToolsEnd` |
| `perpls` | two services, the first in any state of its directory, main and log; arguments, -r or -t; two changes in between (379,059 states) | `ToolsAgree`, `ShownIsSent`, `ListingInv` (`TypeOK`, `Listing`, `TroubleShows`) |
| `deux` | perpboot and rundeux with and without -x, and runtrap; four pids, a pipe of two lines; deaths and a failing fork, or all four signals, or two SIGTERMs and a background process; fairness (85,853 states) | `ChildrenInv` (`TypeOK`, `OneEach`, `TrapsOwnChild`), `Asleep`, `LogInv` (`LinesKept`, `CleanEnd`), `Progress` (`Terminates`, `Restarts`) |
| `pidlock` | two perpd and a client, or three of runlock and runtool, with four starts and a kill or a failing call (62,348 states) | `LockInv` (`TypeOK`, `Exclusive`, `LockHeld`, `SocketOwned`), `FindsPerpd` |
| `runtool` | every tool with every option and the pairs of options that meet, one failing call (365,771 states) | `Dropped`, `AsAsked` (`TypeOK`, `FoundInOrder`, `ArgvAsAsked`, `FdsAsAsked`, `EnvAsAsked`, `LimitsAsAsked`, `ValuesFromLine`) |
| `cdb` | both formats, three records out of five (repeated, colliding, empty and long keys), two files, 18 offsets, a buffer of 6 (979,266 states) | `WriterInv` (`TypeOK`, `InStep`, `UnfinishedIsEmpty`), `Found`, `Walked` |
| `shutdown_hang` | one service, a failing `fork()`, SIGTERM; fairness | violated: `ShutdownCompletes` |

Some runs check one invariant that is the conjunction of the named parts given
in brackets.

Bounds. A slot has at most one process, so two pids serve one service with a
log and three serve the pair; the number of deaths and restarts is not
bounded. One or two services are enough because services interact only through
the table limit, the descriptor numbers, the flags and the loop, all of which
appear with two. `Budgets` bounds the events of the environment, and a
behaviour has one of its members: each kind of event interacts with a handler
in progress, and one occurrence of each, in any order and at any time, meets
every phase; commands get two in `control`, since the interesting sequences
(pause then down, once during a reset, down then up) are pairs. Pids are
symmetric in `control` and `pair`; liveness is checked without symmetry.
`CHECK_DEADLOCK` is off where the program may be waiting with no budget left,
or has come to its end, and on in `control` and `pair`: there perpd either has
something to do or has exited.

`tinylog` keeps one archive or none, so that pruning happens at the second
rotation or at each, and several times before the text is at its end;
two processes are enough because one kill of a start is needed for each child
that returns. Its budgets are separate because a read error in a child that
returned makes its parent forget a SIGHUP. In `conn` a table of one makes the
table full, stale, culled and reused with two clients; a packet has two to four
units of which two are the header, so a cut falls before, in and after it. In
`cdb` the tables have up to six slots, so that probes collide and wrap, and 18
offsets are few enough for additions to be refused. In `pidlock` a process may
be started again after it ended, so four starts give a holder, a loser, a waiter
and a successor.

Fairness.

* `Perpd`: weak fairness of `MainLoop`, since perpd is a process the kernel
  schedules and each of its phases is finite; of the exit of a child that runs
  "reset" (perpd.8 asks it to return promptly), that got SIGTERM or SIGKILL and
  is not stopped, or that failed before `exec()`. No child is assumed to exit
  otherwise, no client or administrator to act.
* `Tinylog`: weak fairness of the steps of each process except reads from the
  pipe: the service need not write.
* `PerpdConn`: weak fairness of perpd and of the tools; other clients may stop
  anywhere, and time need not pass.
* `Deux`: weak fairness of the supervisor, of the delivery of a signal that is
  not blocked, of trappers and of children that were told to end (the program
  obeys SIGTERM, the logger ends at end of file, a trapper ends).

## 4. Known defects

The models follow the code, and where the code and its documents disagree the
properties state what does hold. The disagreements met are listed here; a
definition in brackets is where the model reaches them, and those without one
were met in reading and lie outside the models:

* `perpd.c:178`: a reset whose `fork()` fails during shutdown is never retried
  and perpd does not exit; perpd.8:577-585 "After all service processes have
  terminated from their ``start'' and final ``reset'', perpd itself exits 0."
  This is the run `shutdown_hang`.
* `perpd_svdef.c:362`: wstat is cleared before the arguments of "reset" are
  made of it (line 373), so a reset script is always told "exit 0";
  perpd.8:156-162 promises exit code or signal (`ResetArg`).
* `perpd_svdef.c:261`: a second cull of a service being deactivated closes the
  numbers of its log pipe again, which may be the directory of another service
  by then (two SIGHUPs, two chmods and SIGTERM; `pair` has one of each). After D
  has closed the log pipe, U starts both processes without one.
* `perpd.c:359`: an o during a reset is lost, because the end of the reset
  counts as the one run; perpctl.8:88-91 "If the service is not already
  running, start it."
* `perpd.c:356`: ISPAUSED is not cleared when a paused process is killed, and the
  next lives of the service are shown as paused.
* `perpd_svdef.c:53`: a log pipe that neither wantcull nor waitup closed (the log
  was down or in its reset) stays open for good (the object "leak").
* `perpd.c:504`: `flag_hup` is cleared before `opendir()` may fail, so the rescan
  that was asked for does not happen. `perpd_svdef.c:192`: a deactivating service
  whose reset could not be forked is not retried before the next scan.
* `perpd_conn.c:93`: a command with killpg is lost on a child that has not called
  `setsid()` yet. `perpd.c:690`: `arg_autoscan * 1000` may overflow.
* `tinylog.c:171`: a SIGTERM between the test of flagexit and `read()` does not
  interrupt; the comment at 166 says "SIGTERM will interrupt the read() here"
  (`EnterRead`).
* `tinylog.c:558`: the gzip child returns instead of exiting when its `open()`
  fails, and `current` may grow to twice the size of -s (`ForkReturns`,
  `CurrentBounded`). A kill between rename() and link() in a rotation leaves text in
  `previous`, which is overwritten (`stranded`). A failing `write()` is repeated
  without a look at flagexit (line 202). A start with -r killed after link()
  leaves a clean `current` with two links, to which a start without -r appends.
* `perpls.c:836`: -t sorts before uptimes are decoded, and so by name;
  perpls.8:296 "ordered by uptime of the main service" (`Listing`).
* `newenv.c:92`: a variable of the same length that differs in its last
  character only is removed in place of, or along with, the one named;
  runenv.8:84-91 (`EnvAsAsked`).
* `runtool.c:243`: a value that ends in a single backslash is read past its end.
* `runlimit.c:445`: RLIMIT_VMEM from a file or the environment overrides -a of the
  command line, against the comment at 440 "cmdline overrides all".
* `runtool.c:546`: an argument of exactly the size of its buffer is let through and
  its NUL stored behind it. `nuscan_uint32.c:21`: the overflow test misses wraps
  that land above the previous value. `ioq_getln.c:28`: a read error is taken for
  a large count. `perpctl.c:110`: perpctl and perpok change directory before they
  build the path of the socket from a relative base directory.
* `cdb_find.c:41` and `hdb_find.c:43`: keys longer than 80 bytes are not found,
  as the key is not advanced (`Found`).
* `cdbmk_addrec.c:70`: without `mmap()` the record that is copied is not the one
  under the cursor (`bad`).
* `pidlock_set.c:91`: the failure path gives the lock up before it unlinks the
  file, so that after a failed `write()` two processes may hold "the" lock
  (`faulted`).

## 5. Proofs

The theorems hold for every value of the constants that meets the assumptions
named in the modules: any number of services, pids, descriptors, processes or
files, and any budgets. The assumptions give the constants their types and keep
`None` apart from what it is compared with. Beyond that, `Tinylog` assumes that
the size of -s is at least two lines, which `main()` of tinylog enforces;
`Pidlock` that the processes are finitely many; `PerpdConn` that a socket holds
any packet (PKT_SIZE is 258 bytes) and that a tool has at least one argument and
no more than some number `Args`; `Perpls` that an uptime fits in the `uint32_t`
it is printed as, and that the names of services are finitely many.

| module | theorem | states |
|---|---|---|
| `PerpdProofs` | `TypeCorrect` | `Spec => []TypeOK` |
| | `NeverSleepsOnWork` | `Spec => []NoLostWakeup` |
| | `ChildNeverForgotten` | `Spec => []NoLostChild` |
| | `ChildrenTracked` | `Spec => []ChildTracking` |
| | `ExitsClean` | `Spec => []CleanExit` |
| | `AlwaysSupervised` | `Spec => []Supervised` |
| `PerpdControlProofs` | `StartsOnlyWanted` | `Spec => OnlyWantedStarts` |
| | `StoppedIsFlagged` | `Spec => []StoppedIsPaused` |
| | `LogOutlivesMain` | `Spec => LoggerLast` |
| | `FailuresRetried` | `ReaddirWorks => (Spec => []FailingIsRetried)` |
| `PerpdRefinesProofs` | `Implements` | `Spec => Supervises` |
| `PidlockProofs` | `OneHolder` | `Spec => []LockInv` |
| | `ClientsFindPerpd` | `Spec => FindsPerpd` |
| `DeuxProofs` | `ChildrenKnown` | `Spec => []ChildrenInv` |
| | `SleepsIdle` | `Spec => []Asleep` |
| | `LogComplete` | `Spec => []LogInv` |
| `TinylogProofs` | `TinylogTyped` | `Spec => []TypeOK` |
| | `CleanFilesWhole` | `SameResume => (Spec /\ []Alone => []FilesSafe)` |
| | `CurrentFits` | `Spec /\ []Alone => []CurrentBounded` |
| | `HupsHonoured` | `Spec /\ []Alone => HupHonoured` |
| | `OldestTextLost` | `SameResume /\ (\A s \in Inputs : Increasing(s)) => (Spec /\ []Alone => []Retention)` |
| `PerpdConnProofs` | `ConnsAccounted` | `Spec => []ConnInv` |
| | `RequestsAnswered` | `Spec => Answered` |
| `PerplsProofs` | `ListingComplete` | `Spec => []ListingInv` |
| | `ToolsTellTheSame` | `Spec => []ToolsAgree` |
| | `ShownAsSent` | `Spec => []ShownIsSent` |

### `Perpd`

* `TypeOK` is inductive. The lemmas on the operators (what `Kill`, `Close`,
  `WantcullSubsv`, `RunInit`, `Harvest`, `CtlSubsv` ... return) come first, then
  one lemma per group of actions.
* `NoLostWakeup` speaks of `poll()` only and is not inductive. `WakeupInv`
  says for each flag in which phases the selfpipe may be empty while it is
  raised: those before the phase that tests it in the same iteration.
* `NoLostChild` is inductive with `TypeOK`, given that only an exit makes a
  zombie (`NewZombies`).
* `ChildTracking` needs `TrackInv`: a service without a log has no log process
  (or `perpd_cull` could remove a service that has one), forks are outstanding
  only for services in the table and only in the phases that make them (or a
  service could be removed under a pending fork). `TrackInv` also says that
  perpd is done only with an empty table, from which `CleanExit` follows.
* `Supervised` is inductive with `TrackInv`: handlers that replace `runs` do so
  when it is empty.
* `OnlyWantedStarts` looks at the moment of the fork; what makes it true lies at
  the moment of the decision. `RunInv` carries it over: a fork outstanding for a
  start belongs to a slot that is not wanted down, or that is marked failing; no
  slot has a start and a reset outstanding; and a slot marked failing has no
  process.
* `StoppedIsPaused` needs `PauseInv`, which adds that only a running process
  is stopped: a new process, and one that has ended, is not.
* `LoggerLast` is an action property and follows from `TrackInv` and `RunInv`
  action by action.
* `FailingIsRetried` holds at `poll()`. `RetryInv` says that at any time a
  failing mark of a service that is kept has `flag_failing` behind it or a fork
  outstanding, and that outside a scan every such service is ACTIVE. The hypothesis `ReaddirWorks` (no budget has a
  failing `readdir()`) is needed: a scan cut short leaves services without
  ACTIVE, `perpd_svdef_checkfail()` passes over them (perpd_svdef.c:192) while
  `flag_failing` has been cleared (perpd.c:845), and the rescan does not raise it
  again. The run `failures` has no budget with both failures.
* `Supervises`: the initial state maps to an initial state (`RefinesInit`), and
  each action maps every slot to a step of its life or to no step (`SlotStep`,
  `RefinesNext`). `NoFailInv` is what the strict variant needs: where no
  `fork()` may fail nothing is marked failing and no fork is skipped.

### `Pidlock`

`PlanInv` has three parts beside the types. `Stage` says where a process is in
its plan, and that it has the file open from `open()` to `close()` or to its
end. `Held` says, as long as no call of the plan has failed (`faulted`), that an
open file is the one of that name, that from the lock on the process has the
lock, from the write on its pid is in the file, and that at the end perpd has
the socket. `Lockers` says that a lock is held by a process that has the file
open, so that a lock outlives neither a `close()` nor its process. `LockInv`
alone is not inductive: it does not say what a process in the middle of its plan
has.

### `Deux`

`CoreInv` says where the loop over the two children is (`Places`), that a pid
that is remembered is that of the child it was remembered for (`Known`), that
there are no two of a kind, and that a trapper has the pid of the program
(`Trappings`). `Woken` says for each step of the loop who is going to wake it.
`Logs` has what `LinesKept` and `CleanEnd` need: the write end stays open until
the program is done with (`HeldOpen`), there is no line before the first logger
(`FirstLogger`), and a logger that ends by itself has read all there is
(`LastLogger`, `Outlives`). All three were checked with TLC before.

### `Tinylog`

`TypeOK` is inductive, for any number of processes. The other four theorems
are about behaviours with one logger at a time (`Alone`, which is assumed of
the states of a behaviour, not of the constants): those in which no gzip child
comes back to log. They need it. With a second logger one process renames the
`current` in which the other is in the middle of a line, and a torn line is
archived as `.s`; TLC finds this as soon as a budget has a kill beside a failing
`open()`. For the size of `current` the run `tinylog` also covers the two
loggers (twice the size).

`CleanFilesWhole` has one more hypothesis, `SameResume`: the command lines of
one behaviour agree about -r. Otherwise a clean `current` that a start with -r
has linked as `.s`, and not unlinked before it was killed, may be resumed by a
start without -r and torn by the next kill (section 4); TLC finds that with two
command lines and two kills.

The invariant `LoneInv` relates a process to the directory: while it has the
log open, that is `current` under no second name, not marked clean, with the
cached size (`OpenLog`); while it rotates there is no `current`, and what was
renamed is whole (`ClosedLog`); the line it is about to write ends with a
newline and fits (`Text`); and whoever is killed leaves `zipped` under one name,
`previous` whole, and a clean `current` with a second name only where it will
not be resumed (`Links`). TLC found no violation of `LoneInv` with two command
lines of different sizes, up to three starts, two kills and each of the
failures.

`OldestTextLost` also takes the characters of the input to be numbered as they
arrive (`Increasing`), which is how `Retention` reads ages off the text and
restricts no input of the program. Two invariants lead there. `InOrder` is about
the text on its way: what is in the files is older than what is in the line, the
buffer and the pipe. `KeptInv` is about the directory:

* `Sorted`: archives are in order of their stamps, two with one stamp are two
  forms of one text, and `current`, and `previous` while it is being archived,
  hold nothing older than an archive, unless they are one (`Newest`).
* `Keeper`: what the process that archives knows at each of its system calls. A
  log that is linked has no second name, one that is unlinked is an archive;
  the name to be given to `zipped` is free, and `zipped` is then a copy of `fn`.
* `Shape`: the names in the directory, finitely many, with stamps no later than
  the clock. From it follows that `Oldest` has a value, and the oldest stamp
  (`OldestFirst`).
* `Aged`: what is gone is older than all that is left. There are then as many
  archives as -k asks for, not counting the second form of one that is about to
  be unlinked (`Counted`); otherwise the `unlink()` after a zip would leave too
  few. A `previous` that a kill has left behind counts as there until the next
  process finds it (`Held`), and as text in order only while it is archived
  (`Live`).

The proof corrected the property: it used to compare what is gone with all that
is left, and with `-k 0` the `previous` of a killed process outlives the
archives that were made and pruned after it. `SameResume` is needed here as well:
a `current` that is resumed and has a second name would be written to under both.
TLC found no violation of `KeptInv` in instances of one process that keep none,
one or two archives, with one or two command lines, three kills, or the budgets
of the run.

### `PerpdConn`

`TableInv` adds two things to the types and to `ConnTable` (a descriptor is in
`clients[]` once, and every open one is). `Queue` says that what waits in the
backlog of the listening socket waits there once. `Progress` says where the
loop over `clients[]` is: the entries `poll()` reported and the loop has not come
to are still used, and `nready` counts exactly them, the listening socket and
the selfpipe, from which `NoUnhandled` follows. `clients[]` is compacted by a
recursive function; that it keeps the open connections, in order and once, is
`CulledIs`, by induction on the length of the table.

`Answered`, the implementation of `Rpc`, is proved from `TalkInv`, which says for
each tool what may be between it and perpd: nothing, its whole request, or the
whole reply to the request it waits for. `PerpdSide` is perpd's end of this (a
connection that is written to holds the reply of a request that was done),
`ClientSide` the tool's: a request it has not sent is not done, and one it has
heard of is told once. What raw clients do does not enter, as their connections
and request numbers are their own.

### `Perpls` and `Encodings`

`IInv` has three parts. `TypeInv` says that what an entry knows of an active
service is the packet of the status that was sent. `ListInv` says that a listing
of the directory has each service once, sorted from `Show` on, and that services
named on the command line stay as they were named. `OutInv` says that a line
printed is made of its entry. Two chains of lemmas lead from there to the
theorems:

* A packet: a number that fits in n bytes is unpacked as it was packed
  (`UnpackPacked`), so is a time (`TainUnpacked`), at any offset (`AtIs`, `Parts`,
  `Joined`); hence the flags and the two processes are read as sent
  (`StatusRead`). `TripleSays` and `ReportIs` say what the tools make of it.
* Digits and times: the value of the digits of n is n (`DigitsRead`), and
  `tain_uptime()` is within half a second of the distance of two times, whichever
  is the later (`UptimeIs`).

`TroubleShows`, a part of `ListingInv`, holds when every colour is defined
(`Coloured`): one that is missing is replaced by that of "df".

### Recursive functions

The library's induction theorems cannot be used with the installed provers, but
its `FS_StrictSubsetOrderingWellFounded` can: every set of numbers that is not
empty has a least element (`Least`), since the intervals that end in it are
well-founded by inclusion. `Induct` follows: a set with 0, and with n + 1
whenever it has n, has every number. Every induction here is about such a set.
For a recursive function this first gives its existence (`RunsExist`: for every
n there is a sequence of its values up to n), then that it is the only one
(`RunsOnly`), then its properties.

### Only model-checked

* Liveness (`ShutdownCompletes`, `DeactivationCompletes`, `ActivationHappens`,
  `Restarts`, `EofExits`, `ToolsEnd`, `Progress`): out of TLAPS's reach here, as
  is `ENABLED`.
* `FdsOwned` and `ChildrenWired`: not true of every instance, because of the
  second close of a log pipe (section 4); the run `pair` has the budgets for
  which they hold.
* `Dropped` and `AsAsked` of `Runtool`: they compare what a chain of tools did with
  its command line, which is a matter of the tables of steps (`Runtool`) and of
  the instances in `MCRuntool`, not of an invariant over many steps.
* `Cdb`: uses exclusive or on numbers (`Bitwise`), which the provers do not
  know.

## 6. Not modelled

* `sissylog` and the message formatting of every program: output only.
* `outvec`, `cstr`, `buf`, `dynbuf`, `dynstr`, `dynstuf`, `nextopt`, `sysstr`
  (tables of names): sequential functions on byte strings. The models take a
  string as a value and a growing array as a sequence; what the functions do at
  their limits of memory is not visible in them.
* The hexadecimal and octal variants of `nfmt`, `nuscan` and `tain_*hex`, `tx64`,
  and the hash functions of `hfunc` beside the two of the databases: no program
  with state uses them.
* Option parsing, path names, permissions of files, user-visible wording.
* Power failures and a clock that is set back; the respawn governor beyond its
  effect within one `perpd_waitup()`.

## 7. Plan

The respawn governor and autoscan with time.
