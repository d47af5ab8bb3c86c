# reproc: a TLA+ development

reproc is a C library (with a C++ wrapper) that starts a child process, talks
to it over pipes, waits for it, polls it and stops it.  This directory holds
TLA+ modules that model the library, TLC configurations that check them on
small instances, and proofs checked by TLAPS.

File and line references are to `src/`; `reproc.c:547` is
`src/reproc/src/reproc.c`, line 547, and `reproc.h` is
`src/reproc/include/reproc/reproc.h`.

## 1. The system

| Component | Files | State it keeps | Operations |
|---|---|---|---|
| Handle life cycle | `reproc.c` | `reproc_t`: process handle, four pipes (in, out, err, exit), on Windows two child ends, status, stop actions, deadline, nonblocking | new, start, wait, terminate, kill, stop, pid, destroy |
| Polling and deadlines | `reproc.c` 64-124, 272-408 | none (an array of event sources) | `expiry`, `find_earliest_deadline`, `reproc_poll` |
| Stream I/O | `reproc.c` 29-62, 410-513 | the pipes of the handle | `setup_input`, read, write, close |
| Drain, run | `drain.c`, `run.c` | the caller's sinks | `reproc_drain`, `reproc_run`, `reproc_run_ex` |
| Options | `options.c` | none | `parse_options`, `parse_redirect`, `parse_stop_actions` |
| Redirects | `redirect.c`, `redirect.posix.c`, `redirect.windows.c` | descriptors | `redirect_init`, `redirect_destroy` |
| POSIX processes | `process.posix.c`, `pipe.posix.c`, `handle.posix.c` | error pipes, signal mask, descriptor table | start, fork, wait, terminate, kill |
| Windows processes | `process.windows.c`, `pipe.windows.c`, `pipe.windows.poll.h` | attribute lists, inheritance flags, the error mode of the process, sockets | the same interface |
| Environment, paths, strings | `strv.c`, `util.c`, `util.windows.c`, `utf.windows.c` | none | `strv_concat`, path functions, `call_once` |
| Glue | `init.*.c`, `clock.*.c`, `error.*.c` | Winsock reference count | `init`, `deinit`, `now` |
| C++ wrapper | `reproc++/` | owns one `reproc_t` | conversions of options, `poll`, `drain`, `run` |

The caller's threads call the API on one handle; the API calls the platform
layer, which talks to the kernel.  The child is an independent process that
shares with the parent only descriptors: the three redirected streams, the
**exit pipe** (the child inherits its write end across `exec`; the parent polls
the read end, which hangs up when the child is gone) and the **error pipes**
(close-on-exec, over which the child reports why it failed before `exec`).

What is hard: a call is a sequence of steps (status check, `poll`, `waitpid`,
close, assignment) that interleaves with other threads' calls, the child, its
descendants, pid reuse, signal handlers and the deadline; a start that fails
half way must undo what it did; a blocked parent and a blocked child must not
wait for each other; results pass through several functions that reuse one
variable `r`.  On Windows, threads with handles of their own still share the
error mode, the standard handles' inheritance flags and a busy-waiting
initialisation.

For each part, what makes it correct:

| Component | Correct means |
|---|---|
| Handle life cycle | the child is reaped once, by one call; only the child is ever signalled; a status in the handle or a result is the true one; `reproc_kill` and `reproc_destroy` leave only a child that is over or has been sent SIGKILL; calls return when their timeouts say so |
| Polling | no sleep past a deadline, timeouts and deadlines told apart, every event at its own source |
| Streams | a stream is given up only at its end; the input arrives whole and is followed by the end of file; non-blocking means non-blocking |
| Drain | 0 means that everything was delivered; sinks are told of the end once; parent and child never wait for each other |
| Start | every descriptor accounted for, the mask restored, success means a running program, an error is the one that occurred and leaves no child |
| Windows | handles, sockets and the references to Winsock accounted for, the process-wide error mode put back, a true exit status, no child left by destroy |
| Run | the handle is freed and the result true whichever call fails |
| C++ wrapper | options and results arrive as they were given |
| Options, redirects | consistent combinations are accepted, the others refused |
| Paths, command lines | normalizing keeps where a path leads; a program gets the arguments it was given |

## 2. Modules

| Module | Models |
|---|---|
| `ReprocHandle` | one handle, the threads that call it, the child, the kernel |
| `ReprocContract` | what `reproc.h` promises of those calls, abstractly |
| `ReprocRefinement` | the mapping from the first to the second |
| `ReprocRun` | `reproc_run_ex` on top of `ReprocHandle` |
| `ReprocSpawn` | one `reproc_start` on POSIX, failures included, down to the child's `exec` |
| `ReprocWindows` | threads of a Windows process, each starting, waiting for, stopping and destroying a child of its own |
| `ReprocPoll` | `reproc_poll` on several sources, statement by statement |
| `ReprocStreams` | read, write, close, drain and the input of one child |
| `ReprocPath`, `ReprocArgv`, `ReprocOptions` | functions without state: path normalization, the Windows command line, the redirect options |
| `ReprocPollWin`, `ReprocDescriptors`, `ReprocCpp` | functions without state: `poll_win32`, the numbers of descriptors across `dup2` and `exec`, the C++ wrapper's conversions |
| `ReprocHandleProofs`, `ReprocStopProofs`, `ReprocRunProofs`, `ReprocSpawnProofs`, `ReprocWindowsProofs`, `ReprocPollProofs`, `ReprocStreamsProofs`, `ReprocPureProofs` | theorems |
| `MCReproc*` | instances for TLC |

The modules cut the library along its functions, and each treats what another
one models as a single step: `ReprocHandle` takes `reproc_start` as one step
with four outcomes, which are those `ReprocSpawn` arrives at; `ReprocStreams`
takes the poll of one handle as one step, whose inner life is `ReprocPoll`;
`ReprocSpawn` gets its redirects as parsed by `ReprocOptions` and names
descriptors by role, where `ReprocDescriptors` has their numbers; `ReprocRun`
extends `ReprocHandle` and takes the drain as one step with the results that
`ReprocStreams` gives it.

### ReprocHandle

`status`, `exitPipe`, `deadline` and `stop` are the fields of `reproc_t`;
`freed` says that `reproc_destroy` has freed it.  `call[t]` is the stack of
thread `t`: `op` the function it called, `pc` the statement it is at, `plan` and
`i` the loop of `reproc_stop`, `timeout` and `ret` the locals of that name.
`child`, `code`, `pid`, `writers` and `signals` are the kernel's.  `kill(2)` only
sends: `SendSignal` puts the signal into `signals`, and the child dies of it at some
later moment (`ChildSignalled`), so that a wait straight after a kill may time out.

| `pc` | Statement |
|---|---|
| `wait` | entry of `reproc_wait` (515-541) |
| `poll` | `pipe_poll` on the exit pipe (542) |
| `waitpid` | `process_wait` (547) |
| `close`, `assign` | the exit pipe is destroyed (552), the status is stored (554) |
| `signal`, `kill` | entry of `reproc_terminate` / `reproc_kill`, and `kill(2)` |
| `next` | head of the loop in `reproc_stop` (598) |
| `release` | `reproc_destroy` after the stop |
| `polling` | `poll(2)` in `reproc_poll`, with a descriptor read from the handle before |

Time is symbolic: a finite timeout may fire at any moment at which the exit pipe
has not hung up, zero fires at once, `infinite` never, and what `expiry` makes
of a deadline fires once `deadline` is `expired`.  The constant `Overlaps` says
which operations callers run at the same time, `Traits` which liberties the
child takes (ignoring SIGTERM, closing the exit pipe it inherited, leaving a
descendant that holds it).

`ReprocContract` knows only the life of the child, what the handle knows of it,
and the begin and return of calls.  A successful `reproc_kill` means that the child
is over or `doomed`, no more than `reproc.h:461-466` says.  `ReprocRefinement` maps
`child` to `life` (a zombie has ended), SIGKILL among the `signals` to `doomed`,
`status` to `known`, and a call in progress to a busy one.

### ReprocSpawn

A descriptor is named by its role (`in.read`, `error.write`, ...).  `fds` and
`cfds` are the tables of parent and child, `pipe`, `end` and `handle` the
fields and locals that hold descriptors, `message` what has been written to the
two error pipes (of `process_start` and of `process_fork`), `mask` and `cmask`
the signal masks.  `pc` and `cpc` name the statements of parent and child; a
step named in `Failures` may fail there with any errno of `Errnos`.  `cause`
and `faults` record what failed, and `bad` that something was closed which was
not open or not ours.  The redirect `"missing"` is one to a stream that the parent
does not have: `redirect_init` opens the null device in its place, and
`redirect_destroy`, which goes by the type, never closes it (`NullDevices`).
`handlers` says for which signals the child still has handlers of the parent: the
loop in `process_fork` resets the standard ones (1 to 31), the real-time ones only
go with `exec`.  `reproc_start`'s `finish` label is `Finish`; reading an
error pipe is `CloseWrite`, `EndOfFile` / `ReadErrno` / `ReadInterrupted`,
`ReadEnd`, `Waitpid`.  Assertions are taken as compiled out (`NDEBUG`).

### ReprocRun

`run` is the frame of one `reproc_run_ex`: its statement, its thread, the stop
actions and `fork` of its options, and `r`.  `RunStart`, `RunStop` and
`RunDestroy` call the actions of `ReprocHandle` and the run waits until the call
has returned (`RunStopped`, `RunReturn`); a negative result goes to the label
`finish`, where the handle is destroyed.  The drain ends with both streams,
which end no later than the exit pipe hangs up, or with the deadline
(`DrainEnds`); it may also break off earlier (`DrainBreaksOff`), since a child
may close its streams and a sink may return what it likes.  A behaviour has
either one run or callers of the single operations.  That `reproc_new` cannot
allocate, which returns `REPROC_ENOMEM` before there is anything, is left out.

### ReprocWindows

`once`, `ready`, `errorMode`, `inherit`, `open` and `winsock` belong to the
process; `call[t]` is the frame of thread `t` (`pc` the statement, `end` the
locals of `reproc_start` that hold the child's ends, `previous` what
`SetErrorMode` returned, `i` the index of a loop), `proc[t]` its `reproc_t`,
`child[t]` its child.  Each statement of `process_start` that touches shared
state is a step of its own; the loops over `handles[]` are one step per round
(`SetInherit`, `ClearInherit`).

| `pc` | Statement |
|---|---|
| `init` ... `input` | `reproc_start` up to `process_start` (`reproc.c:161-199`) |
| `once`, `initialize`, `published`, `spin` | `reproc_call_once` (`util.windows.c:62-75`) and `init_once` |
| `strings`, `env`, `inherit`, `attributes`, `mode`, `create`, `restore`, `clear`, `cleanup` | `process_start` (`process.windows.c:477-626`) |
| `finish` | the end of `reproc_start` |
| `poll`, `object` | `reproc_wait`: the exit pipe, then `process_wait` |
| `signal` | `process_terminate`, `process_kill` |
| `stop`, `release` | `reproc_destroy`: the loop of `reproc_stop`, then the handles |

A child ends in two moments, as on Windows: its handles are closed (`exiting`),
which hangs up the exit pipe, and later the process object is signalled
(`ended`).  `MakePipe` goes through the eight calls that make a pipe, any of
which may fail (`Opened`, `SocketPair`, `PipeInit`, `RedirectPipe`), and through
a last error left over from `connect` (`"stale"`).  `fault` and `overlap` are
history.

### ReprocPoll

`i`, `earliest`, `min`, `first` are the locals of `find_earliest_deadline` and
`reproc_poll`; every iteration of the search is a step (`Find`), so the clock
may tick between two of them, as `expiry` reads it anew each time.  `IndexPipe`
and `IndexSource` are the arithmetic by which a pipe in the flat array finds its
source; `PipeAt` is how the array is filled.  Between two calls the application
reads (`Consume`), closes (`Close`) and waits (`Reaped`), which invalidates pipes.
The child's ends that the parent keeps on Windows go with an exit event or at the
end of the stream; `reproc_close` leaves them.  poll(2) reports every ready pipe;
that `poll_win32` may not is the subject of `ReprocPollWin` and `ReprocStreams`.

### ReprocStreams

`pipe`, `kept`, `stdin`, `exit` say which of `pipe.out/err`, `child.out/err`,
`pipe.in`, `pipe.exit` are valid.  Bytes are counted: `data[s]` are in the pipe
of stream `s`, `indata` in the one to stdin, `fed` have been read by the child.
`pc`: `closed`, `inner` and `recv` are the early return, the inner `reproc_poll`
and `pipe_read` in `reproc_read`; `outer` is the poll in `reproc_drain`; `write`
is `pipe_write`; `setup` is `setup_input`.  `op` says whether the read is the
application's or the drain's, `events`, `rout` and `stream` are the drain's
locals.  A sink accepts or refuses.  SIGPIPE is ignored by the caller.
`heirs` stands for processes that the child has started and that outlive it: they
may have its ends open, and the exit pipe, for as long as they like.  What a poll
reports is one of `Reports`: on POSIX all that is `Ready`, on Windows any part of it
with the socket that the bisection looks at first (`Middle`); `missed` remembers that
something was left out during a drain.

### ReprocPath, ReprocArgv, ReprocOptions

Operators on sequences of characters and records of options.  A loop of the code is a
function from the number of rounds to its variables after them (`Walking`, `Escaping`,
`Sizing`, `Joining`), so that what is true after each round can be stated and proved.
`Normalize` walks a path backwards with the counters of `reproc_path_normalize`; its
reference `NormalForm` resolves a path segment by segment, forwards.  Both agree with
the compiled C function on all inputs of up to six characters over the alphabet used.
For `parse_redirect`, `Documented` says what `reproc.h` allows for a stream,
`Overlooked` what it forbids and the code accepts all the same, and `WellFormed` what
`redirect_init` asserts of the result.  `ArgvJoin` is `argv_join`, `EscapedSize` the
second copy of its loop, which computes what is allocated.  The reference is
`CommandLineArgs`, by which the child's C run time splits a command line; it is
external.

### ReprocPollWin, ReprocDescriptors, ReprocCpp

`PollWin32` maps an array of sockets with the events the driver will signal to
what `poll_win32` writes into it.  A socket is its rank in the order of
`memcmp`, by which `handle_map` is sorted, while the driver's answer is in the
order of the array (`Answer`), and `Bsearch` halves it all the same (`Halving`, a
range of the array for each round).  `PollWin32Right` is what `reproc_poll` needs
of it.

`Opening` has the table of descriptors after each file that `reproc_start` opens, at
the lowest free number, and `AtFork` is the last of them; `CloseFds`, `Dup`,
`KeepExit` and `Exec` are what the child does with it.  `Limit` is the number of
descriptors.  `Started` gives what the program finds, for every subset of 0, 1 and 2
that the application has open and every redirect to them.

`OptionsFrom` is the initializer list of `reproc_options_from`, matched with the
order of the fields in `reproc.h`; `Clone` is `options::clone`; `CRound` and
`CppRound` are one round of the two drains, and `DrainsAlike` compares them for
every answer of poll, read and sinks.

## 3. Runs

| Run | Question | Result |
|---|---|---|
| `handle_serial` | two threads that keep the operations that wait apart, or one that runs `reproc_run_ex`: are signals, results, reaping and the exit pipe right, is the contract implemented, and does the run return with a true result and its handle freed, whichever of its calls fails? | holds |
| `handle_any` | waits, stops and kills at once, fork mode, signal handlers, a child that takes every liberty: what is still true? | no status is invented, destroy leaves no child that nobody has killed, calls return but for as long as `waitpid` blocks |
| `stop_timeout` | does `reproc_stop` report a timeout with the stop actions of the example in `reproc.h`? | violated |
| `spawn` | all redirects with a failure of every step: descriptors, mask, results, orphans, what the program inherits | holds, with the exceptions named in the properties |
| `windows` | two threads in `reproc_start` at once, one of them with every redirect, failure and operation: handles, error mode, results, statuses, the busy loop | holds, with the exceptions named in the properties |
| `poll` | deadlines, timeouts, events of two sources over several calls | holds |
| `poll_mixed` | do deadlines bound a poll when only some processes have one? | violated |
| `streams` | reads, writes, closes and drains in any order, on both platforms | holds |
| `streams_windows` | does `reproc_read` on Windows always see the end of the child? | violated |
| `pure` | the functions without state, on all small inputs | holds |
| `dup_cloexec` | is a standard stream that the child takes over from the parent open in it? | violated |
| `cpp_fork` | does the C++ `process::fork` fork? | violated |

The five violated runs are the five findings of `PROJECT.json`:

- **`stop_timeout`**: a NOOP sets the result of `reproc_stop` to 0
  (`reproc.c:603`).  With wait, terminate and a NOOP, as in the example at
  `reproc.h:482-486`, a child that outlives both timeouts is reported as if it had
  exited with 0, where `reproc.h:506-510` promises `REPROC_ETIMEDOUT`.
- **`poll_mixed`**: a process without a deadline compares as -1 milliseconds
  away and is taken for the earliest, so the deadlines of others are not waited
  for.
- **`streams_windows`**: `reproc_read` counts on the exit event to close the end
  that the parent keeps; after `reproc_wait` there is no exit pipe, and after
  the deadline `reproc_poll` returns 1 for the deadline alone.
- **`dup_cloexec`**: the loop over the standard streams makes each source of
  `dup2` close-on-exec (`process.posix.c:376`), also when the source is one of
  the parent's standard streams; with stdout inherited and stderr redirected to
  the parent's stdout the program starts without stdout.  The comment at 370-371
  says that just this is avoided.  (Observed with the compiled library too.)
- **`cpp_fork`**: `reproc_options_from` lists `nonblocking` where the struct has
  `fork` (`reproc.cpp:61`), so `process::fork` is refused for want of arguments,
  where `reproc.hpp:185-186` says that it sets the `fork` option.

## 4. Bounds

| Run | Bound | Why it is enough |
|---|---|---|
| `handle_*` | two threads | all hazards here are between one call and another (or the child); the theorems cover any number |
| `handle_serial` | two exit codes, 0 and 3; three plans; sinks that return -1, 0 and 1 | the default plan (all NOOPs), the example of `reproc.h`, with a NOOP at its end, and one that signals first, waits for the deadline and kills; the three cases of sinks are those `reproc_run_ex` and the drain tell apart |
| `handle_any` | one exit code, one plan (wait, terminate, kill); waits overlap stops, and stops kills | the code is not 0, so that an invented status shows; the plan has all three actions and timeouts that end; two waits and a wait with a kill meet within those overlaps, since a stop does both |
| `stop_timeout` | one thread, the plan of the example | the smallest that shows it |
| `spawn` | none on steps; two errnos | every failing step alone and in sequence (parent, then child); two errnos tell a reported one from another; the theorems cover all of them |
| `windows` | two threads, of which one calls on after the start; four sets of options for the first, one for the second; one errno | between them the options meet every redirect, input, a missing standard handle, two streams on one handle and `fork`; two threads meet at every shared statement; what follows a start is of one handle only; the theorems cover any number of threads |
| `poll` | two sources, deadlines 1, 2 or none, calls up to time 2, clock up to 3 | a process with and one without a deadline, two different deadlines, a clock tick between two iterations, after the search and during the sleep, several calls in a row |
| `streams` | pipes of 1, reads of 1, 1 byte per stream, no input, 1 or 2, 2 writes; both streams are pipes; the application may close stderr, heirs may have stdout | full and empty pipes, input that fits and input that does not, an output pipe that fills because an echoing child is fed; one stream that ends with the child, one that goes on after it, and one that is closed under a drain's eyes; a missed event needs the two streams and the exit pipe |
| `pure` | paths of 6 characters (or 4 behind `//x/x`), arguments of 5 characters in all, all redirects | two segments with dots and repeated separators; a run of backslashes before a quotation mark, at the end and elsewhere |
| | arrays of 3 to poll (`PollSize`) | a look-up that misses needs two entries, and with three the middle one is found while one on either side is missed |
| | 4 arguments (`ArgCount`) | one between two others, empty or not |
| | 17 descriptors (`Limit`) | the pipes of a start fit (12), with the standard streams and two files of the application at the highest numbers, one of which the loop misses; the assumption `LimitAssumption` asks for no fewer |
| | | but for where a path leads, the theorems cover inputs of any size |

`MCPiped` and `MCInterests` leave stderr and stdin out of `poll`: the index
arithmetic is checked with stdout (1) and exit (3), of two sources.

## 5. Fairness, and where the system stops

Only what the code's scheduling gives is assumed: a thread inside the library takes its
next step (`WF` of the steps of a call), a signal that has been sent and is not ignored
ends the child some day (`ChildSignalled`), and time passes.  No fairness is assumed of
the callers, of signal handlers (`*Interrupted`), or of children that run, sleep or hold
a pipe. In `ReprocStreams` the child is fair in the sense that it writes what it has to
write, reads its input and exits when it has nothing left: that is the premise of
`DrainReturns`.  Its heirs need not ever end (there is no fairness for `HeirsEnd`), so a
drain without a deadline may wait for them for ever.  An uncooperative child is covered
by the deadline and by `NonblockingReturns`.  `ReprocPoll` and the deadlines need that
time passes. In `ReprocWindows` a process that is ending gets to its end; no child has
to begin.  In `ReprocRun` the run's thread goes on, and the drain ends when it can
(`DrainEnds`); that it breaks off is never assumed.

`CHECK_DEADLOCK FALSE` stands where the system ends: `reproc_destroy` has freed the
handle (`handle_*`, `windows`); the one `reproc_start` is over (`spawn`); the clock
has reached its bound (`poll`); a start failed because its input does not fit
(`streams`); inputs have reached their size (`pure` and the two runs on its module).
Calls that wait for ever are found by the liveness properties instead.

## 6. Properties that speak of less than everything

- `handle_serial`, the theorems of `ReprocHandleProofs` and
  `HandleImplementsContract` speak of callers for whom `SerialCallers` holds (the
  operations that wait, stop and destroy run alone).  That is less than
  `README.md:240-243` of the library allows, see section 9.
- `BoundedCallsReturn` and `RunReturns` hold but for as long as `WaitsPastTimeout`: a
  child that runs on after its exit pipe has hung up (it closed the descriptor, or is
  a fork of the parent) keeps a wait in `waitpid`, which has no timeout.
- `StopResult` allows 0 without a status where the last stop action is a NOOP, which is
  what `stop_timeout` is about.  Its second part, that a timeout means that the plan has
  been gone through, is about plans with a kill.
- `KillReachesChild` and `DestroyEndsChild` speak of a child that is over or has been
  sent SIGKILL, which it dies of in its own time: the last wait of `reproc_destroy`
  (100 ms) may end before.  `DestroyEndsChild` leaves out a wait of `reproc_destroy`
  broken off by a signal handler.
- `StartCleansUp` leaves out the `NullDevices`, which nobody closes, and the signal mask
  where `fork` or its pipe fails; `ChildContained` leaves out handlers of real-time
  signals, which may run in the child until it calls `exec` (in fork mode from then
  on), and the `NullDevices` in a forked child.
- `StartedMeansRunning` and `ErrorTrue` name the failures they leave out (section 9).
- `StartTrue` leaves out a failing `env_concat`; of an error by a race it says that
  two starts shared the standard handles.  `HandlesAccounted` leaves out `Leaks`,
  `ErrorModeContained` starts that overlap, `StatusTrue` a wait that timed out after
  the exit pipe had hung up, `DestroyLeavesNoChild` a control event that could not
  be sent and a wait on the process that failed.
- `RunTrue` allows 0 where the stop actions end with a NOOP, and a child that has not
  been reaped where the last wait of `reproc_destroy` was broken off by a signal
  handler, or timed out on a child that is dying of SIGKILL or on descendants that
  hold the exit pipe.  It leaves out fork mode.
- `PlacedRight` speaks of redirects that stay `Apart` (no stream takes another's
  standard descriptor, no pipe lies on one) and leaves out the largest number.
- `PollWin32Right` asks for every signalled pipe only when pipes are in the order of
  `memcmp`, else for one of them.
- `OptionsReach` leaves out the two options that the wrapper mixes up, and the one
  that `clone` drops besides.
- `SleepsWithinDeadlines` and `PollReturns` leave out `Mixed` sources, which
  `poll_mixed` is about.
- `EventsTrue` is about poll(2), which reports every pipe that is ready.
- `ReadEnds` and `DrainReturns` hold where `Detects`: on Windows the exit pipe must
  be valid and no deadline be in the way.  `ReadEnds` further asks that nobody is left
  who could write (`NoWriters`): while an heir has the stream open, a read blocks
  though the child is gone.  `DrainReturns` leaves out heirs that stay, where there is
  no deadline.  `ToldOnce` leaves out a drain on Windows after the application has
  closed one of the streams, or in which `poll_win32` has missed an event.
- `RedirectsParsed` asks that exactly what `reproc.h` allows is accepted, but for what
  is `Overlooked`: the type STDOUT for stdin or stdout (`StdoutElsewhere`, against the
  assertion at `redirect.c:110`) and `parent` with `discard` where each stream has a
  redirect of its own (`UnusedAtOdds`, against `reproc.h:220-231`).
- `PathsNormalized` leaves out the degenerate results of section 9, and
  `ArgumentsRoundTrip` empty arguments.

## 7. Proofs

All theorems hold for every value of the constants that meets the named assumptions
of the modules (`HandleAssumption`, `SpawnAssumption`, `WindowsAssumption`,
`PollAssumption`, `StreamsAssumption`, `LimitAssumption`, `SizesAssumption`), which
say little more than what set each constant is from.  Where a theorem needs more of
its constants, its ASSUME says so and the paragraph on it says why.

**Handle** (`ReprocHandleProofs`).  `TypeCorrect` holds for any callers.  The
safety properties follow from `SerialInv`, which says which operation is at
which statement and what that statement counts on: between the status check
and the assignment of the status the handle says `IN_PROGRESS`, the exit pipe
is valid until it is closed, and a child that has been reaped while the handle
still says `IN_PROGRESS` has a thread at `close` or `assign`.  None of the
properties is inductive alone: that a signal reaches only the child needs that
no other thread is between `waitpid` and the assignment, which is why
`SerialCallers` is assumed.  From it come `SignalsOnlyTheChild`,
`PipesOutliveCalls`, `ReapedByOneCall` and `KillReaches`.

**Exit status** (`ReprocHandleProofs`).  `ExitStatusIsTrue` holds for any
callers, by the invariant (`TruthInv`) that whatever is about to be assigned to
the status is the child's code, and that a code does not change after the child
ended.

**Stop and destroy** (`ReprocStopProofs`).  `StopInv` says what a call knows at each
statement of the loop in `reproc_stop`, and what it has returned: which timeout it waits
with, that the wait for a deadline which lies behind it did end at the deadline, and
what is in `r` when the three actions are used up. `StopIsPatient` and `StopResultTrue`
follow for any callers.  `DestroyInv` adds how far the loop of `reproc_destroy` can get
with a child that still runs (past its kill only with SIGKILL on its way), with
`ProcessInv` for the child, its pid and the ends of the exit pipe.  `DestroyStopsChild`
assumes `StartApart`, that nobody starts the handle while another thread destroys it;
every other overlap is allowed.

**Refinement** (`ReprocStopProofs`).  `HandleImplementsContract` proves what
`handle_serial` checks: under the mapping of `ReprocRefinement` the initial states of
`ReprocHandle` are initial states of the contract, and every step is a step of the
contract or a stutter.  The proof goes through the actions; for each it shows what the
contract sees of the child (`Live`), of SIGKILL (`Doom`: only calls that kill send it,
and only to a child that lives), of the status (`Learn`) and of the call that begins or
returns.  What a result means at the moment of its return (`Means`) comes from
`TruthInv`, `SerialInv`, `StopInv` and `DestroyInv`. The theorem assumes `SerialCallers`
and `StartApart`, that there is no fork mode and that the child does not close the exit
pipe it inherited.  Without the last two an exit event says nothing about the child,
without the first a signal of `reproc_kill` may go elsewhere (section 9).

**Run** (`ReprocRunProofs`).  A behaviour of `ReprocRun` is one of
`ReprocHandle` (`RunCalls`), so that all invariants of the calls hold of the
calls of a run.  `RunInv` says that the run is the only caller, which call it
waits for at each statement and what its `r` is.  `RunIsTrue` needs no assumption
on the constants: a run cannot overlap with itself.

**Start** (`ReprocSpawnProofs`).  `StartInv` has seven parts beside the types.
`ChildInv` says at which statements the child lives and that at most one error pipe
carries a message, which is the cause of the failure; `ParentInv` what the parent has
learnt when it is past each error pipe (an end of file on the first means that the child
is past `process_fork`, since until then the child holds the write end); `ResultInv`
what the result means once it is decided. `EndInv`, `OpenInv`, `PipeInv` and
`InheritInv` together determine the two descriptor tables from the handle, the locals
and the statement, for all redirects; that nothing is closed twice follows, though
stderr may be the same descriptor as stdout, and so does which descriptors are left open
for good: the `NullDevices` that have been opened, and no other.  `TypeOK` itself needs
`MaskInv`: the child inherits a mask, and it is `"all"` only because the parent has just
blocked every signal. From these come `StartIsClean`, `StartErrorTrue`, `StartedRuns`
and `StartContains`, for any redirects, failures and errnos.

**Windows** (`ReprocWindowsProofs`).  The theorems hold for any number of
threads, any sets of options, failing steps, error codes and exit codes.  Beside
the types and the range of each loop (`Typed`), there is an invariant for each
thing that the threads share or that outlives a statement (`OnceOK`, `ModeOK` and
`WinsockOK` relate the threads to each other, the others speak of one thread and
what the rest can do to it):

| Invariant | What it says | Rests on |
|---|---|---|
| `OnceOK` | behind `reproc_call_once` the functions of the attribute list are there | `Typed` |
| `ModeOK` | two threads in `process_start` know of each other; where none ever overlapped the mode is `"quiet"` during `CreateProcessW`, the caller's otherwise, and `previous` holds the caller's | `Typed` |
| `StatusOK` | a status in the handle is that of a child that has ended, or 0 of one that a wait killed | `Typed` |
| `EndsOK` | which of the child's ends the locals of `reproc_start` hold at each statement, determined by the options | `Typed` |
| `FlagsOK` | handles made inheritable for `CreateProcessW` still are, unless they are the caller's and another start overlapped | `ModeOK`, `EndsOK` |
| `StartOK` | no error so far, or the error of the step that failed and no child | `OnceOK`, `EndsOK`, `FlagsOK`, `StatusOK` |
| `DestroyOK` | with a running child, the kill is still ahead in the loop of `reproc_destroy` | `StartOK`, `StatusOK` |
| `OwnedOK` | what is open is what the `reproc_t` and the locals hold | `EndsOK` |
| `InheritOK` | what can be inherited is on the list of a start that has not finished | `EndsOK` |
| `WinsockOK` | as many references to Winsock as starts that are neither undone nor destroyed | `StatusOK` |

`StartIsTrue` needs the longest chain: that `CreateProcessW` refuses a handle only
in a race follows from `FlagsOK`, which follows from the fact that all handles of
a thread are its own except the standard ones.  `HandlesAreAccounted` follows from
the last three: every failing step between two handles leaves the locals and the
handle in agreement with what is open, and the `finish` label closes exactly the
locals (`EndsLeft`), though stderr may be the same handle as stdout.  `DestroyKills`
assumes that `GetLastError` after a failed call is never `WAIT_TIMEOUT` (258): it is
the result of a wait, no failing call sets it, and negated it would be
`REPROC_ETIMEDOUT`, after which `reproc_stop` goes on.

**Polling** (`ReprocPollProofs`).  `PollSleepsWithinDeadlines` is a loop
invariant (`Searched`): after `n` sources, `min` is what was left until the
deadline of `earliest` at some moment since the call began, and is at most what
was left of any other deadline when it began.  The clock may move during the
search, so nothing stronger holds; the bound on the sleep is that of the
property.  A source found to have expired stays so until the second `expiry`.
`PollExpiryTrue` rests on `PollInv`: what a call sleeps for is `Expiry` of its
timeout and of the deadline of `earliest`, as they were when it entered poll(2),
so that a sleep that differs from the timeout was one for the deadline
(`reproc.c:373`).  `PollEventsTrue` is about the flat array: every index is one
pipe of one source and every pipe has its index (`Layout`, `IndexOf`), hence the
events that are handed out are those that were asked for and are there.

**Streams** (`ReprocStreamsProofs`).  `StreamsInv` strengthens `ClosedAtEnd` and
`InputThenEnd` by what is true during `setup_input`, where there is no child
that could read or hold an end.  `DrainInv` strengthens `DrainComplete`: the
sink of every stream that was open when the drain began and is not any more has
been told, and a round that only the exit event began finds empty pipes and no
writer, so that it must end with both streams closed.  That last part is what
justifies `drain.c:77-81`, where the drain stops at an exit event that comes
alone.  `StreamsDrainComplete` is proved for both platforms.  `StreamsToldOnce`
adds `KeptInv` (on Windows the parent lets go of a kept end only when the child
is gone) and `RoundInv`: a round that the exit event began leaves no kept end
behind it, and in any other round the streams to read have data as long as an
exit event is still to come.  So a stream is given up only when no exit event
can make the drain read it again.  This takes polls that report all that is ready:
`RoundInv` says nothing once an event has been `missed`, and that an exit event is
to come is said in terms of `Nobody` being left, neither the child nor its heirs.

**Functions without state** (`ReprocPureProofs`).  The theorems are of the
specification in `MCReprocPure`, whose bounds are constants: its inputs grow to any
size.  `InputsTyped` says which sets they lie in, and everything else is about those
sets.  The library's induction theorems cannot be used (section 8), so the module
has its own: that a set of numbers has a least member comes from the library's
`WFMin`, which is about sets; induction over the rounds of a loop is then induction
over the set of rounds after which something is true (`NatSets`, `Rounds0`), and
`LoopExists` says that the function by which a loop is written exists.

| Theorem | What it covers | What it rests on |
|---|---|---|
| `ArgumentsArriveWhole` | any number of arguments of any length | reading what has been escaped of an argument up to a character gives the argument up to it, without the backslashes counted and not yet written; between two arguments the reader is in one state (`Between`); the size counted is the length written, character by character |
| `PathsAreWalked` | any path, on both platforms | `RoundsLeft`, which every round lowers, also those that go back in the path; `Unrepeated`, which says what the flag `separator_appended` means |
| `PollIsReported` | arrays of any length, with any sockets in any order | each round of `bsearch` halves its range, and what it finds is what was looked for; in a sorted array it finds it; in any array the middle of the answer is found |
| `DescriptorsArePlaced` | any number of descriptors from 17 on, every set of open standard streams, redirects to them, to files at the highest numbers, to pipes and to nothing | the table after each file that was opened: that file is at a number of its own, below those of the application; then the table after each round of the loop over the three streams |
| `RedirectsAreParsed` | every redirect of every stream with all shorthands | which pairs of type, member and shorthand ask for two things, and which of them `parse_redirect` overlooks |
| `WrapperIsFaithful` | all options; rounds of a drain (any results of the library and of the sinks: lemma `Draining`) | the fields of the initializer list against those of the declaration |

`PathsAreWalked` proves two of the four parts of `NormalizeRight`: the loop, which
sets its index forward again whenever it knows what kind of segment it is in, comes
to an end, and separators are not written twice.  That the walk keeps where the path
leads stays with TLC.

## 8. Only model-checked, and not modelled

Only model-checked:

- all liveness properties (`BoundedCallsReturn`, `CallsReturnAfterExit`,
  `RunReturns`, `CallsReturn`, `StartReturns`, `PollReturns`, `ReadEnds`,
  `StreamCallsReturn`), which are beyond the prover;
- of `PathsNormalized`, that a normalized path leads where the path did and is the
  normal form.  The walk reads characters from the back, some of them twice, and the
  reference folds segments from the front; relating the two needs induction over
  segments, for which the library's induction theorems cannot be used (they take an
  operator, which no backend can instantiate).  The detour through sets of rounds
  has been taken for this loop as far as its end and its separators.

Not modelled:

- `strv.c`, `reproc_path_join`, module paths, the bundled sinks, error strings,
  UTF-16: lists and strings without interaction, or one system call each.
- Memory exhaustion in `reproc_new`, `reproc_poll` and `reproc_drain`, and of
  the allocations inside a Windows start except the environment's.
- Windows: heirs that inherit some of the handles only (they get all or none of those
  that are inheritable); what `shutdown` of a socket tells the other side before its
  last handle is closed; the environment block, the NT calls of `poll_win32` (their results
  are inputs of `ReprocPollWin`).
- C++: RAII, containers and iterators, the sinks as callables.
- The moment between `pipe()` and `FD_CLOEXEC` where `pipe2` is missing; clock
  adjustments (`now()` is `CLOCK_REALTIME`); the contents of data.
- Tests, examples and build files.

## 9. Where the code and its documentation differ

Besides the five findings, met while reading; no run shows these.

The handle:

- `README.md:240-243` allows different operations on one handle from different
  threads.  With {wait, kill} in `Overlaps`, `NoStraySignal` does not hold (no run
  shows it): `reproc_kill` reads the status, `reproc_wait` of
  another thread reaps the child, the pid is reused, the signal is sent.
- `reproc_destroy` stops the child with fixed actions (`reproc.c:643-652`), not
  with those of the options (`reproc.h:249-250`).
- `process_wait` on POSIX ignores its timeout (`process.posix.c:465-471`), so a
  wait blocks past it whenever the exit pipe hangs up before the child ends.
  With `fork` set this is the rule: `reproc_start` closes the write end in the
  forked child (`reproc.c:246`), so that the exit event of `reproc.h:312` comes
  while the child runs.
- A wait for `REPROC_DEADLINE` without a deadline is infinite; an exit status of
  137 may be an exit or a SIGKILL.
- When a sink returns a positive value the drain ends, and `reproc_run_ex` goes
  on to the stop: its result, not the sink's, is returned.
- `reproc_run` says "unless `discard`" and also looks at `file` and `path`.

Starting on POSIX:

- The signal mask stays blocked in the parent when `fork` or the pipe before it
  fails (`process.posix.c:161-172`).
- When the environment cannot be allocated (`process.posix.c:344`) the start
  returns 1 without a child, where `reproc.h:337-339` promises an error.
- A refusal to close too many descriptors reports errno, not `EMFILE`
  (`process.posix.c:267-269`, 293); EINTR while the error pipe is read reports
  success (198, 434), and EINTR in the `waitpid` after it leaves a zombie.
- The loop that closes descriptors stops one short of the largest number.
- Redirects that take another stream's descriptor are applied in order: with
  stderr on descriptor 1 and stdout on a pipe, stderr goes to the pipe.  A parent
  whose standard streams are closed gets pipes numbered 0 to 2: `dup2` of a
  descriptor onto itself keeps `FD_CLOEXEC`, and an exit or error pipe there is
  overwritten.
- When a redirect to the parent finds no stream and falls back to `discard`
  (`redirect.c:64-67`), the parent never closes the descriptor that it opened: it is
  destroyed by the type of the options.  These are the `NullDevices` of
  `StartCleansUp`.
- `process_fork` resets the handlers of signals 0 to 31 (`process.posix.c:231`) and
  then unblocks all signals (250): a real-time signal may run the parent's handler in
  the child, an exception of `ChildContained`.
- `redirect_init` does not take `REPROC_REDIRECT_STDOUT` for stdin or stdout,
  `parse_redirect` does; `parent` together with `discard` is accepted when all
  three types are set (`reproc.h:220-231`).  Both are exceptions of `RedirectsParsed`.

Windows:

- A wait that times out terminates the process and returns 0
  (`process.windows.c:656`), which `reproc_wait` stores as an exit status.  An
  exit code above `INT_MAX` becomes negative and is never stored; the one that
  reads as `REPROC_ETIMEDOUT` is taken for a timeout.
- `reproc_terminate` is refused when the child shares no console; the stop loop
  of `reproc_destroy` then ends before the kill.
- When the environment cannot be allocated and the last error is 0, the start
  returns 1 with `INVALID_HANDLE_VALUE` as the process, which is also the pseudo
  handle of the caller itself.
- A start clears the inherit flag of the caller's own standard handles
  (`process.windows.c:600-602`), under the feet of another start; two starts
  that overlap may leave the error mode of one of them behind.
- `socketpair` falls through to `r = -WSAGetLastError()` when it has succeeded
  (`pipe.windows.c:149`), and the last error may still be the `WSAEWOULDBLOCK` of
  its `connect`: a pair that works is then given up.
- `poll_win32` looks its results up by binary search in an array nobody sorted:
  it may miss a signalled pipe, though it reports one.
- A drain may tell a sink of the end twice (`drain.h:33-34`) when the application
  closed the other stream, or when a poll missed the exit event that a later one
  reports: the exceptions of `ToldOnce`.

Polling, options and functions:

- `reproc_poll` returns `REPROC_EVENT_DEADLINE` and 1 where `reproc.h:256-257`
  speaks of `REPROC_ETIMEDOUT`.
- The C++ wrapper refuses a start with `nonblocking` for the same reason as
  `fork`; `options::clone` drops the last two options.
- `reproc_path_normalize` makes `x/..` empty, `..` into `../`, `./..` into `../.`
  (once more gives `../`), and on Windows `./C:` into `C:`; `reproc_path_root`
  returns 2 for the relative `C:t`.
- `argument_escape` does not quote an empty argument, which is lost.

## 10. What is left

In order of weight:

1. The composition of `ReprocPoll` with `ReprocStreams`: an event loop over
   several children, each with its own pipes.
2. The rest of `PathsNormalized` as a theorem, by way of the segments: that the
   number of segments to skip, counted from the back, is what resolving from the
   front takes away.
3. `HandleImplementsContract` for callers that overlap in any way: the contract
   would have to let `reproc_kill` succeed without reaching the child, whose pid may
   be another process's by then, and let a wait fail with `ECHILD`.
