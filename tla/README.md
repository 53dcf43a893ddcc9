# A verification project for toolcage

toolcage is an MCP server that runs every `tools/call` in a fresh wasm instance
under a policy. These modules model the parts of it where threads, clocks,
failing writes, restarts and long sequences of requests meet, and the pure parts
they rest on; TLC checks them on small instances and TLAPS proves every safety
property that the passing runs check, for every instance.

Paths such as `sandbox.rs` are those under `src/src/` of the repository.

## 1. Inventory

| Component | State it keeps | Operations | Talks to |
|---|---|---|---|
| Sandbox (`sandbox.rs`) | engine epoch; per call: worker thread, store with its epoch deadline and fuel, stdout/stderr pipes, an mpsc channel | `WasmRunner::new`, `call`, `run_guest`, `execute`, `classify_error`, the epoch ticker | spawns a worker per call, receives its `RunOutput` by channel, joins it; the ticker thread increments the epoch every worker's store is compared with |
| Runner contract (`runner.rs`) | none | `call -> CallResult`, `FailClass` | the only thing the session knows of the sandbox |
| Session (`server.rs`, loop in `main.rs`) | `initialized`, `calls`, page size, cursor key | `handle_line`, `handle_request`, `handle_list`, `handle_call`, `finish` | reads stdin, writes stdout; asks the policy, calls the runner, logs to the auditor |
| Auditor (`audit.rs`) | the sink, the `dropped` counter | `to_file`, `log`, `rfc3339_utc` | called by the session and by `cmd_run` |
| Paginator (`paginate.rs`) | none between requests; key and page size of the process | `page`, `encode`, `decode`, base64url | built per `tools/list` from the policy-filtered list |
| Policy (`policy.rs`) | rules read once | `from_yaml_str`, `build_grant`, `decide`, `visible` | asked by `tools/list` and `tools/call` |
| JSON-RPC codec (`rpc.rs`) | none | `parse_line`, `extract_response`, transcripts | session, sandbox |
| Start-up (`main.rs`, `WasmRunner::new`, `parse_probe`) | flags, policy, module, probe result | `real_main`, `FlagParser`, `cmd_run` up to its loop, `cmd_inspect` | reads the files, opens the audit file, probes the guest; builds all of the above |
| `check` (`cmd_check` in `main.rs`) | the number of problems | `check_grant` for the defaults and each listed tool | loads the policy, looks at host directories that later calls preopen |
| CI scripts, mock, toy guest | none | testing | - |

What makes each correct, and what is hard about it:

* **Sandbox.** A call is always answered; a timeout is never early; the epoch
  trap, which destroys the instance, comes before the join timeout, which only
  abandons it; nothing of a guest is left behind a reply that is not a timeout;
  an abandoned worker's late output reaches nobody; output that was cut is never
  passed on as an answer. Hard: three threads and three clocks (the guest's
  deadline counted in ticks at an unknown phase, the receiver's timeout in
  milliseconds, sleeps that end late), guests that block in host calls, come
  back, or never do, worker panics, and threads that accumulate.
* **Session and audit.** At most one reply per request and none per
  notification, in order; no guest runs but for a visible tool of an initialized
  client; a reply never precedes its audit event and agrees with it; the count
  `session_end` reports is right. Hard: any order of lines, writes that fail
  whole or half way, a process that ends at any step.
* **Paginator.** A page continues exactly the page its cursor came with; a
  complete walk has read the visible list once; denied tools are on no page.
  Hard: cursors outlive the list, the policy, the page size and the process.
* **Policy.** A tool's grant is the defaults overridden per field and per key,
  limits within their bounds; `tools/list` and `tools/call` agree. Hard: three
  layers that collide, limits judged after merging and the rest before, bounds
  at their edges.
* **Codec.** The first whole line that answers the id is the answer, whatever
  else the guest printed; every line is counted once. Hard: the pipe cuts the
  output anywhere, and an object next to text is no object.
* **Cursor text.** Every text that is accepted was minted, character by
  character. Hard: spare bits in the last character, three lengths of the last
  unit, a snapshot id of names that run together, an accumulator that wraps.
* **Start-up.** A command line is taken exactly when it is well formed; what is
  logged of the module and the policy is what runs; the probe is over before the
  first client line. Hard: repeated flags and flags as values, files replaced
  between the reads that load and those that hash, guests that list in pages,
  say nothing or never end.
* **Check.** It reports exactly the mounts that later calls would miss. Hard:
  tools without a section inherit the mounts of the defaults, and directories
  change between the check and the call.
* **Timestamps.** They advance with the calendar. Hard: ends of months, leap
  years, centuries and eras.

The hazards, each with its line and the properties that would catch it, are in
`PROJECT.json`.

## 2. Modules

| Module | Models | Checked by |
|---|---|---|
| `ToolCall` | abstract contract of `Runner::call` | refined by `Sandbox`, used by `Session` |
| `Sandbox` | `run_guest`, `execute`, `call`, the ticker, time | `Sandbox_*.cfg` over `MCSandbox`; `SandboxProofs` |
| `Session` | server loop, handlers, audit trail, end of the process, over `ToolCall` | `Session*.cfg` over `MCSession`; `SessionProofs` |
| `Pagination` | `tools/list`, cursors, restarts | `Pagination*.cfg` over `MCPagination`; `PaginationProofs` |
| `CursorText` | base64url and the framing of what is signed, `encode`, `decode` | `CursorText.cfg` over `MCCursorText`; `CursorTextProofs` |
| `Policy` | `from_yaml_str`, `build_grant`, `decide` | `Policy.cfg` over `MCPolicy`; `PolicyProofs` |
| `Check` | `cmd_check` and the preopens of `execute`, over `Policy` | `Policy.cfg` over `MCPolicy`; `PolicyProofs` |
| `Transcript` | the bounded pipe, `extract_response`, the outcome it leads to | `Transcript.cfg` over `MCTranscript`; `TranscriptProofs` |
| `Startup` | command line, files, probe and first events, over `ToolCall` | `Startup.cfg` over `MCStartup`; `StartupProofs` |
| `Timestamp` | `rfc3339_utc`, `civil_from_days` | `SessionProofs` |
| `ListTheorems` | nothing of the code: lemmas on sequences and flattening | used by the proofs of `Pagination`, `Startup` and `CursorText` |

The composition goes through the contract: `Sandbox` is shown to implement
`ToolCall` (`Contract == INSTANCE ToolCall`, with `open` the call `run_guest` is
serving and `acting` the workers that are alive), and `Session` instantiates the
same `ToolCall` as its `Runner`, and so does `Startup` for the probe. Both are proved
to use it as the contract has it (`SessionUsesToolCall`, `StartupUsesToolCall`). What
these show therefore holds with the real sandbox, without the product of their
states: `RepliesLeaveNoGuest` is the sandbox's promise about its answers, carried
through the session to the replies a client reads.
`Startup` ends (`serving`) where `Session` begins. `Check` extends `Policy` and
leaves its steps as they are, so a run of `Check` is one of `Policy`
(`CheckLoadsPolicy`).

### Sandbox and the code

* `main` is where the main thread is in `run_guest`: *idle*, *waiting* in
  `recv_timeout`, *joining* the worker after a message, or *crashed* by a panic
  of `thread::spawn`. `worker[c]` is where the closure of call `c` is: *setup*
  (`execute` up to `instantiate`), *running* wasm code, inside a *hostcall*,
  echoing stderr (*report*), *ended* with its `RunOutput`, *sent*, *gone*.
* `Start`, `RecvOutput`, `Joined`, `JoinTimeout` and `Disconnected` are the steps
  of the main thread; `Reply` is the rest of `WasmRunner::call`, which classifies
  the output and answers. `JoinTimeout` needs an empty channel because
  `recv_timeout` looks once more before it gives up.
* `Arm`, `SetupFails`, `Write`, `EnterHostCall`, `LeaveHostCall`, `GuestEnds`,
  `Interrupt`, `Reported`, `ReportPanic`, `Send` and `ThreadEnds` are those of a worker. Only wasm code
  checks the epoch, so `Interrupt` needs `running`.
* A store's absolute epoch deadline is kept as the number of increments still to
  come (`epochsLeft`), which `Tick` decrements for all stores; the code's
  unbounded epoch counter disappears.
* `Advance` lets time pass, unless a step is due that takes no time (a message to
  be received, an overdue trap), and never more than `Late` beyond what a sleep or
  a `recv_timeout` asked for. `elapsed` and `sinceTick` are the two clocks.
* `Written` models the bounded pipe: it takes what fits; an answer that does not
  fit whole is no answer. wasmtime and WASI are external and modelled from their
  use in `execute`.

### Session and the code

* One action per way through `handle_line`, `handle_request` and `handle_call`.
  An action reads the line, changes the session and leaves the audit events and
  the reply the handler will produce in `events` and `answer`; `Log` (one event)
  and `Reply` then perform the writes in the code's order, and each may fail: an
  audit write whole or half way (`torn`), a reply silently. The reader takes the
  next line only when both are done (`Idle`).
* An allowed call passes `calling` (before `thread::spawn`) and `running`; between
  `BeginCall` and `EndCall` the guest runs or stops on its own, and `EndCall`
  takes any outcome `ToolCall!Answer` allows.
* `Finish`/`Exit` is end of input (or a line that is not UTF-8), `Kill` a signal,
  `RunnerPanics` the panic of `thread::spawn`. `Init` is the state after a
  successful probe, with `session_start` and `probe` still to be logged.

### Pagination and the code

* `process` is the running process: its number stands for the key
  `ephemeral_cursor_key` drew, and its tools, policy and page size may all change
  with `Restart`. A cursor is the record of what its bytes encode. HMAC and the
  8-byte snapshot digest are taken to be free of collisions, so a tag that no
  process made (`key = 0`) verifies nowhere.
* `Visible` is the list without its denied tools, and
  `DeploymentAssumption` says that a list is no longer than the offset's cast
  reaches: the probe reads at most the 1 GiB that `output_max_kb` allows and each
  tool takes at least a byte of it.
* `Response` is `handle_list` with `Paginator::page`; `Verdict` and `Decode` keep
  the code's order of refusals. `NextPage` is a client that follows cursors,
  `StrayPage` one that replays or makes up cursors; `minted` remembers, for the
  properties, what every cursor stood for.

### Policy and the code

* `file` is what serde makes of the YAML: sections of three maps that hold what is
  written and nothing else (`None` of an `Option` is an absent key). Deserialising
  is external; a file that serde refuses is `BadFile`. A path, host, env name or
  tool name is a value whose *form* is all the code tests.
* `ReadHeader`, `BuildDefaults`, `BuildTool` and `Loaded` are the stretches of
  `from_yaml_str`, each of which may `Reject`; `Vacuum` is `permissive_vacuum`. The
  code takes the entries in the order of their names; the model leaves that open,
  as the entries do not see each other.
* The properties say the same once more, from the other end: `SaysAll` reads the
  layers (entry, defaults, built-in) of a field or key from the file itself, and
  `WellFormed` judges the whole file without any merging.
* `Session` takes the decisions of a policy as its constant `Decision`, whose values
  are those of `Decide`.

### Check and the code

* `Load` is a step of `Policy::load`; `CheckDefaults`, `CheckTool` and `EndCheck` are
  the calls of `check_grant` and the exit status. `Missing` is `is_dir()`, which
  follows a path and opens nothing: a directory that may not be opened is there.
* `Call` is the preopening in `execute` by a server that runs with the same policy,
  and `Change` anybody who creates, removes or locks a host directory, during the
  check included. `since` remembers when the check began.

### Transcript and the code

* A guest prints pieces: newlines, white space, whole objects and text, which is
  anything that is not an object. `Emit` writes one into the pipe, which takes what
  fits; half an object is text. `End` is the end of the guest and the checks that
  come before the output is looked at (`call`'s `output_overflow`, the probe's host
  error). `Abandon` is `run_guest` giving the guest up: an empty stdout takes the place
  of what it printed.
* `ScanPiece` and `ScanEnd` are the loop of `extract_response` over the lines; `line`
  holds the pieces of the current line that trimming leaves. `Conclude` is the
  match on the response in `call` and `handle_call`, or `classify_error` without one.
* A line that is not UTF-8 is no object, and counts like text does.

### Startup and the code

* A command line is a sequence of tokens of which only the "--" prefix, the known
  flags and "parses as a usize" matter. `Flag` is one turn of a command's loop over
  `FlagParser`: a switch, a flag with its value, or a usage error (exit 2).
* `LoadPolicy`, `OpenAudit`, `LoadModule`, `BeginProbe`, `EndProbe`, `ParseProbe`,
  `HashModule`, `HashPolicy`, `LogStart` and `LogProbe` are the statements of
  `cmd_run` in their order, each with its early exit; `Quit` ends the process and
  every thread in it, the ticker of a failed probe included. `cmd_inspect` takes the
  same way without policy and audit and ends with `Report`. `SpawnPanics` is the panic
  of `thread::spawn` (exit 101), for the ticker or the probe's worker.
* A file is its content, named, and its hash too. `Replace` changes any file at any
  moment after the command line was read, and remembers for which flags.
* `OpenAudit` creates a file that is missing and appends to whatever is there, so
  `--audit` may name the module or the policy.

### CursorText and the code

* A character is its value in the alphabet, `Bad` any other. `Encode` and
  `DecodeChar` are `b64url_encode` and the loop of `b64url_decode` with its
  accumulator, which wraps at `AccSize` (2^32 in the code); `CanonicalEnd` is its last
  test, and `Verify` the order of refusals of `decode`, `out_of_range` the last of them:
  `Boundaries` are the offsets at which the process with this key cuts this list into
  pages, where alone it mints and accepts cursors. `Frame` is the
  length-prefixed input of the snapshot id.
* `OFFSET_LEN`, `SNAPSHOT_LEN` and `TAG_LEN` are 4, 8 and 16 bytes in the code; the
  proofs take any. The run has 1, 1 and 2: four bytes leave one byte over a unit of
  three, as the code's 28 do. `Digest` and `Mac` are tables without collisions of
  what was ever hashed or signed: a client guesses no other tag.

### Timestamp and the code

* `CivilFromDays` and `Rfc3339Utc` are the functions of `audit.rs` with their
  divisions; `IsLeap`, `DaysIn` and `NextDate` are a calendar that is turned by a
  day. Beyond the code's `u64` milliseconds the functions are taken over all
  integers.

## 3. Runs

| Run | Question | Instance |
|---|---|---|
| `sandbox_timing` | do the nets close in the right order, never early, for the right call? | 2 calls, `timeout_ms` 100, 3700 and 3750, steps of 50 ms, ticks and wake-ups up to 50 ms late, set-up up to 50 ms |
| `sandbox_live` | is every call answered, do returning guests end, is the contract implemented, can cut output pass as an answer? | 2 calls, 1 OS thread, set-up up to 3 s, `--debug-guest-stderr`, writes against a bounded pipe |
| `sandbox_panic` | *violation:* a worker panic is called a timeout | 1 call |
| `session` | replies, order, visibility, audit, counts, progress | 3 lines of any kind, 2 failing writes, 3 outcomes, kill at any step |
| `session_killed` | *violation:* a run without an audit event | 2 lines |
| `session_torn` | *violation:* two events on one audit line | 1 line, 1 failing write |
| `pagination` | do pages fit together over restarts and forged cursors? | lists of 0 to 4 visible tools, page sizes 0 to 4, 2 processes |
| `pagination_restart` | *violation:* a cursor minted before a restart is answered after it | 2 processes, the second with page size 0 |
| `policy` | is the right file accepted, does a grant say what the file says, does `check` find what calls miss? | 1,462 files, with and without a second tool and an empty name, and no file and a bad one; host directories change twice |
| `transcript` | is the right line the answer, are lines counted, does the cut show? | up to 5 of 8 pieces, a budget of 6 bytes and a slack of 2; guests that end in every way or are given up |
| `startup` | are exactly the well-formed command lines taken, and read right; do hashes, listings and the probe hold, does start-up end? | command lines of every pair of 13 items, and of `--module m.wasm` and a pair for `run`; 2 sets of files, 1 replacement, 6 kinds of listing |
| `cursor_text` | is every accepted text a minted one, and is every minted one accepted? | 2 keys with pages of 1 and 2 tools, 3 lists of the same bytes, cursors of 4 bytes, an accumulator of 16 bits, 2 edits |

Why the bounds are enough. The sandbox serves one call at a time, so a second
call is all it takes to meet the worker that the first abandoned. 50 ms is half a
tick: it puts the start of a call, the set-up and the ticker at every phase that
the divisions of the code tell apart. 100 is a timeout of one tick; 3700 and 3750 are one
on the grid and one off it, and lie on the two sides of what the grace covers: their
deadlines are 39 ticks, which with a set-up of 50 ms may be 2000 ms late, and the
grace is 2000 ms for the first and, with the half tick that the division drops,
2050 ms for the second. So the run has both a guest that is abandoned while it
computes and one that is just trapped in time. The tick, the grace and the budget
are the code's own constants, not scaled.
The pipe run has one write that reaches the budget
exactly, one that passes it, and ones that straddle the cap. Three lines hold
`notifications/initialized`, a call and a request after it; a longer session
repeats these. `sandbox_live` allows a set-up longer than the budget, which lets
a worker be abandoned before its deadline is armed. A list of four has page sizes
that divide it and that do not, and at most three cursors. The policy's files pair
every kind of section in the defaults with every kind of entry: limits at each
bound and one beyond it, each form of bad key and mount, and the same env key and
mount in both with different values. Entries do not see each other, so one or two
tools are enough. The second change of a host directory lets one come back, and
puts one before the check and one after it. `OffsetRange` is 4, the length of the
longest list. Five pieces make a line with an object that is not alone, a line
with one that is, and a cut in either; the budget of six bytes is the size of three
objects. One replacement is enough to come between any two reads of a file. A
pair of edits can mend a cursor's length after breaking it, or move two
characters that the spare bits tie together. Bounds that exist only
for TLC are constants: `MaxLines`, `MaxFaults`, `MaxBoots`, `Steps`, `MaxChanges`,
`MaxPieces`, `MaxReplacements`, `MaxEdits`, and in a sense `MaxThreads`, which stands
for the OS limit on threads.

Deadlock is checked in every run: the systems stop only in `Crashed`,
`Stopped`, `Settled`, `Done`, `Over` and `Judged`, which are explicit.

Each property has a mutant in the module it is about (`Mutant:` comments): a
plausible slip of the code under which TLC finds the property violated.

### What the violations show

* `sandbox_panic`: `run_guest` treats every error of `recv_timeout` as a timeout.
  With `--debug-guest-stderr` and a closed stderr `eprintln!` panics in the worker,
  the sender is dropped, and the call is answered "wall-clock budget exceeded ...
  worker thread abandoned" (`sandbox.rs:284`) although nothing timed out.
* `session_torn`: `write_all` may fail after part of a line; `log` counts that
  event as dropped and appends the next to the fragment, so a second event, which
  is not counted, is lost to readers of the JSONL as well (`audit.rs:82`).
* `session_killed`: the event of a call follows its run (`server.rs:344`). "Every
  decision + outcome" is true of the calls that returned; a process that ends
  during a call leaves no trace of it.
* `pagination_restart`: "restart-stale cursor fails verification and is rejected"
  (`paginate.rs:20`, README) is true while pages are on. With page size 0 any cursor
  string is ignored, and a client in the middle of a walk, with a cursor that the
  process before the restart minted, gets the whole list as its next page. The comment
  at `paginate.rs:123` documents that cursors are ignored in this mode, and argues that no
  cursor is ever issued in it, which does not hold of the process before, and that this
  is no disclosure, which is right; the walk is repeated silently all the same. Made-up
  cursors are not part of the promise, and `StaleCursorsRefused` says nothing of them.

## 4. Fairness

* `Sandbox`: the main thread, the ticker, `Send` and `ThreadEnds` are threads that
  the OS schedules, and time advances: weak fairness. `Interrupt` is strongly fair
  because a guest may leave and enter wasm code for ever, and each time it runs it
  meets an epoch check. Nothing is assumed of guests, of WASI calls, of `execute`
  before the guest runs, or of `eprintln!`, all of which may block for ever.
* `Session`: the main thread goes on (`BeginCall`, `Log`, `Reply`), and `EndCall`
  is fair because the Runner's contract says so, which is what `sandbox_live`
  checks (`ImplementsFairToolCall`). No client is assumed to send, no guest to stop.
* `Pagination`: a client that began to read the list reads on.
* `Startup`: the main thread goes on (`Main`, which has `EndProbe` among its steps
  because the Runner answers every call). Neither the guest of the probe nor whoever
  replaces files is assumed to do anything.

## 5. Proofs

`SandboxProofs` proves for all values of `Sandbox`'s constants:

* `TypeCorrect`: `TypeOK` is inductive with the assumptions on the constants.
* `RepliesWaitForWorkers` and `RepliesFromOwnInstance`: `OnlyTimeoutsLeaveAWorker`
  and `NoForeignAnswer`. Neither is inductive. `ThreadInv` adds what the threads
  know of each other: while main serves a call, `current` is a call whose worker
  was started and that has no outcome; a message in the channel is from
  that worker, which is then past sending; calls that are not current and were
  started have an outcome; and only a timeout leaves a live one.
* `SandboxImplementsToolCall`: initial states map to initial states, and each step
  to a step of `ToolCall` or a stutter (`ContractStep`, one case per action). Fair
  refinement is TLC's.
* `TimeoutsAreNotEarly`, assuming no `--debug-guest-stderr`: `TimeoutNotEarly`. The
  invariant `EarlyInv` (`TicksTakeTime`) bounds time from below: if `Seen` of the
  deadline's ticks were met, the last `Seen - 1` of them took `EPOCH_TICK_MS` each,
  whatever the phase at which the first was met. `Deadline` has one tick more than
  the division needs to make up for that one. The assumption is what
  `sandbox_panic` shows to be necessary.
* `CrashesNeedAbandoned`: `CrashNeedsAbandonedWorkers`, from the type invariant and the
  guard of `Start`: the threads are used up by workers of earlier calls, and
  `ThreadInv` has each of those answered by a timeout.
* `CompletionsAreWhole`: `NoTruncatedCompletion`, from `OutputInv` (a pipe that
  refused bytes is full) and `OUTPUT_SLACK_BYTES > 0`.
* `DeadlinesComeFirst`: `DeadlineBeforeBudget`. `LateInv` bounds time from above: the
  ticks left, each late by up to `Late`, and the set-up leave the budget of a punctual
  call unspent (`PunctualFits`). `Punctual(t)`, which is part of the property, says how
  late is too late: set-up plus the lateness of all ticks has to stay below what the
  grace adds. With a timeout of 30 s and some 300 ticks the 2 s grace is used up when
  every sleep is late by about 7 ms: that is a condition on the host that the code does
  not check, and a call that does not meet it may be abandoned while it computes.

`SessionProofs` proves all invariants of `Session`'s passing run, for any number of lines,
tools, outcomes and failing writes. `SessionTyped` is the type invariant.
`SessionGates` needs that what runs was admitted by `handle_call` of a line read
while `initialized` held, and by no other line (`Admission`). `SessionReplies` rests on
`Ordered` and `Complete`: what is owed a reply is at most the line in hand, and every
earlier request has its reply or lost it to a failing write. `SessionAudits` (`Audited`)
ties each reply, sent or pending, to the event before it, and `SessionCounts`
(`Counted`, `Closed`) ties `calls` to the call events that were logged, dropped or are
pending. Each handler is summarised once, by what it leaves in `events` and
`answer`, and each invariant is proved from the summaries. `SessionUsesToolCall` maps
every step to one of `ToolCall` or a stutter, and `RepliesLeaveNoGuest` (`Abandoned`) says
that a guest which may still act belongs to the current call or to one that was answered
with "timeout".

`PaginationProofs` proves those of `Pagination`, for any lists, page sizes, restarts and
made-up cursors. The invariant says what each minted cursor stands for: a page
boundary of the list its process had, signed by that process. Whatever decodes is
therefore minted and of this list (`PagesFollow`), and the cast of the offset loses
nothing (`CursorsWork`) because of `DeploymentAssumption`. That `Visible` drops only
denied tools and keeps the order follows from `ListTheorems` (`PagesFilter`). `WalksAreWhole` assumes that no restarted process
has pages off; `pagination_restart` shows why.

`PolicyProofs` proves `PolicyTyped`, `GrantsValid`, `FilesJudged` and `GrantsFollow` for any set
of files. The invariant has three parts: `Granted` (each grant built so far is
valid), `Judged` (what has been passed was good, and a rejected file has a bad part)
and `Built` (what is built is what the sections passed so far build, the defaults
being settled before the first entry is built over them). `BuildableIsOk` is the
reason why limits may be judged after merging: over a valid grant the merged
limits are good exactly when those that were written are. `TwoLayers`, `ThreeLayers` and
`MergesSay` relate nested merges to the layers that `GrantsFollowTheFile` reads.

Its second half is about `Check` and proves `CheckLoadsPolicy` (every step of `Check` is one of `Policy` or a
stutter), `CheckedOpen` and `ProblemsReal`, for any files and any number of changes of
directories. While nothing has changed since the check began, its count is above
zero exactly when a grant it has seen lacks a directory (`Counting`), it ends well
only after it has seen all (`Ended`), and the last call met the directories as they
are (`Calling`). A tool without an entry runs with the defaults, which are always seen.

`StartupProofs` proves all invariants of `Startup`'s run for command lines of any length
and any number of replacements: `StartupTypes`, `ArgumentsRead`, `HashesHold`, `ProbesOver` and
`ListingsHonest`. `Arguments` says that the tokens before `pos` are well formed and what they
set, so what is taken is well formed (`InForce`) and a token that the parser refuses makes
the whole line ill formed (`TurnedAway`); `Loading` that what is in force is what the file holds unless it was replaced
after it was loaded; `Probing` that from the end of the probe on its answer is in and
its guest gone, or the process about to exit; `Typed` that what the probe reported is
`Listing` of what the guest printed, of which `ListTheorems` shows that it is the named
tools of the first page. `StartupUsesToolCall` is the step-by-step mapping to the contract.

`TranscriptProofs` proves all invariants of `Transcript`'s run for any pieces, budgets and
lengths: `TranscriptTyped`, `FirstAnswer`, `LinesCounted` and `OutcomeFollows`. While
scanning, the closed lines, those that end before `pos`, are judged as the reference
judges them, and `line` is the open one. `Piped` relates the pipe to the sum of all that
was printed: below the cap it holds everything, beyond it it is full. `Concluded` then
has the outcome read off the first answer of a pipe that was not cut, or refused.

`CursorTextProofs` proves `MintedOnly` and `MintedDecode` for parts of any length, any lists,
keys and number of edits.

* Encoding: three bytes and their four characters determine each other (`BytesReturn`,
  `CharsReturn`), so a text of whole characters whose spare bits are zero is the
  encoding of the bytes it decodes to (`EncodeDecode`), and what was encoded decodes
  to what it was (`DecodeEncode`). Texts are cut in units of four, the last of two,
  three or four.
* The decoder: `Held` says that `raw` is what the first `pos` characters decode to and
  that the low bits of `acc` are those of the characters read last. The accumulator wraps,
  which loses nothing because no byte reaches back more than 12 bits (`LowBits`): that is
  what `AccAssumption` asks, and 32 bits give.
* What is signed: `FrameInjective`. Names with their lengths are prefix-free, so that two
  lists with one frame are the same list, for any names; without the lengths this fails,
  as the mutant shows.
* `CursorInv` puts these together: an accepted text was read to its end and ends
  canonically, its tag is in `Mac`, so its body was signed by this key, and the snapshot
  id in it is that of this list; hence the bytes, and with them the text, are those of a
  mint. A text nobody edited meets each test.

The last part of `SessionProofs` is about `Timestamp`. It proves, for every day and every
millisecond, that the date of the next day is the next date of the calendar
(`DatesFollow`) and that a timestamp is in range and stands for the instant it was made
of (`TimestampsAgree`). The argument splits a day into era, year of era and day of year;
the year of an era is a quotient with three corrections, shown to be the number of
whole years before that day.

`ListTheorems` holds what these need of numbers and sequences: a set of naturals has a
least element (`Least`), from which inductions over lists are written out by a least
counterexample; and what `FlattenSeq` returns of no list, one list more, lists of at
most one element, and lists of which none begins another (`FlattenInjective`).

Four theorems say what remains of the promises that the violation runs break:

| Run | Broken promise | What is proved |
|---|---|---|
| `sandbox_panic` | a timeout is a timeout | `TimeoutsAreNotEarly`: without `--debug-guest-stderr` it is |
| `session_killed` | every run has its event | `RunsAudited`: it has, if nobody kills the process (`EndsByItself` of each step); a panic of `thread::spawn` loses no event of a run |
| `session_torn` | one event per line | `DamageCounted`: damaged lines are no more than dropped events, so there are none while none was dropped |
| `pagination_restart` | stale cursors are rejected | `StaleRefused`: those of another process are, by every process with pages on |

All proofs use only the named assumptions of the modules, which TLC evaluates in the
runs (types of the constants, `DeploymentAssumption`, tables of forms, `Digest` and `Mac`
without collisions), and, where a theorem states one, the hypothesis in its statement:
no `--debug-guest-stderr`, no later process without pages, `EndsByItself`. TLC
checks each property that is named in a theorem on the runs' instances as well.

Only model-checked: liveness (`EveryCallAnswered`, `ReturningGuestsEnd`, `RequestsEnd`,
`WalksEnd`, `StartupEnds`) and the fair refinement (`ImplementsFairToolCall`), both of which
need fairness and ENABLED, which this prover does not handle. The refinement without
fairness is proved (`SandboxImplementsToolCall`).

## 6. Not modelled

* SHA-256 and HMAC are tables or names without collisions; the repository has test
  vectors for them. Deserialising YAML and JSON is serde's.
* wasmtime's fuel and memory accounting and WASI are external: they appear as the
  exits they cause.
* Rendering of replies, reports and usage texts, and the fields of replies and
  events that nothing compares.
* The in-memory audit sink, `MockRunner`, the CI harness and the toy guest, which
  exist for tests.

Hazards without a property, each with its reason in `PROJECT.json`:
`notifications/initialized` without `initialize` (`server.rs:79`) and lines that are
not UTF-8 (`main.rs:214`) behave as the models say and nothing promises otherwise;
the arithmetic of dates (`audit.rs:153`) is proved and needs no run.

What would come next: `Session` over `Policy`, so that its constant `Decision` becomes
what `Decide` makes of a file; `Pagination` over `CursorText`, so that a cursor is its text;
and the contract's fair refinement on paper.
