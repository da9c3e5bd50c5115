# Formal models of r2sql

TLA+ models of the parts of r2sql where threads, processes and messages meet,
the TLC configurations that check them and the proofs TLAPS checks. The source
is the reference: every definition is translated from the code, and
`PROJECT.json` ("map") names the lines it stands for. Paths below are relative
to the repository.

## 1. The system

r2sql offers a radare2 session as SQL tables. A command line program opens a
backend (a linked radare2, or a spawned `radare2 -q0` behind two pipes), builds
a `Session` (an in-memory SQLite database whose virtual tables send r2 commands)
and serves it once, as a script, as a REPL, over HTTP or over MCP. A plugin does
the same inside a running radare2.

| Component | State | Operations | Interacts with |
|---|---|---|---|
| MCP server, `src/common/mcp_server.*` | `running_`, `pending_commands_`, per command `started`/`canceled`/`completed`/`result` | `start`, `queue_and_wait`, `run_until_stopped`, `stop` | transport threads (fastmcpp), query callback, signal handler |
| r2pipe backend, `src/lib/src/backend_r2pipe.cpp` | child pid, two descriptors, `m_`, project options | `start`, `cmd`, `shutdown`, `alive` | the child process, SIGPIPE |
| Plugin, `src/plugin/core_r2sql.cpp` | `g_state`: session, bound core, two servers, one mutex | `sql <SQL>`, `sql.http`, `sql.http-`, `sql.mcp`, `sql.mcp-`, `plugin_fini`, request callbacks | r2's command thread, server threads |
| Session, `src/lib/src/session.cpp` | database, backend, `query_mu_`, decompiler found | `query`, `raw_cmd`, SQL functions | backend, tables |
| Annotation tables (flags, bookmarks, comments, funcs, types, projects) | none of their own: cached rows, r2's flags and flag space stack | SELECT/INSERT/UPDATE/DELETE as r2 commands | session, backend |
| Read-only tables and generators | position of an iterator | SELECT | backend |
| grep table, `src/lib/src/tables_grep.cpp` | matching rows | `like_match`, pattern pushdown | backend |
| libr backend | an `RCore`, `m_` | open with project, `cmd`, save at close | r2 as a library |
| JSON and table helpers | none | conversions, `parse_tk_dump`, `base64_encode` | tables |
| CLI, `src/cli/main.cpp` | `g_shutdown_flag`, the options | option parsing, modes, signal handling | all of the above |
| Mock backend, example, build files | - | - | - |

What is hard, by component, is the list `hazards` of `PROJECT.json`, each at its
line. In short: the admission deadline of an MCP call against the drainer that
takes it; wakeups on two condition variables while the server stops; replies cut
in chunks and a child that dies; a project that must be saved before the child is
told to quit; servers stopped by a thread their handlers wait for; one session
shared by threads while commands replace or destroy it; signals between any two steps of the
program; addresses that change their sign on the way to SQLite and back; filters that ask
radare2 another question than a scan does; saves that fail unseen.

Each component has its properties of correctness:

* MCP server: a call is executed exactly once and told its own outcome, or
  refused and never executed; in order; every call answered; Ctrl+C ends it.
* r2pipe: each `cmd` returns the whole reply to its own command; nothing is lost
  at exit; nothing hangs when the child dies; the child is reaped.
* Plugin: no deadlock among mutex, join and handlers but the two that section 3 lists; the session is
  stable while it is used; every server that runs can be stopped; unloading leaves nothing.
* Session and annotation tables: a statement is atomic, with the effect SQL gives it.
* Read-only tables: a statement answers the rows its WHERE asks for, and a filter adds known rows only.
* grep: the rows reported are those LIKE selects.
* JSON and table helpers: addresses and texts reach radare2 as they were given.
* Program: what the user wrote is on disk when it should be, over several runs; a command line
  means what it says; no request is lost when a server ends, or at work when the session goes.

## 2. Modules

| Module | Models | Built on |
|---|---|---|
| `McpCall` | what one tool call promises | - |
| `McpQueue` | the MCP server in queue mode, as `r2sql --mcp` runs it | implements `McpCall` |
| `SeqFacts` | lemmas on `Append`, `Tail`, `\o`, `RemoveAt`, `ToSet`, and that a set of numbers has a least | - |
| `McpQueueProof` | the inductive invariant, in named parts, and the proofs | `McpQueue`, `SeqFacts` |
| `R2Pipe` | the two classes of the r2pipe backend and their child | - |
| `R2PipeProof` | the inductive invariants, in named parts, and the proofs | `R2Pipe`, `SeqFacts` |
| `Plugin` | `g_state`, the command thread, the servers' threads | - |
| `PluginProof` | the inductive invariant, in named parts, and the proofs | `Plugin` |
| `LikeMatch` | `like_match` and the pattern wrapping of grep | - |
| `LikeMatchProof` | the proofs, with the inductive invariants | `LikeMatch`, `SeqFacts` |
| `Statements` | what one SQL statement on the writable tables promises | - |
| `Annotations` | the session's lock and the commands of flags, bookmarks and funcs | implements `Statements` |
| `AnnotationsProof` | the inductive invariant, in named parts, and the proofs | `Annotations` |
| `Persistence` | what r2sql promises of the user's work | - |
| `Program` | a user's runs of the program: options, backends, modes, servers, signals, projects | implements `Persistence` |
| `ProgramProof` | the proofs, with the inductive invariant | `Program`, `SeqFacts` |
| `JsonUtils` | `json_utils.cpp` and `cmd_json` as operators | - |
| `Tables` | one statement on the tables that show what radare2 knows | `JsonUtils` |
| `TablesProof` | the inductive invariant, in named parts, and the proofs, with those on the operators of `JsonUtils` | `Tables`, `SeqFacts` |
| `MC...` | symmetry sets and constant values for TLC | the module named |

### McpQueue

A call is one run of `queue_and_wait`; `pc[c]` is where it is. The main thread runs
`start`, `run_until_stopped`, `stop` and the destructor; `dpc` is where it is. Every
section under `queue_mutex_` or under a command's `done_mutex` is one action: the
code never holds two of these locks. So `Push` is lines 59-66 with the limit and its
early return, `NotifyDrainer` line 67, `Check` the loop condition with the choice of
wait, `Expire` the moment the deadline wins, with the predicate evaluated again and
`canceled` set, `Erase` lines 99-106, `Leave` lines 111-120. On the other side `Take`
and `PollEnds` are the two ends of `wait_for`, `Admit` is lines 267-281, `Execute` the
callback without a lock, `Publish` and `NotifyCall` the rest. `Stop`, `Swap`,
`CompleteOne`, `WakeOne`, `StopTransport`, `JoinTransport` are `stop` in order; `Destroy`
is the second stop by the destructor. Ctrl+C (`Interrupt`) may come at any time.
`arrivals`, `ticket`, `executed` and `outcome` are history variables.

Timers are nondeterministic: a wait may end at any moment (`WakeUp`, `Expire`,
`PollEnds`), which also covers spurious wakeups. Text is abstract: an outcome is `rows`,
`failed` (a JSON text with success=false) or `threw`.

### R2Pipe

The owner thread walks through `start` and `shutdown` (`opc`), the workers through
`cmd` (`wpc`, `holder` is `m_`). The pipes are sequences: lines to the child, tokens from
it, where a token is a NUL or a piece of the reply to a command. One `read` returns any
non-empty prefix of the pipe, so all chunkings occur; bytes behind a NUL in the same
chunk are dropped as in lines 379-381. A write to a child that is gone ends the host by
SIGPIPE, unless the host ignores it (`host` is `ignoring`; cpp-httplib does so in
HTTP mode). The child is external: it writes one NUL when it is ready, reads a line,
replies with data and one NUL, may refuse to start, may die (constant `ChildMayDie`).
`P` loads a stored project, `Ps` writes it. `Reap` is the whole second of `waitpid`
polling with the kill at its end, so a child may be killed before it has read `q`.

On Windows (`host = "windows"`) the other class goes through the same steps. It differs where an
operator has two forms: `WriteWindows` fails on a child that is gone instead of raising SIGPIPE,
and `ReapWindows` waits two seconds for the process and then terminates it.

### Plugin

One mutex, the command thread (`pc`), the handlers (`hpc`). A critical section in which
nothing is waited for is one action guarded by a free mutex; a query holds the mutex over
two actions. `sql.http` and `sql.mcp` have the same steps, so `on` names the server.
A server is an object: `published` is what `g_state` points to, `mine` what the command holds,
`running` those that accept requests (`is_running()`), `via` the server of a request.
`server->start` and `server->stop` run without the mutex. A client can end an HTTP server with
`POST /shutdown` (`HttpShutdown`): it no longer runs but is still in `g_state`, so `CheckRunning`
(line 188) lets the next `sql.http` pass, and `Publish` (line 228) destroys it while it holds the
mutex, waiting for its handlers (`DestroyOld`). `Deadlocked` is that wait when a handler waits for the
mutex; TLC reaches it, and section 3 lists it. `query_mu_` and the backend's `m_` are only taken under
`g_state.mu` here, in that order, and are never contended. The handler is also the direct
mode (`use_queue=false`) of the MCP server.

### Annotations

A thread of the HTTP server (`pc`) waits for `query_mu_`, picks a statement (`Begin`, which is
`Session::query`) and sends its commands one at a time (`Send` is one `Backend::cmd`). A SELECT,
UPDATE or DELETE first lists the table (the cache builder), an UPDATE or DELETE then calls the
writer of each selected row with the row as it was listed (`WriteRow`), in any order; an INSERT
sends its commands at once. `End` gives the lock back. `Raw` is `Session::raw_cmd`, with the two
raw commands that matter here: selecting a flag space and setting a flag. `todo` holds the
commands still to be sent, `before` what the statement found, a history variable.

radare2 is external. What its commands do is what the tables' comments say of them: `fss*`
saves the selected flag space and `fsr-` restores it (tables_bookmarks.cpp:38-41), `f` moves a name
that exists, `fr` refuses a name in use, `f-` removes one flag at an address in the selected
space, `afn` renames the function at an address if there is one (that radare2 renames its flag
along is left to the `fr` that follows). Whether radare2 keeps to this is outside `src/`.

`Statements` gives each statement's effect in one step. Three of its promises are weaker than
SQL's: a row is deleted by its address, so one of several flags there goes; UPDATE to a
name in use changes nothing although the row reports success; and INSERT takes its name from the
flag that has it, INSERT INTO bookmarks from other spaces too. The last contradicts the tables' own
comments (section 3).

### LikeMatch

The loop of `like_match` step by step, indices from 0 as in the code. `Like` is an
independent definition: a monotone overlay of the pattern on the text. `VerdictIsMeant` relates the
verdict to the pattern of the query, before the wrapping and before the loop's lower case.

### Program and Persistence

`Program` is `main`: `Parse` (lines 102-153, one argument at a time by `ParseArg`), `Early` for the
command lines that end before a backend is opened, `OpenLibr` and `OpenPipe` for the choice in
`open_backend`, `Dispatch` for the mode, `RunSql`, `RunScript`, `RunRepl`, and for the two servers
`StartServer`, `CatchSignal` (one `std::signal` at a time), `ServeEnds`, `StopServer`. `LibrClose` and
`PipeClose` are the backends' ends with their save. `Signal` may come at any step; it sets
`g_shutdown_flag` where a handler is installed and kills the program elsewhere. `Restart` is the
user again, with any command line, on the projects the last run left.

`Statement` is the effect of a statement or raw command on the session and on the projects:
comments and types are notes that are set and dropped, a project is saved, opened or deleted by
the SQL functions (session.cpp:83-98) and the `projects` table. HTTP requests carry it out on the
handlers' threads (`HttpQuery`, `HttpAnswer`), MCP calls on the main thread (`McpQuery`); the queue
between them is `McpQueue`.

Outside the program, the disk may fill up (`DiskFills`: a save then leaves the old project or a torn one,
`Stored`), and the radare2 behind a pipe may die with all it holds (`R2Dies`). What the program sends it then
raises SIGPIPE (`SigPipe`, exit code `BrokenPipe`) or, where a library has that ignored, gets no answer: statements do
nothing, and `PipeClose` saves nothing (`Closing`). Neither backend looks at what its save at the end says.

`Persistence` has the projects, the content of the session, the project it is saved to, whether there is room, and
whether the last session came to its regular end (`lost`; a regular end without the save is therefore not taken for a kill), and
none of the program's control; the refinement maps `keep` to the
project of the command line if `-w` is given, as long as there is a backend whose radare2 lives, and the
death of radare2 to `Kill`.

### Tables and JsonUtils

A statement asks for all rows, or for those with a value in one column. `Plans` is SQLite's choice:
a scan, or the filter the table offers. `Generate` and `BlocksGen`, `InsnsGen`, `PseudoGen` are the
generators, one row per `next`; `BuildXrefs` and the other `Build...` are the cache builders, one for
each table; `BlocksInFunc`, `XrefsTo`, `GrepPattern` and the others are the filters, `RowsIterator` the
iterator over rows that are there. SQLite checks its WHERE again on each row (`Keeps`), as it does
for a virtual table's filter. While a scan runs, the statement can open another project
(`OpenProject`, session.cpp:91-98).

radare2 is external: a core is its functions, references, types and lists, and `mute` says what
it fails to answer. An address is `addr` or `offset` in a reply. A function that only holds the
address asked about answers for it, as radare2 does. `IsCore` is all that is assumed of it: keys and
addresses are in their ranges, functions do not overlap, a reference is listed once, and of the types
(`TypesListed`) that no name occurs twice, that the signs `=`, `.`, `#` and the ends of lines are in no name, that the fields of a
union lie at its start, and that each record of `tk*` ends in a newline or a blank. A name may have several words, as
`unsigned int` and `char *` have (`front` and `name`): a blank inside it ends a record for `parse_tk_dump`.
`CoresAssumption` asks this of every core a statement meets, and `QueriesAssumption` that filters on addresses
have 64-bit values and that a table without filters gets none.

What the answer of a statement must be is said for the code (`RowsAreSql`), what is in the file (`ListsAreSql`; both are `AnswerIsSql`)
and the types (`TypesAreSql`), each against
a relation that does not use the code's way to it. `RowsAreSql` wants the rows of the scan that the WHERE asks for, once each, and with
a filter those of `Beyond` besides, and no others: a filter on `func_addr` asks radare2 about an address in the middle of a
function, `pseudocode` about any address, and `xrefs` about references that come from no function. Where a filter asks
for rows of the scan (`AskedAboutRows`: the entry of a function, an address that `blocks` and `instructions` have
nothing at, references of functions) there are no rows but those of the scan. `TypesAreSql` asks for one row for each last word
of a name (`Shown`) and no other, which is less than one for each name. `TextArrives` follows the text of a comment up to its first NUL,
where line 79 of tables_comments.cpp makes it a C string; an INSERT without an address or a text is refused and changes nothing. `ScanIsWhole` is about a scan that a project is opened under.

`JsonUtils` has the numbers in `Width` addresses, half of them negative to SQLite, base64 with real
bytes, and the list of types character by character, because its separators are what can go wrong.

## 3. Runs

| Run | Question | Bounds, distinct states |
|---|---|---|
| `McpQueueSafety` | safety of the queue | 3 calls, limit 2, symmetric; 116 427 |
| `McpQueueLive` | implements `McpCall`; every queued call is answered; Ctrl+C ends the server | 2 calls, limit 1; 13 821 |
| `R2PipeAll` | replies, the project, the child's death at any point, on both systems | 2 workers, 4 commands, replies of at most 2 pieces; 150 284 |
| `PluginAll` | state of the plugin, and nothing waits for ever | 2 handlers, 2 cores, 3 servers; 102 704 |
| `AnnotationsAll` | statements are atomic and return | 2 threads, 2 names, 2 addresses, 3 spaces; 312 924 |
| `LikeMatchAll` | the matcher against LIKE | names up to 3, patterns up to 4 of 5 characters; 519 783 |
| `ProgramAll` | implements `Persistence`; command lines are read as meant; servers end with every request answered, and none is at work after | 180 command lines, 2 projects, 1 note, 2 handlers; 104 072 |
| `TablesAll` | statements answer what SQL asks for | 8 addresses, 3 functions, 5 references, at most 3 of 7 types at once, texts of at most 4 bytes; 273 816 |

Why these bounds are enough. In the queue the cases are one call in the drainer's
hands, one or two in the queue and one on its way in, all competing with `stop`: three calls and a
limit of two reach each of them, and the limit itself. `MaxQueue` is 64 in the code; the
proofs hold for every value. In the pipe an error in one reply shows in the next, so two
callers with two commands each suffice, after the at most two commands of `start`. Two
pieces distinguish a reply cut in the middle from a whole one. In the plugin two handlers
can hold and wait for the mutex at once, and belong to the same server or to two; three servers are all that can be there at once, the two of
`g_state` and the one a command holds. Two names at two addresses in three
spaces hold two flags at one address, a name taken in another space and a row that another writer
of the same statement has already changed. A pattern of four characters has two `%` with something between and behind, which
is where returning to the last `%` only could lose a match. The command lines are those of a user, with either backend (each one-shot mode and the
REPL without a project, with one and with `-w --project`, the two servers with `-w --project`), and all lines of at most three
arguments out of `-h`, `-q`, `--mcp`, a port and the empty text, which start the MCP server without a project too: an option that swallows its neighbour needs two, and
one that then changes the meaning of the next needs three. Runs follow each other without a bound, since the
projects are all that is left of one. Two projects distinguish the one of the command line from one opened
in between; one note distinguishes what was saved from what was not. Eight addresses hold functions on both sides of
the sign, of one address and of several, one between which a function without an answer lies; three entries
of a list are more than one, and base64 has groups of one, two and three bytes and a second group. Only one project
is opened during a scan (`OpenProject`), because a second replaces the first before any further row.

The remaining runs each check a sentence of the repository that the code does not
keep (the `findings` of `PROJECT.json`):

| Run | Sentence | What happens |
|---|---|---|
| `R2PipeNewline` | backend.hpp:35, `cmd` returns the command's output | after a command with a newline the next caller gets its second reply |
| `R2PipeOpen` | main.cpp:177, a failed open is reported | writing `q` to the dead child raises SIGPIPE |
| `PluginNested` | core_r2sql.cpp:126, `.r2cmd` forwards any command | `.r2cmd sql ...` waits for its own mutex |
| `LikeMatchPercent` | tables_grep.cpp:89, `%` = any run | a `%` in the name is consumed as a literal |

`R2PipeAll` restricts workers to commands of one line (`MaxLines = 1`) and `VerdictIsMeant` asks that a
name without a `%` is not missed: these are exactly the conditions the runs above show to be needed. A nested
command holds the mutex for ever, and so does the destruction of a server one of whose requests waits for it: the liveness properties of
`Plugin` say "unless `Hung` or `Deadlocked`", and show that there is no third way.

Further divergences have no run:

* prompts/r2sql_agent.md:873 calls `POST /shutdown` a "graceful stop". In the plugin the server stays in `g_state.http`, and the
  next `sql.http` destroys it under `g_state.mu` (core_r2sql.cpp:228) while one of its requests may wait for that mutex
  (core_r2sql.cpp:132): two threads wait for each other. It is `Deadlocked`, an exception in `EveryRequestEnds` and `CommandReturns`.
* tables_bookmarks.cpp:9-11 says of a write that "it never touches flags in other spaces" (prompts/r2sql_agent.md:546-547
  likewise). Names of flags are global in radare2, so an INSERT (line 96) takes the name of a flag in another
  space, which is then gone there (`SetFlag` of `Statements`).
* prompts/r2sql_agent.md:111 says of `--project` that it "saves on exit if `-w`". Nobody looks at the result of that save
  (backend_libr.cpp:59), and a radare2 that has died gets none (backend_r2pipe.cpp:338-343): with a full disk or a dead
  child where SIGPIPE is ignored, the program ends with exit code 0 and the work is not stored (`Stored`, `Closing`).
* backend.hpp:59 says that `aaa` is "skipped automatically when a project loaded", and the linked radare2 keeps to it.
  backend_r2pipe.cpp:310-313 skips it when the project is listed: one that is damaged is not loaded, and the file is left unanalysed.
* tables_decompiler.cpp:8-9 says that with a filter the table "decompiles exactly that one function", and
  prompts/r2sql_agent.md:49 calls filters "a single scoped radare2 command" in place of a scan. They also answer for addresses at
  which no function starts, with rows no scan has (`Beyond`).
* tables_types.cpp:15-16 says "One row per type", with its "fully qualified type name". json_utils.cpp:128 ends a record at a
  blank, so `unsigned int` is shown as `int`, and `A *` without a name (`Shown`).
* mcp_server.cpp:118 says that failures begin with "Error: ", and line 119 derives `isError` from it. The
  callback of `run_mcp` (main.cpp:367-370) returns a JSON text with `success: false`, so a failed query is told
  as a success. `Outcomes` and `IsErrorText` of `McpQueue` have it.
* core_r2sql.cpp:128-129 says that the callback serialises "against r2's command thread". Only `sql` commands
  take `g_state.mu`; the pc "native" of `Plugin` stands for any
  other command, beside a handler's query.
* prompts/r2sql_agent.md:635-636 says of `-w --project` that "the session saves automatically when the process ends".
  Only the two servers catch Ctrl+C: in the REPL, in a one-shot mode and before the handlers are installed it kills
  the program, and the edits are lost. `Persistence` therefore has `Kill` beside `Close`.
* tables_types.cpp:19 says `size` is the byte size; lines 86-95 add up the fields, so padding is missing, as in
  `P` of `MCTables`. `TypesRight` compares the size only where there is no padding (`Packed`).
* a comment's text ends at its first NUL (tables_comments.cpp:79-80), though prompts/r2sql_agent.md:542-543 says that it is
  stored verbatim; what it lists are blanks, quotes and `@`, which are.
* the comments at mcp_server.hpp:16-20 and 73-76 give the two values of `use_queue` to the wrong
  modes (main.cpp:378 and core_r2sql.cpp:315 pass the opposite).
* `alive()` stays true after the child has died, since only `shutdown` resets `pid_` (backend.hpp:43 says
  "bound to a live r2 session").
* the left-over reply of `R2PipeNewline` also ends the drain of `shutdown` early, so that the child may be killed
  before it has saved the project (with `MaxLines = 2`, `SavedOnExit` fails).

`CHECK_DEADLOCK FALSE` is set for `Plugin`, which stops when the plugin is unloaded, for `LikeMatch`, which
stops with its verdict, and for `Tables`, which stops with its statement. `McpQueue` and `R2Pipe` have an
explicit final step, the threads of `Annotations` may always call again and the user of `Program` may always
start it again: these four are checked for deadlock.

## 4. Fairness

* `McpQueue!FairSpec`: threads are scheduled, and the query callback returns. No timer is
  assumed: `EveryCallAnswered` holds without the 100 ms polls, the deadline, or spurious
  wakeups, so the notifications alone suffice. The signal handler
  only stores a flag, so `InterruptEndsServer` is stated under the condition that the drainer's
  poll of `queue_cv_` ends (`WF_vars(PollEnds)`, the 100 ms of line 252).
* `R2Pipe!FairSpec`: threads are scheduled, a living child answers, and a thread waiting for
  `m_` gets it (strong fairness). Nothing makes a session end: `BeginShutdown` is not fair.
* `Annotations!FairSpec`: a thread that waits for `query_mu_` gets it, and a command returns.
* `Plugin!FairSpec`: the same for `g_state.mu`; a query ends; no command, request or shutdown has to
  come.
* `LikeMatch!FairSpec`: the loop goes on.
* `Program!FairSpec`: the main thread goes on, a handler gets `query_mu_` and its statement ends, and the
  drainer comes to every call (which `McpQueue` shows of it). No user has to type, no request or signal has to
  come, no radare2 to die, and a REPL may wait for ever. `InterruptEnds` allows for an end by SIGPIPE, if radare2 has died.
* `Tables!FairSpec`: SQLite calls `next` until the end.

A `std::mutex` promises no order; strong fairness says that it starves nobody, as the
platform's schedulers ensure in practice.

## 5. Proofs

`McpQueueProof` proves for every set of calls, every `NoCall` outside it and every natural
`MaxQueue` (0 means no limit, as in line 62):

| Theorem | States |
|---|---|
| `Invariance` | `Spec => []IInv` |
| `TypeCorrect` | `TypeOK` |
| `RefusalIsFinal` | `RefusedNeverRuns` |
| `AnswerCorrect` | `AnswerIsOwn` |
| `OrderCorrect` | `ExecutedInOrder` |
| `NoSleeperForgotten` | `WaiterIsWatched` |
| `RunningBeforeExposed` | `NotRunningMeansInterrupted` |
| `QueueLimit` | `QueueBounded`: the queue never exceeds its limit |
| `QueueKeepsPromise` | `Spec => KeepsPromise`: the refinement of `McpCall` |

None of the properties is inductive. `RefusedNeverRuns` needs to know why a refused command
will not be started later: it is `canceled`, it was never queued, or the server no longer
runs (`RefusalReply`); that `canceled` and `started` exclude each other (`Exclusive`), which
rests on both being written under `done_mutex` after a look at the other; and that only what
was started is executed (`StartedBySeq`). `AnswerIsOwn` needs what each flag says of
`result` (`StartedFlags`, `NotStartedFlags`, `DrainerFlags`). `ExecutedInOrder` needs the
tickets ordered along executed, current and queued commands (`OrderInv`), and
`NotRunningMeansInterrupted` the phases of the main thread (`ServerInv`). `WaiterIsWatched`
needs the same of calls that are not asleep yet: between its push and its wait a command is watched,
is completed already, or the server no longer runs, which the test under `done_mutex` finds (`WatchInv`).
`IInv` is their conjunction. The proof has one lemma
per part and in it one step per action. The refinement maps a call to `submitted` when it
enters, `executed` at `Execute`, `answered` when it returns; every other step stutters. It
uses `IInv` in both states, because an action maps to `Refuse` only if the call was not
executed.

`PluginProof` proves for every set of handlers, of servers and every non-empty set of cores, where no handler is
the command thread (`HandlerAssumption`), no core is null (`CoreAssumption`) and neither is a server (`ServerAssumption`):

| Theorem | States |
|---|---|
| `Invariance` | `Spec => []PluginInvariant` |
| `TypeCorrect` | `TypeOK`, with the owner of `g_state.mu` |
| `QueryUsesOwnCore` | `QueryOnOwnCore` |
| `ServersAreAccounted` | `ServersAccounted` |
| `UnloadIsQuiet` | `UnloadedIsQuiet` |
| `SessionsAreStable` | `SessionStable`, an action property |

`sql.http` looks for a running server under the mutex, starts one without it and stores it under it again.
Only the command thread writes `g_state.http` and `g_state.mcp`, so the server that was found not to run does not run when it is
replaced (`ReplacedInv`), and as an MCP server only ends when it is stopped (`McpInv`), that is an HTTP server. A
server that runs is in `g_state`, or the command holds it (`RunningInv`), and no object is in two of these places (`ObjectsInv`).
Requests belong to a server of these, one that is being joined or destroyed included (`QuietInv`): this is
what the shutdown by a client cannot break, since it takes nothing out of `g_state`. `FiniInv` follows
`plugin_fini` from one server to the next, and with the others it gives `UnloadedIsQuiet`.
`OwnCoreInv` carries the core over the gap between `ensure_session` and the query.

`ProgramProof` proves for every set of handlers, projects and notes, and all command lines that name projects
of the set (`ProjectAssumption`, `LinesAssumption`):

| Theorem | States |
|---|---|
| `Invariance` | `Spec => []ProgramInv` |
| `TypeCorrect` | `TypeOK` |
| `NothingAtWork` | `NoUseAfterClose` |
| `KeepsWork` | `Spec => WorkIsKept`: the refinement of `Persistence` |
| `OptionsUnderstood` | `ParsedRight` |

`ProgramInv` adds to the types where requests can be (`ServerInv`: only while a server is there, and no new
ones once it is stopped) and what there is without a session (`SessionInv`: no content). The first gives
`NothingAtWork`: after `stop` has seen every handler idle no new one can come, because `running` is false. The second is what
the refinement needs when a session opens. The death of radare2 empties the content and ends the session of `Persistence`, so
that whatever the program does afterwards is `Outside` there; a save at the end is `Close`, with or without room. There a statement maps to `Edit`, `Save`, `Load` or `Forget`
(`StatementStep`), the opening to `Open`, the ends to `Close` or `Kill` (`CloseStep`, `EndGone`), and every
other step stutters because it leaves the backend and the options that `keep` looks at alone.

`ParsedRight` is about a loop over the arguments, which `ParseArgs` writes as a recursive function. A line has a
reading if some set of its positions are options that are followed by their values (`OptionsAt`). `ParseArgsReads` says what the
loop has read after each argument. Both directions are then shown at the least argument where they would fail
(`LeastNumber`): where there is a reading, the loop expects a value exactly where the reading has one, and finds
nothing wrong (`FollowsReading`, `ReadableIsRead`); where the loop found nothing wrong, the positions it took for
options are a reading (`ReadIsReading`), and each option has the value given last (`GatheredAll`). `ParsedStays` carries
this from `Parse` to the states where the options are looked at.

`LikeMatchProof` proves for names and patterns of any length over any alphabet, with `WildcardAssumption` and
`LowerAssumption`:

| Theorem | States |
|---|---|
| `IndicesInside` | `TypeOK`: the indices stay inside both strings |
| `ReportedMatches` | a name that is reported matches the compared pattern |
| `WildcardsAreMeant` | and with it the pattern of the query, if that has wildcards |
| `NothingMissed` | a name without a `%` that is not reported does not match the compared pattern |
| `VerdictCorrect` | `VerdictIsMeant`, for patterns with and without wildcards |

Two invariants run in opposite directions. `PrefixInv` says that the pattern read so far lies over the text read so
far, and that what precedes the last `%` lies over a part that ends before the run of that `%`: the first is what a match
needs, the second is what `Backtrack` needs to restore the first (`ExtendPrefix`). `FollowInv` says
that the loop is never ahead of any overlay of the whole pattern on the whole text, and that it is in step with it from the last
`%` on, as soon as the run of that `%` ends there where the loop supposes (`Follows`). When the loop gives up, there is
therefore no overlay. It is the argument that returning to the last `%` alone is enough; it needs that no character of the name
is consumed as a literal `%`, which is what `LikeMatchPercent` refutes. A pattern
without wildcards is wrapped in two `%`, and `MatchIsOccurrence` and `OccurrenceMatches` show that it then matches
where it occurs; the former follows the overlay through the pattern with `LeastNumber`.

`R2PipeProof` proves for every set of workers, number of commands, lines of a command and size of replies, whether or
not the child may die:

| Theorem | States |
|---|---|
| `Invariance` | with `MaxLines = 1`: `Spec => []IInv` |
| `RepliesWhole` | with `MaxLines = 1`: `WholeReply` |
| `EditsSaved` | with `MaxLines = 1`: `SavedOnExit` |
| `Safety` | `Spec => []SafeInv` |
| `TypeCorrect` | `TypeOK` |
| `ProjectSafe` | `ProjectKept` |
| `ChildGone` | `ChildReaped` |

`MaxLines = 1` says that a command is one line, and three theorems need it: with two lines, `R2PipeNewline` has the
replies confused, and then the drain of `shutdown` ends early. The other properties survive that. Commands of a caller
come only once the session is open, and until then `IInv` holds whatever they are; from there on `ServingInv` is enough:
who holds `m_` and where the owner is, and that a project on the disk is loaded while the child lives. `SafeInv` is that
one of the two holds. `IInv` says that the pipes never hold more than one exchange and that the points where the owner and
the callers are tell which: the line, or the child at work on it, or what is left of the reply with the NUL at its
end (`Asked`, `Worked`, `Replied`), nothing at all between two exchanges (`Settled`), or a dead child. Pieces read and
pieces in the pipe add up to the reply, so a reply that ends with its NUL is whole. `ProjectInv` and `SavedInv` tell what
the exchange of `P` and `Ps` has done to the project at each of those points, and `CountInv` that there are
numbers enough for the commands, which bounds the model and not the code. `SplitFacts` and `BeforeLastNul` are the sequences that
one `read` makes of the pipe.

`AnnotationsProof` proves for every set of threads, every finite set of names and every set of addresses:

| Theorem | States |
|---|---|
| `Invariance` | `Spec => []AnnotationsInvariant` |
| `TypeCorrect` | `TypeOK` |
| `Atomicity` | `Spec => StatementsAtomic`: the refinement of `Statements` |

The refinement maps every command to a stutter, and the end of a statement to the statement of `Statements`, which
takes place all at once on what the statement found. So the invariant has to know, between any two commands, how
much of that effect is there. It reads it from the commands still to be sent and the rows still to be written
(`SelectInv` to `DeleteFlagsInv`), with the frame of flag spaces that bookmarks put around each command
(`SpaceInv`). A rename takes effect at the first row and every later one finds the name in use (`RenamedFlags`). A delete
by address takes any flag there, so its progress is a number: at each address as many flags are gone as rows have been
written (`Counted`), and at the end as many as were selected.

`TablesProof` proves for every even width of addresses, all statements and all cores that meet `QueriesAssumption` and
`CoresAssumption`, whatever number of functions, references and entries they have:

| Theorem | States |
|---|---|
| `Invariance` | `Spec => []TablesInvariant` |
| `TypeCorrect` | `TypeOK`, with the range of every address in a row |
| `AnswersCorrect` | `AnswerIsSql`: `RowsAreSql` and `ListsAreSql`, with the limits of section 2 |
| `TypesCorrect` | `TypesAreSql`, for types as in `TypesListed` |
| `ScanWhole` | `ScanIsWhole` |
| `CommentArrives` | `TextArrives`, up to the first NUL |
| `AddressComesBack`, `ValueComesBack`, `FilterMeansAddress`, `AddressOfReply` | addresses survive the way into a row and back |
| `TextComesBack` | so does a text through base64 |

The properties speak of the end of a statement, and the invariant of every moment before it. `AnswerInv` says that the rows kept,
those still to come in the buffer and those of the functions still to be read are, filtered and in this order, what
is offered to the statement at its start (`Offered`), as long as no project is opened; `ScanInv` says how many functions of the first
list are read, and that each of them is shown as it was before or after the project. So at the end the rows are the
filtered offer. That this is the relation SQL asks for is then a fact about operators: a scan offers the rows of each
function (`Joined`), these are distinct because functions do not overlap, an address asked about is held by one
function at most, and the filter compares the sign of an address as the conversion left it (`FilterMeansAddress`).
What a filter offers is that and the rows of `Beyond`
(`OfferedRows`), of which there are none where it asks for rows of the scan (`NothingBeyond`); `RowsRight` brings these together. Of the lists, `ListingRows` counts the rows that a filter keeps, and `ListsRight` follows each kind
of grep to its own list. `TypesHold` does the same for the types, and there the offer comes out of a text. A record lies between
two cuts (`Cut`), and a text says that there is a type if one of its records tells of it (`Says`); where texts end in a cut, the
whole says what the parts say (`SaysTogether`, `SaysJoined`), so the dump says what its records say, in any order and with any
of the endings (`DumpSays`). A record about a field tells of no type, because of the dot in its key (`FieldTells`).
A record of a name with blanks comes apart into words, of which only the last, with the `=`, tells of a type: so the dump tells of
the last words and of nothing else. `ParseIs` adds that `parse_tk_dump` finds one type for each of them. `UnionSize` and `StructSize` then compare the largest
field and the sum of fields, as they are computed one after the other, with where the last field ends. `TextComesBack` follows the bits of a group of three bytes and of the
two shorter groups at the end.

Recursive functions and strings of any length are within reach because `LeastNumber` (`SeqFacts`) replaces an
induction theorem, which no prover here can instantiate: a property of numbers that fails has a least number
at which it fails, and the step to it from the number before gives the contradiction.

Only model-checked: liveness, for which there is no prover here. Neither proved nor checked, because they do not
hold: `WholeReply` and `SavedOnExit` for commands of more than one line, and the properties of the violated runs of section 3.

## 6. Assumptions and what is left out

* fastmcpp's and the HTTP server's `stop` return when the handlers in progress have, and so does the destructor of the latter; `POST /shutdown`
  ends `is_running()` and waits for nobody. If the destructor did not wait, `Deadlocked` would be a handler that outlives its server instead of
  two threads that wait for each other. They, SQLite, xsql and
  radare2 are external. What radare2 answers is what the code and its comments expect of it.
* radare2's names of flags are global, and `f` moves the flag that has the name.
* Memory is sequentially consistent. `queue_and_wait` reads `completed` and `result` at lines
  111-120 without `done_mutex`; by the C++ memory model that is a race with the drainer, only
  when a call leaves because the server stopped.
* `R2Pipe`: no short writes, no full pipes, no child that hangs; the drain's limit of 2^20 bytes
  is not reached; `P` succeeds there (in `Program` it may fail). Bounds: `MaxCmds`, `MaxParts`, `MaxLines`.
* `Program`: a command is one step of its backend, so radare2 dies before or after it, and a signal comes once at a time. A save that is killed
  leaves the old project, the new one or half of one, one that fails for want of room the old one or half of one. A write to a dead radare2 raises SIGPIPE
  unless a library has that ignored, as in HTTP mode. The options have one spelling each, without `--help` and `--write`. Project names are those that `valid_flag_name` accepts.
* `Tables`: a reply is a list of objects with the keys the code looks at; numbers are unsigned integers. A
  function's blocks and instructions are at the addresses of its span. Names of types are as in `TypesListed`: those with `=`, `.`, `#` or an
  end of a line in them, and two definitions of one name, are left out. One table per statement, one filter.
* `McpQueue` and `R2Pipe` are not composed with `Program` action by action: it has their promises (an
  answered call was executed once; a command returns its own output) as single steps.

Not modelled: formatting, help texts and estimates for the planner; columns that are copied from a reply; of
`Session` `regexp`, which is the standard library's, and `detect_decompiler_`, which picks a command once;
`boolean`, `i32`, `r2_quote` and `quick_count`; the mock backend, the example and the build, which have no state that outlives a call.

## 7. Plan

A hung child and short writes in `R2Pipe`, once the code handles them.
