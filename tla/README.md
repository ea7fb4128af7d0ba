# A verification project for BeamJS

BeamJS runs JavaScript (QuickJS, embedded as a NIF) inside BEAM processes: one
GenServer and one QuickJS context per JavaScript process, supervised by a
DynamicSupervisor, with an Erlang-flavoured API (`spawn`, `send`, `receive`,
GenServer, Supervisor, Task, Agent) reached from JavaScript through *host
functions*. This directory holds TLA+ models of its core, TLC configurations
that check them on small instances, and TLAPS proofs that carry the main safety
properties to instances of any size. Source lines are named relative to the
repository; `PROJECT.json` maps every definition to the lines it stands for.

## 1. Inventory

| Part | Source | State it keeps | Operations |
|---|---|---|---|
| Host-call bridge | `c_src/host_functions.c`, `c_src/beamjs_nif.c:356-383`, `process.ex:151-191` | `BeamjsContext`: `mutex`, `cond`, `host_reply_ready`, `host_reply`, `host_reply_env`, `owner_pid`; GenServer: `mailbox`, `awaiting_receive` | `host_call_generic`, `deliver_host_reply`, `handle_info` for `:host_call`, `:js_message`, others |
| Module loader (C) | `c_src/module_loader.c` | the same slot and mutex; QuickJS's module table | `beamjs_module_normalize`, `beamjs_module_loader` |
| NIF contexts | `c_src/beamjs_nif.c` | runtime and context of each `BeamjsContext`, the resource's lifetime | `new_context`, `eval`, `set_global`, `destroy_context`, the destructor |
| JS process | `process.ex` | GenServer state: `ctx`, mailbox, GenServer module and JS state in `__genserver_state` | `start_supervised`, `eval`, `call`, `cast`, `send_message`, `init`, `handle_call`, `handle_cast`, `terminate` |
| Process supervisor, application | `application.ex`, `process.ex` | children, restarts within `max_seconds` | start, restart, give up |
| Term conversion | `c_src/term_convert.c`, `process.ex:482-506` | none (pure) | `erl_term_to_js`, `js_value_to_erl`, `serialize_pid`, `deserialize_pid` |
| Module resolver | `module_resolver.ex` | none (file system) | resolve a name to a source |
| Supervisor bridge | `supervisor_bridge.ex`, `supervisor.js`, `process.ex:387-397` | an OTP supervisor per JS supervisor: children, restarts within `max_seconds` | start, translate child specifications, restart, give up |
| Registry | `application.ex`, `process.ex:273-283` | unique names | register, whereis, names of workers and supervisors |
| Task, Agent | `process.ex:400-470`, `task.js`, `agent.js` | a context per agent, a process per task | start, await, get, update, stop |
| JS library | `priv/js_stdlib/*.js` | the JavaScript objects of user code | wrappers over the host functions, GenServer dispatch, match and pipe |
| Test runner, CLI, REPL | `commands/*.ex`, `repl.ex`, `test.js` | totals; the shell's context over its lines | run files, read lines, `.clear`, exit status |
| Transpiler, QuickJS, packaging | `transpiler.ex`, `c_src/quickjs*`, `npm/` | | |

**How the parts interact.** A client calls the GenServer; the GenServer's
callback calls `eval` or `set_global`, dirty NIFs that wait in the dirty run
queue for one of a fixed number of threads. JavaScript that calls a host
function or imports a module leaves QuickJS, posts a message to `owner_pid` with
`enif_send`, and blocks its thread on the context's condition variable. The
owner's `handle_info` computes an answer and hands it back through
`deliver_host_reply`, a NIF on a normal scheduler. `spawn` goes through the
process supervisor, whose `start_child` returns when the new process's `init`,
which evaluates the source, has returned.

**What is hard.** Two threads meet at one unnumbered reply slot; `receive` is
answered now or by a later message; a mutex is held across arbitrary JavaScript
in a module load; whoever evaluates may be the one who has to answer; processes
die at any moment while a dirty thread is inside their context; a finite thread
pool is shared by everyone; the supervisor is serial and waits inside `init`;
`eval` waits with `:infinity`, `call` with a timeout; children exit while their
supervisor restarts others, and their names can be taken meanwhile; whether a
source is a script or a module hangs on a word in its text. The full list, each
at its line, is `hazards` in `PROJECT.json`.

**What makes each part correct.**

- Bridge: an answer is read by the call it answers, none is overwritten or lost,
  every call is answered, messages come in order and once, nobody runs in a
  destroyed context.
- Contexts and threads: no NIF in a freed context, no leaked context, a thread
  per NIF and given back, no evaluation starved.
- Process and supervisor: nobody waits for an answer that cannot come or takes
  the answer to another request for its own, a failed or killed `init` ends the
  supervisor's wait, starts do not get stuck.
- Term conversion: a value survives the round trip, as the README's table says,
  a pid included.
- Resolver: an import finds the file next to the importing one, in the order of
  the extensions.
- GenServer bridge: the state passed to a handler is the state the previous one
  returned.
- Registry, supervisor bridge: names are unique and follow restarts, the
  configured strategy and restart type are what happens, a tree ends with the
  process that started it.
- Matching: the first clause that applies decides, with its own bindings, and
  the pipeline's `match` decides as `match` does.
- Shell, `run`, `test`: what a line declares is there for the next, and an exit
  status tells whether a file failed.

## 2. The modules

`HostBridge` models one context and its owner; `JsSystem` models many processes
that share threads and a supervisor. `JsSystem` reduces the bridge to one step,
`HostCall`, that blocks for good; this is what `HostBridge` establishes for a
process that evaluates in its own context (`SelfCallNeverReturns`, proved), and
every `eval` in the repository is of that kind (`process.ex` 42, 93, 106, 117,
143, 413, 457; `repl.ex` 43). The other modules look at one part each and use the
same fact: `Evaluation` lets a source that imports or makes a host call hang,
`SupervisorTree` has sources that make no host call.

### HostBridge

| Model | Code |
|---|---|
| `Owner`, `caller` | `bctx->owner_pid`, and the process that calls `eval`, one of `Callers`, the same in a whole behaviour. `caller = Owner` is the repository as it is; `caller # Owner` is the arrangement the README describes under "Host Function Callback Mechanism" |
| `cur`, `outer` | activations of `host_call_generic` or `beamjs_module_loader`: the innermost one, and the loads whose module is being compiled or run |
| `lock`, `ready`, `reply` | `mutex`, `host_reply_ready`, `host_reply` with its environment |
| `inbox`, `mailbox`, `awaiting` | the process's queue, and the GenServer's `mailbox` and `awaiting_receive` |
| `Enter`, `MutexLock`, `CondWait`, `SpuriousWakeup`, `TakeReply` | `host_call_generic` from `enif_send` to the return, cut where the other thread can step in |
| `LoaderReply`, `LoaderDone` | `beamjs_module_loader` after the wait: an error, or compilation and evaluation under the mutex |
| `handle_*`, `dispatch_*` | the clauses of `handle_info` and `dispatch_host_call` |
| `nif_deliver_host_reply` | the NIF, one critical section |
| `dispatch_exit`, `DispatchCrash`, `Kill` | the ways the owner ends, with and without `terminate` |

The 22 host functions are five classes, by what their clause does to the
exchange. The functions that take a pid from JavaScript form a class because
`js_value_to_erl` turns the pid object into a binary that `deserialize_pid`
rejects, so they answer with an error and never reach the other process.
`call`, `monitor` and the rest are therefore not given an effect that the code
does not produce.

`BridgeSpec` is what the bridge promises to JavaScript: calls are open one
inside the other, only an outermost call is answered, each at most once, and
`receive` returns the messages in the order in which they were sent. It has no
threads, mutex, slot or queues. `HostBridge` implements it
(`ImplementsBridge`) under the mapping `open <- Opened` (the frames of `outer`
and `cur`), `answers <- done`, `up <- alive`; the other variables keep their
names.

### JsSystem

| Model | Code |
|---|---|
| `status`, `job` | where a `BeamjsCore.Process` is: in `init`, in its loop, in a callback, with the NIF calls the callback has yet to finish |
| `nif`, `thread` | a dirty NIF in the run queue, on a thread, or blocked in a host call; the thread pool |
| `ctx` | the process's `BeamjsContext` |
| `client` | callers of `start_supervised`, `eval`, `call`; `cast` does not wait |
| `timed`, `CallTimeout` | the timeout of `call`, which its caller chooses, `:infinity` included; a request whose caller has given up is handled all the same |
| `sup`, `supq`, `restarts` | the DynamicSupervisor: its wait inside `start_child`, its queue, its restart count |
| `StartChild` | `init/1` up to its `eval`, with or without a source |
| `Script` | the NIF calls of `handle_call({:eval..})` (one), `handle_call({:js_call..})` (two `set_global`, `eval`, and one more `set_global` for a new state), `handle_cast` |
| `SetReturns` to `CastResult`, `Fails` | the clauses that match a NIF's result; `Fails` is a stop, an error in `init`, or a result no clause matches |
| `Kill`, `OrphanReturns` | an exit signal; the NIF of a process that is gone, which ends when JavaScript does and then releases the context |
| `SupRestart`, `SupGivesUp`, `WindowSlides`, `AppRestartsSup` | permanent children, `max_restarts` in `max_seconds`, the application supervisor above |

The DynamicSupervisor, the dirty run queue and the lifetime of a process heap
with a running dirty NIF belong to OTP; they are modelled from how this code
uses them and marked external in the map.

### TermConvert and GenServerState

`TermConvert` holds the two conversions of `term_convert.c`, with the tests in
the order of the code (an iolist is taken for text before it is taken for a
list). `JsOf` and `TermOf` are the bodies of the two C functions, given the
conversion of what a value is made of; `ToJs[d]` and `ToErl[d]` are the
conversions of what is nested at most `d` deep, and `erl_term_to_js` and
`js_value_to_erl` those at `MaxDepth`. Terms and values are records with one
field that names their kind; objects and maps are functions on a set of `Names`
and keys, with `Nothing` where a name is missing. Integers keep their widths as
parameters in the order of the real ones, so that every boundary is reached with
small numbers: `AsciiMax`, `ByteMax`, `Int32Max`, `DoubleMax` (2^53, beyond which
a double rounds, to multiples of 2, of 4 and so on) and `Int64Max`. Text is a
sequence of tokens, not of characters. Improper lists, references and functions
as anything but null, and raw bytes inside binaries are left out.

`GenServerState` runs a JavaScript GenServer over these conversions.

| Model | Code |
|---|---|
| `pending` | `__pending_call_request` or `__pending_cast_request` |
| `global` | `__genserver_state`; `js_state` of the struct is a copy that is written and never read |
| `returned` | history: the state the last handler returned, while it is the one in force |
| `CallReturns`, `CastReturns` | `handle_call({:js_call..})` and `handle_cast`, by the shape of what the handler returned, in the order of their clauses; a value the NIF cannot convert, or that no clause matches, ends the process |
| `Throws` | an exception in the handler: an error to the caller of a call, nothing for a cast; the handler may have changed the state in place |
| `Restart` | the supervisor evaluates the source again |

`serialize_pid` and `deserialize_pid` are part of `TermConvert`: a client's
request can be the object that stands for a pid, and `PidComesBack` asks whether
it is one when JavaScript hands it on. `Settled` leaves out values that are not
`Tame`: a property `__beamjs_type` that is an array or an object can become the
text "pid" on the way. `{__beamjs_type: ["pid"]}` is `{__beamjs_type: "pid"}`
after one request and its data alone after the next. Without the exception
`Settled` is false, which is how the proof found it; the instance has such
values.

### SupervisorTree

A tree started by the host call `start_supervisor`, its owner, and the process
registry.

| Model | Code |
|---|---|
| `JsSpec`, `js` | the JavaScript object, with the fields that `supervisor_bridge.ex` reads; `None` where a field is missing |
| `map_strategy`, `map_restart`, `MaxRestarts`, `Source`, `InitRaises`, `Key` | `to_child_spec`, `build_source`, `via_name` and the name of a worker |
| `owner` | the process in `dispatch_host_call("start_supervisor", ..)`; `start_link` links it to the tree, whichever of `start` and `startLink` JavaScript called, and it does not trap exits |
| `node[n]` | one process of the tree: whether it starts or runs, the children it has yet to start, its message queue, its restarts within `max_seconds` |
| `holder` | `BeamjsCore.ProcessRegistry` |
| `Launch`, `LaunchChild`, `ChildStarted`, `ChildFailed`, `InitThrows` | `start_link` of a worker or supervisor: the name first, then `init` |
| `Crash` | a stop that JavaScript asked for, with a text as its reason, or an error |
| `HandleExit`, `RestartGroup`, `GiveUp`, `WindowSlides` | OTP's supervisor, external: exits in their order, the group of the strategy stopped and started again, `max_restarts` |
| `Register`, `StrangerEnds`, `whereis` | other processes and the registry; `register` answers ok whether or not it got the name |

Stopping a group is one step: no process of the group can act once its
supervisor has decided, apart from a nested supervisor in the middle of a
start, and `CanStop` waits for that. What a supervisor has yet to start is a set
(`todo`), taken in the order of its children; `Flushed` takes the exits of a
stopped group out of the queue; `Below` is the least set that has a process's
children and theirs. The assumption `TreeAssumption` says that the
specifications of JavaScript are a tree: each object is the child of one
supervisor, once. Two things that `Supervisor.init` refuses before any child is
started are left out: two children with the same id, and a `maxRestarts` or
`maxSeconds` that is no number it accepts.

### Evaluation

What `nif_eval` does to a context and what the shell, `run`, `test` and a
process that serves calls make of it. A source is a record: whether its text
contains "import " or "export " (`marked`), whether it imports, which names it
declares (any number) and how, and what running it comes to: a value, a report,
an exception, a syntax error, a value that `enif_make_double` refuses (NaN and
infinities, anywhere in it), or a wait for a host call or a dynamic import.
`reached` are the constants that have a value by then, so that a line can throw
between two declarations; `callable` are the names that hold a function in the
end, however they were declared.

| Model | Code |
|---|---|
| `IsModule` | the search of `beamjs_nif.c:160` |
| `After`, `Result` | the context and the result of `nif_eval`; a value that cannot be converted raises `badarg` |
| `Hangs` | a static import, a dynamic one or a host call: the process waits for itself (`SelfCallNeverReturns`) |
| `ReplEval`, `ReplClear`, `ReplExit` | the clauses of `repl.ex`; an exception of the NIF ends the shell |
| `RunNoFile`, `RunFile` | `run.ex`: no argument, a file that does not exist (halts with 1), one that cannot be read (`File.read!` raises), and what `eval_sync` returned |
| `TestFile`, `TestDone` | `test.ex`: here a missing file raises as well, and takes the whole run with it |
| `ServeInit`, `ServeCall` | `init` and `handle_call` as far as they depend on `typeof __genserver_handle_call` |
| `state` | "open", "hung", or how the command ended: `exit0` (the command returned), `exit1` (`System.halt(1)`), `crashed` (an exception that nobody catches); `failed` is a process that `init` stopped |

What becomes of the operating system process after `exit0` and `crashed` is the
affair of the wrapper: a release run by `eval` exits with 0 and with 1, the
`beamjs` script of the repository uses `mix run --no-halt`, which stays up when
the command has returned. A line that clashes with an earlier one for one of its
names is not run at all, so which lines count depends on which earlier lines
counted: `ReplRemembers` says it with the one set of lines that are in nobody's
way (`WereRun`). How QuickJS treats a second declaration (`Clashes`,
`Declared`) is external. Assignments to `globalThis` without a declaration, and
values that contain themselves (on which the conversion does not end), are left
out.

### MatchPipe

`match` of `match.js` and `Pipeline.match` of `pipe.js`.

| Model | Code |
|---|---|
| `clauses`, `i` | the clauses and the round of the loop over them |
| `bindings` | the object of that round, which all the calls write to |
| `todo` | the calls of `matchPattern` in progress, the innermost first, each with its value, its pattern and the position in its loop |
| `matchPattern`, `matchElements`, `matchKeys` | one step of the innermost call, in the order of the tests of `match.js`: it returns, enters its loop, or calls itself on a part |
| `pipeMatchPattern` | the same for `pipe.js`, where an array is an object whose keys are its indices |
| `Returns`, `NextClause` | a call that returns false makes all its callers return false |
| `Matched`, `NoClause` | the guard of the clause, and the error after the last clause |

`Instance`, `Bound` and `Expected` are the reference: what it means to be an
instance of a pattern, which part of the value each name stands for, and which
clause decides, stated without loops and calls. `Common` are the patterns that
both matchers know: names, primitives, and objects of those at every nesting.

### ModuleResolve

Imports of the main source: `beamjs_module_normalize`, QuickJS's module table
(`table`, external), and `ModuleResolver.resolve_and_load` from the `base_dir`
that `init` chose, over a set of files that grows (`WriteFile`). Paths are
sequences of segments, segments sequences of a name and extensions; `Collapse`
takes out `.` and `..`, one segment after the other, as `Path.expand` does. A
path of `Files` is not also a directory of another, and a main source has a
file's name (`ResolveAssumption`). `Meant` is the file next to the main file
that an import names; `FoundNextToMain` says when it is found: where `init` knows
the place of the main file (`Placed`) and no directory is in the way (`Hidden`).
`IsRelative` is the normaliser's test (`./` and `../`), `StartsWithDot` the
resolver's, which takes `.rc` for a relative name too. Imports
inside a loaded module are not here: they never return (`NestedRequestBlocked`).

The `MC` modules add only the sets of values the configurations use.
Definitions preceded by a comment "Mutant:" are deliberate
defects: each stands in for the definition it is named after, to show that the
property it is paired with in `PROJECT.json` notices. They are in no
specification.

## 3. The runs

| Run | Instance | What it shows |
|---|---|---|
| `bridge` | the owner or another process evaluates, all classes, 4 calls, 3 messages | With an owner that is free to answer, the bridge is right: `ImplementsBridge`, `NoStaleReply`, `NeverOverwrites`, `MessagesInOrder`, `NoRunInFreedContext`, `NestedRequestBlocked`; and it makes progress: `Answered`, `ReceiveReturns`. `SelfCallNeverReturns`: in the repository's own arrangement no host call and no import returns |
| `bridge_self_returns` | the owner evaluates, 1 call | violated: README.md:404, "The NIF wakes up ... and returns it to JS" |
| `system` | 2 threads, 2 clients, 3 requests, 2 failures, 5 pids, host calls | `NoUseAfterFree`, `NoContextLeak`, `ThreadsAccounted`, `NoOrphanedCaller`, `OneInitAtATime` through starts, restarts, stops, kills, giving up, timeouts, blocked NIFs; `OwnAnswerOnly`: the late answer to a call that timed out ends no other wait; `EvalAnswered` and `StartAnswered` unless the process asked for is itself blocked in a host call, or blocked host calls hold every thread; `ContextFreed` unless the NIF is blocked |
| `system_vm_blocked` | 1 thread, 3 requests, host calls | violated: README.md:17, `receive()` blocks the process "without blocking the VM" |
| `genserver_state` | requests on both sides of every boundary, pids, values a handler makes, nesting up to 4 (a leaf being 1, a result with its state included), arrays built up to 2 | `KeptIfPlain`: the next handler sees the returned state exactly if that state has no array that reads as text, no function, no BigInt and no pid; `Settled`: what is lost is lost at once and nothing drifts over later requests |
| `genserver_pid` | the same | violated: README.md:182-199, where a pid from `spawn`, `whereis` or `self` is handed back to `send`. It comes back as a binary that is no pid |
| `supervisor_tree` | a root with a named worker, a supervisor with one child, and a third child; three strategies, all restart types, a class as module; one other process; 2 faults | `QuietMeansUp`, `NoSurvivors`, `TemporaryStaysDown`: strategies and restart types mean what they say, also when exits overlap; `NameFollows`, `ChildComesBack`: names; `TreeEndsWithOwner` |
| `supervisor_readme` | the child specification of README.md:251 | violated: the child runs `Counter`. It runs the empty source |
| `module_resolution` | 8 files and every subset of them at the start, 4 ways to name the main file (`./main.js` among them), with and without `base_dir`, 8 specifiers, 2 imports | `FoundNextToMain`: which file an import gets where `init` knows the place of the main file |
| `module_relative` | the same | violated: module_loader.c:19, "Relative imports: resolve against base_name's directory". Of `src/main.js` the directory counts twice |
| `matching` | 16 values, 34 patterns of nesting up to 3, guards, up to 2 clauses | `MatchFirst`: `match` is the first clause that applies; `PipeMatchesRecords`: so is the pipeline's, on patterns of names, primitives and objects |
| `evaluation` | every source that declares at most one of two names, and scripts that declare both; missing and unreadable files; 3 lines, 2 files | `ReplRemembers`, `DeadUntilClear`, `ExitStatus`, `ServedByScript`: what the guess between script and module means for each user of `eval`, and how a command ends; `RunEnds` unless a file imports or makes a host call |

What a reader of the code may not expect, and the properties pin down:

- A transient child that JavaScript stops with `"normal"` is restarted, since
  the reason is a text and not the atom (`QuietMeansUp`). An unknown restart
  value means permanent, an unknown strategy `one_for_one`.
- A tree that cannot be started takes the process that asked for it along; the
  `{:error, reason}` clause of `start_supervisor` is reached only for a name in
  use. `start` links as much as `startLink`.
- A child whose name was taken between its exit and its restart uses up
  `max_restarts` in retries; then the supervisor gives up (`ChildComesBack`).
- A file that mentions "import " or "export " in a comment is a module: `run`
  and `test` exit with 0 whatever it throws, the shell forgets what it declares,
  a process made of it answers `no_handler` to every call.
- A file whose value is or holds NaN or an infinity ends `run`, `test` and the
  shell with an exception (`ExitStatus`), and so does a file of `test` that is
  not there; `run` tells that one apart.
- A directory `lib` hides `lib.js` and `lib/index.js`: it exists, and cannot be
  read (`FoundNextToMain`).
- pipe.js:33 says of `Pipeline.match` "Integrates with beamjs:match". It decides
  as `match` on the patterns of `PipeMatchesRecords`; it never takes a clause
  with `_`, `REST` or `guard(..)` in its pattern, and leaves the length of
  arrays open.
- term_convert.c:10 promises a BigInt for integers beyond 2^53. They become
  doubles and are rounded (`IntToJs`).
- `receive(timeout)` and `sleep(ms)` ignore their argument (`process.ex:171`).
- A request inside a module load leaves the owner in `deliver_host_reply`, on a
  normal scheduler thread, waiting for the mutex of the load
  (`NestedRequestBlocked`; README.md:406 says these stay unblocked).
- The context of a process killed while blocked in a host call is never freed,
  as the exception in `ContextFreed` says (README.md:466 says it is).
- An empty array, and an array of strings or bytes, comes back from the state as
  a string, as `Plain` in `KeptIfPlain` says (README.md:391 has a list become an
  `Array`).

**Bounds.** `MaxCalls` and `MaxMsgs` bound how many requests and messages one
behaviour has. Four calls allow a load, a request nested in it, and receives
before and after an owner's death; three messages allow one in the queue, one
in the mailbox and one on its way at the same time. In `JsSystem` two threads
and two clients are the least that lets one process be blocked while another
runs and one caller wait while another starts; two failures with
`max_restarts` 1 reach a restart, a failed restart, and the supervisor giving
up; `MaxProcs` is never a limit, since each request and each failure starts at
most one process (`MaxReqs + MaxFaults <= MaxProcs` is assumed). Three requests
suffice to block one process, start another and ask it, and to have a client
whose call timed out wait for another answer of the same process.
The instance of `system_vm_blocked` fills a pool of one; a larger pool takes as
many blocked processes as it has threads. The safety properties that are also
proved do not depend on any bound.

In `GenServerState` a result nests a state, and states of three levels are the
least that have text inside an array that is not text, and the other way round;
arrays of two elements mix the two. In
`SupervisorTree` three siblings tell `rest_for_one` from the other strategies in
both directions, the nested supervisor gives up at its first crash
(`maxRestarts` 0) and so makes its parent handle the exit of a supervisor, and
two faults overlap: a second exit while the first is being handled, a failed
`init` during a restart, the owner's death during a start. Names can be taken
and given up any number of times. In `Evaluation` three lines are a declaration,
one that clashes with it and one that tells; a run of two files has one before
and one after the other. In `MatchPipe` two clauses are enough, since the loop
carries nothing but its index from one clause to the next, and three levels
have a loop within a loop. In `ModuleResolve`
two imports with files written before and between are a load and a repeat.

There is no symmetry: a run that checks liveness cannot have it, and the others
are small. Deadlock is checked in the
runs of `GenServerState`, where a server can always take a request. It is off in
the others: when the bounds are used up the system has nothing left to do, and a
thread that waits for itself is a real end state of this code, which
`SelfCallNeverReturns` and `NestedRequestBlocked` state as such.

**Fairness.** `HostBridge`: the thread that runs JavaScript is an OS thread, so
it takes its next step if that stays possible (weak fairness of the lock, wait
and read steps); the BEAM schedules a process that has a message (weak fairness
of the owner's handlers); a mutex that keeps becoming free is granted in the
end (strong fairness of `deliver_host_reply`, which competes with spurious
wake-ups). `LoaderDone` is fair, that is, the top-level code of a module ends.
Nothing is assumed about what JavaScript calls, about who sends, dies or is
killed, or about when a spawned process finishes. `JsSystem`: the supervisor
and the processes are scheduled, timeouts that were asked for fire, JavaScript
that does not call the host ends, and the dirty run queue is first-in first-out,
so a queued job is
taken if threads keep becoming free (strong fairness of `Schedule`). No
fairness ends a blocked host call; the code has nothing that would, which is why
the liveness properties name blocked processes and a used-up pool as exceptions.
`SupervisorTree`: the owner and every supervisor are scheduled when they have
something to do (weak fairness of `Owning` and of `Work(s)`), and sources end;
nothing is assumed about crashes, about other processes' names or about time, so
`ChildComesBack` holds even if the window never slides or always does.
`Evaluation`: a command goes on if it can (weak fairness of `Run`); nobody has to
type.

## 4. The proofs

Eight modules hold proofs, for every value of the constants that satisfies the
assumptions of the module they are about: `BridgeAssumption` and
`SystemAssumption` (bounds are natural numbers, the host functions are among the
classes, there are enough pids), `TreeAssumption`, `EvaluationAssumption` (the
sources are records of the right shape, and one that imports contains the word),
`ResolveAssumption`, `WidthAssumption` (the widths are in their order and
`DoubleMax` is a power of two; the real ones are), `DepthAssumption`,
`NamesAssumption` and `SizeAssumption` (the names the code uses are names, a
result nests deeper than what it holds), `TokenAssumption` (seven literals are
strings, which the provers do not see), `ValuesAssumption` (the parts of a value
are values) and `MatchAssumption`. TLC evaluates these assumptions in the runs.

| Module | About | Theorems |
|---|---|---|
| `HostBridgeProofs` | `HostBridge`, `BridgeSpec` | `TypeCorrect`, `OneRequestAtATime`, `RepliesMatch`, `NoReplyOverwritten`, `FreedContextUnused`, `NestedRequestsBlock`, `SelfCallsBlock`, `MessagesAccounted`, `MessagesKeepOrder`, `BridgeImplemented` |
| `JsSystemProofs` | `JsSystem` | `SystemTypeCorrect`, `UseAfterFreeImpossible`, `NoContextLeaks`, `ThreadsAccountedFor`, `StartsSerialised`, `CallersInHand`, `NoCallerOrphaned`, `AnswersReachTheirCallers` |
| `SupervisorTreeProofs` | `SupervisorTree` | `TreeAccounts`, `TreeTypes`, `QuietTreeIsUp`, `GroupsRestartWhole`, `NamesFollow`, `TemporaryChildrenStayDown` |
| `EvaluationProofs` | `Evaluation` | `EvaluationsAccounted`, `ShellRemembers`, `LostUntilClear`, `StatusTells`, `ScriptsServe` |
| `ModuleResolveProofs` | `ModuleResolve` | `ResolveInvariant`, `ImportsFindNeighbours` |
| `GenServerStateProofs` | `GenServerState`, `TermConvert` | `StateInvariant`, `KeptIfPlainHolds`, `SettledHolds` |
| `MatchPipeProofs` | `MatchPipe` | `MatchInvariant`, `MatchTakesFirst`, `PipeAgreesOnRecords` |
| `Recursion` | recursive functions on `Nat` | `RecEquations` |

**HostBridge.** `NoStaleReply` is not inductive: it speaks of the moment of
reading, while the reasons lie earlier. `IInv` adds `OneQueued` (an unanswered
request in the owner's queue is that of `cur`, there is at most one, and then
nothing is ready, pending or awaited), `OneTaken` (the same for a request the
owner has taken: pending, awaited by `receive`, or delivered, never two of
them), `LockShape` (who holds the mutex, and what a load in progress holds) and
`FreedShape` (when the context is destroyed the owner is gone, and a thread that
is still inside is in a request to which no answer was delivered). From it follow

- `TypeCorrect`, `RepliesMatch` (`NoStaleReply`), `FreedContextUnused`
  (`NoRunInFreedContext`), `NestedRequestsBlock` (`NestedRequestBlocked`);
- `NoReplyOverwritten` (`NeverOverwrites`), an action property: when
  `deliver_host_reply` is enabled a request is taken and so nothing is ready.

`SelfCallsBlock` needs another invariant, `SelfInv`: while the owner is inside
its own NIF it is not in its loop, so it takes no request, delivers nothing, and
`ready` stays false.

**JsSystem.** `SysInv` adds to the properties what the status of a process says
about its NIF and its context (`Life`), that exactly a process in `init`
executes a job of kind init (`Callbacks`), and that pids are fresh (`Born`).
`Life` is the heart: a living process has a live context; a dead one has
either no NIF and a freed context, or a NIF on a thread and a context that is
kept alive. From it follow `SystemTypeCorrect`, `UseAfterFreeImpossible`
(`NoUseAfterFree`), `NoContextLeaks` (`NoContextLeak`), `ThreadsAccountedFor`
(`ThreadsAccounted`) and `StartsSerialised` (`OneInitAtATime`).

`NoOrphanedCaller` needs more: `CallerInv` says that the
request in hand is the very eval the caller waits for and not another with its
number (`EvalsInHand`), that a callback which answers an eval is in its one NIF
call, so that it cannot end in another way than by a reply, an error or an exit
that releases the caller (`EvalJobs`), and that an exit in the supervisor's
queue serves nobody, so that dropping it strands nobody (`ExitsServeNobody`).

`AnswersReachTheirCallers` (`OwnAnswerOnly`) needs in addition that a request is in
one place only, a queue or a job, under a number that was given out once
(`HandInv`), and that a client whose start the supervisor serves waits for that
start and for no process (`StartInv`).

**The bridge implements its specification.** `IInv` says whose answer is where;
`MsgInv` says what is in it: a request keeps the class of the call that posted
it, an answer is a message exactly if the call is a `receive` (`AnswerShape`),
and the messages, numbered as they were sent, are in what JavaScript received,
the answer on its way, the mailbox and the owner's queue, in this order and
without gaps (`Numbers`). `MessagesInOrder` follows. `BridgeImplemented` then
goes through the actions: each is a step of `BridgeSpec` under the mapping of
section 2 or leaves the mapped state alone. The abstract specification is a
safety property; that calls are answered is `Answered`, which TLC checks.

**SupervisorTree.** `QuietMeansUp` and `NoSurvivors` speak of a supervisor that
has nothing left to do, which no step can preserve by itself. `TreeInv` says what
holds at any time: `Accounted`, every child of a running supervisor is up, or on
its todo list, or its exit is in the queue, or it will be started with a sibling
that is being retried, or its restart type lets it rest; `Outlived`, if a child
has outlived a sibling it should not have, the exit of that sibling is still in
the queue; `Ended` and `ToStart`, the queue and the todo list do not contradict
each other or the processes; `Down`, under a supervisor that does not run
nothing is left; `Named`, a running process holds its name. With todo list and
queue empty, `Accounted` and `Outlived` are the two properties. The proof covers
every tree, any number of processes, and any sequence of faults.

**Evaluation.** `EvalInv` says what the context of the shell is for every name,
lost and free names included (`Explains`), by the lines that were run;
`WereRun` determines these lines, and a new line extends them or not. `StatusInv`
does the same for the totals and the state of `run` and `test`, `ServeInv` for
the functions of a process that serves.

**ModuleResolve.** The invariant is slight; the work is in `Path.expand`.
`CollapseAppend` says what `Collapse` does with one more segment; by induction
over paths an expanded path has no dots (`CollapseClean`), one without dots is
expanded to itself (`CleanCollapse`), and two ways to the same directory lead to
the same place from there (`CollapseJoin`). Hence `PlacedBeside`: the name that
`beamjs_module_normalize` makes, expanded from `base_dir`, is the path next to
the main file. `FirstOfTwo` and `FirstIsFile` say what a search over two lists,
and over files and directories, finds.

**GenServerState.** The invariant `StateInv` says that state and request are
values that can be converted, and that the state is what the conversion makes of
the last one returned; the work is in the conversions, by induction over the
nesting. They are typed (`ToErl` gives terms, `ToJs` values) and do not depend on
the depth at which they are taken, so that the equations of `JsOf` and `TermOf`
hold at `MaxDepth` for a value and its parts. `TextIff`: the term of an array is
an iolist exactly if the array is one of `Texts`. From these `TripFixed`: the
way to Erlang and back returns a value exactly if it is `Plain`, which is
`KeptIfPlain`; and `TripPlain`: what comes back from a `Tame` value is plain,
which with `TripFixed` is `Settled`.

**MatchPipe.** The reference looks at all parts of a value at once, the code at
one after the other with bindings that are changed in place and never undone.
`MatchInv` connects the two in the middle of a match: no earlier clause applies
(`Earlier`), and the value is an instance of the pattern in hand exactly if what
is left to look at is good for every call in `todo`, and then the bindings of
the pattern are those made so far, overwritten by those still to come, innermost
call first (`Progress`). `GoodFrom` and `NamesFrom` say what is left of a call at
a position of its loop. One round of a loop takes the first of what is left
(`ElementRound`, `KeyRound`, `LatestFirst`), and overwriting is associative
(`OverAssoc`), so it does not matter that the inner call finishes first.
`AtMaxDepth` gives the equations of the reference for patterns of any nesting.
The proof for `Pipeline.match` is the same with patterns as `pipe.js` reads them
(`Opened`, with arrays left open and what it does not know never matching;
`OpenedPairs`); on `Common` patterns that is the pattern itself (`CommonOpened`,
`SeenAsTheyAre`), which gives `PipeAgreesOnRecords`.

**Induction.** The library's induction and recursion theorems take an operator as
a parameter, which the provers cannot instantiate. `LeastNat` avoids it: every
non-empty set of natural numbers has a least element, from the well-foundedness
of `<` on `Nat`; applied to a set of counterexamples it gives induction (`AllNat`,
`AllPaths`), and applied to the lengths at which a recursive function is
defined it gives what `Flushed` and `Collapse` compute. In `Recursion` the base
and the step of a recursive function are constants, for which an `INSTANCE` can
put the ones of each definition: `RecEquations` then says that the function
satisfies its equations.

Every inductive invariant was model-checked on the instances above before it was
proved.

**Only model-checked:** every liveness property (the provers have no support for
fairness and ENABLED): `Answered`, `ReceiveReturns`, `EvalAnswered`,
`StartAnswered`, `ContextFreed`, `ChildComesBack`, `TreeEndsWithOwner`, `RunEnds`;
and the five violated properties, for which the counterexample is the result.

## 5. What is not modelled, and why

- QuickJS, vendored in two versions under `c_src/quickjs` and
  `c_src/quickjs-ng`: some 167,000 of the repository's 170,000 lines of source,
  third-party, modelled only where BeamJS relies on it (declarations of scripts,
  the module table, promises of modules). Of the repository's own 3,100 lines the
  models stand for the parts that keep state or decide.
- The transpiler (regular expressions over text), packaging, templates,
  terminal output.
- `get_global`, `call_function` and `execute_pending_jobs` of the NIF: no code
  in the repository calls them, apart from tests.
- The values that cross the boundary are in `TermConvert` only: answers are
  classes in `HostBridge`, results are outcomes in `JsSystem`.
- Clauses that cannot be reached: `dispatch_host_call("receive", ..)`
  (`process.ex:261-271`) is shadowed by the clause of `handle_info`;
  `__genserver_handle_info` is never called.
- The processes behind tasks and agents: `task_await` answers ok without looking
  at the task, and no agent function ever gets a pid it accepts
  (`PidComesBack` is violated), so nothing that JavaScript sees depends on them.
- `test.js`: a file that imports it does not end (`RunEnds`), so its assertions
  never report.
- Children of a supervisor whose sources make host calls: they block in `init`,
  and their supervisor with them, as `OneInitAtATime` and `StartAnswered` show
  for the process supervisor. Shutdown times: a stopped child is taken to stop.

## 6. Plan

The models are complete in the sense of section 5, and every safety property the
passing runs check is proved for instances of any size. Liveness stays with TLC.
When the code changes:

1. An `eval` that leaves the owner free to answer (`caller # Owner` in
   `HostBridge`) makes `HostCall` of `JsSystem` wrong, which blocks for good; the
   two modules would then have to be composed.
2. A request identifier in the reply slot, or a timeout of `receive`, is a change
   of `nif_deliver_host_reply`, `CondWait` and `handle_receive`, and of
   `BridgeSpec`.
3. A conversion that tells lists from text is a change of `TakenForText` alone;
   `Plain` and `Texts` say what it has to achieve.
4. A repair of one of the findings turns its run into a passing one: then
   `RelativeToMain` takes the place of `FoundNextToMain`.
