# Verification of microsandbox-rb

`microsandbox-rb` binds the microsandbox core (a Rust crate that runs microVMs)
to Ruby. The repository holds a Rust extension (`ext/microsandbox/src`), the
Ruby classes over it (`lib/`), and the build pipeline of a companion gem that
carries the `msb` runtime (`binaries/`). The core crate, the kernel, CRuby and
the network are outside of it; the modules take them as the code uses them.

What is hard in this code is not what it computes but *when* things happen to
it: Ruby threads and the interrupts they send each other, the GVL that every
native call gives up, `fork`, the garbage collector, signals, and processes
that are killed half way. The modules here are about that.

## The system

| part | state | operations | what it talks to |
|---|---|---|---|
| process identity (`runtime.rs`) | pid, `FORK_GENERATION` | `current`, the atfork handler | every guard below compares it |
| tokio runtime (`runtime.rs`) | `RUNTIME`, a pointer to a `RuntimeCell` | `runtime()`, without the GVL | every native call |
| native calls (`runtime.rs`) | `ec->interrupt_flag`, the interrupt queue | `block_on`, `nogvl`, `check_interrupts` | default backend, runtime, CRuby |
| default backend (`backend.rs`) | the core's default, `SELECTION`, `BACKEND_OWNER`, `BACKEND_SCOPES` | set, push, pop, read, `adopt_backend` | entered by `block_on` and by `with_backend` |
| fork-guarded handles (`runtime.rs`, `exec.rs`, `fs_stream.rs`, `stream.rs`, `ssh.rs`, `agent.rs`) | a payload and the identity of its builder | `get`, `peek`, `Drop`; take and close of what can be used once | block_on, the collector |
| acquiring a sandbox (`sandbox.rb`) | a native handle not handed over yet | `acquire`, `create`, `connect_or_create`, `start` | `ensure_runtime!`, native calls, `stop` |
| pull session (`sandbox.rb`, `sandbox.rs`) | the `JoinHandle` of the create task; `@sandbox`, `@failure` | `each`, `sandbox` | `acquire` |
| first-use provisioning (`microsandbox.rb`) | `@runtime_ready`, `RUNTIME_SETUP_LOCK`, `~/.microsandbox` | `ensure_runtime!`, `install`, `setup` | default backend, installer of the core |
| bundled runtime (`microsandbox.rb`, `binaries.rb`) | `@bundled_msb_path`, the core's path slot | activation when the library is loaded | RubyGems, provisioning |
| binaries pipeline (`binaries/`) | `vendor/`, staging, the gems | `vendor!`, `rake build`, `rake clean` | GitHub releases, the reviewed checksums |
| sandbox lifecycle (`sandbox.rs`, `sandbox.rb`) | handles to a microVM: an identity, a run, ownership | create, converge, start, get, remove; stop, kill, drain, wait, detach, restart, destroy | core, the collector |
| create options (`sandbox.rs`, `sandbox.rb`, `network.rb`, `patch.rb`, `root_disk.rb`, `host_path.rs`) | none | keyword arguments to builder calls | `ensure_runtime!`, default backend and working directory (host paths) |
| exec, file system, logs, metrics, ssh, agent | streams and sinks | read, write, close, signal | core |
| volumes, snapshots, images | none of their own | calls to the catalog | core |
| errors, conversions, diagnostics, value objects | none | | |

Hard behaviours, and what being correct means for each part:

- **Fork.** A child has a copy of everything and none of the threads. Nothing
  native that the parent built may be used or destroyed in it; it has to build
  its own, chosen the same way, and the blocks it is in the middle of still have
  to end well. Pids come back, selections stop resolving.
- **Lock-free publication.** One runtime per process, whoever wins; the losers
  destroy what they built and nothing else.
- **Interrupts.** CRuby delivers `Thread#raise`, `Timeout` and signals at
  checkpoints, by a `longjmp` that runs no Rust destructor. A result must be
  neither lost nor stopped twice, nor somebody else's sandbox stopped.
- **Results that can be taken once.** They need a way to a caller whatever
  interrupts the taking, and later calls must tell the truth.
- **Provisioning.** One installer at a time, once per process, and a flag that
  is not set by what failed or did not happen.
- **Names and identities.** A name outlives the sandbox that had it. A call on
  an object is about that object's sandbox whoever has the name by then, and
  nobody's sandbox is stopped that nobody asked to stop.
- **Options that are used later.** A relative path is resolved by whoever boots
  the sandbox, unless it is pinned first; a policy decides long after it was
  written down, and in an order its author did not spell out.
- **A pipeline over mutable input.** Nothing unreviewed or partial is packaged,
  whatever changes upstream and wherever a run ends.

## The modules

| module | what | source |
|---|---|---|
| `ProcessIdentity` | processes, pids, generations, ancestors; base of `ForkBackend`, `RuntimeCell` and `Handles` | `runtime.rs` |
| `ForkBackend`, `MCForkBackend` | the default backend, its record, scopes, adoption after fork, `with_backend` | `backend.rs`, `runtime.rs`, `microsandbox.rb` |
| `OncePerProcess` | what `runtime()` promises: one runtime per process, for good | `runtime.rs` |
| `RuntimeCell`, `MCRuntimeCell` | `runtime()` step by step, heap by address; implements `OncePerProcess` | `runtime.rs` |
| `Acquire` | the entry and exit of native calls and `Sandbox.acquire` | `runtime.rs`, `sandbox.rb`, `sandbox.rs` |
| `PullSession` | `PullSession#sandbox` over `PullSession::result` | `sandbox.rb`, `sandbox.rs` |
| `EnsureRuntime` | provisioning under the Monitor | `microsandbox.rb` |
| `Vendor` | the binaries pipeline | `tasks/vendor.rb`, `Rakefile` |
| `Handles`, `MCHandles` | one native handle of any kind, from its construction to its end in every process | `runtime.rs`, `fs_stream.rs`, `exec.rs`, `ssh.rs`, `stream.rs`, `agent.rs`, `exec_handle.rb` |
| `NetworkPolicy` | from the `network:` option to the rules that decide about a flow; definitions only | `network.rb`, `sandbox.rb`, `sandbox.rs` |
| `CreateOptions`, `MCCreateOptions` | a create from its arguments to later boots; extends `NetworkPolicy` | `sandbox.rb`, `sandbox.rs`, `host_path.rs` |
| `Lifecycle` | what callers do to the sandboxes of one name | `sandbox.rs`, `sandbox.rb` |
| `ProcessIdentityProofs`, `ForkBackendProofs`, `RuntimeCellProofs`, `HandlesProofs`, `AcquireProofs`, `EnsureRuntimeProofs`, `VendorProofs` | theorems about the module each is named for | |
| `SandboxProofs` | theorems about `CreateOptions` with its `NetworkPolicy`, about `PullSession` and about `Lifecycle` | |

`ForkBackend`, `RuntimeCell` and `Handles` extend `ProcessIdentity`: their `Fork`
performs its `ForkProcess` and copies their own part of the parent's memory.
Operators whose comment begins with MUTANT are plausible bugs of the definition
that follows them. They take no part in any specification; substituting one for
the definition must break the property that guards against that bug.

### ForkBackend

`mem[p]` is the memory of process p: the default the core holds, `SELECTION`,
`BACKEND_OWNER`, the scopes, and the next token. A backend is a record of who
built it, its number there and the selection it came from; a selection is a
model value that resolves in a process or does not (`resolvable`, which
`ChangeEnvironment` changes). What runs under a mutex also runs with the GVL,
so it is one step: `SetDefaultBackend`, `PushDefaultBackend`,
`PopDefaultBackend`, `ReadDefault`, and the check at the entry of `block_on`
(`EnterCall`). The future it drives runs without the GVL: `RunCall` is a step
of its own. `last` records what the last step used, leaked and dropped;
`blocks` what each open `with_backend` replaced. Both are history.

Two constants let in what the code does not rule out: `TrapForks` (a signal
handler that forks inside a native call) and `Interrupts` (an interrupt as the
native push returns). The passing runs and the theorem about foreign backends
leave out the first; see Disagreements.

### RuntimeCell

Load, allocation, each compare-exchange and the drop of a loser are steps, so
threads interleave and fork between any two of them. A process's heap is a
function from addresses to cells: a freed address may be handed out again, as
the ABA problem needs. `observed` and `fresh` are the locals of the code.

`ImplementsOnce` maps it to `OncePerProcess`: a process's runtime is the cell at
its pointer if that cell is tagged with its own identity (`PublishedIn`), its
answers are what `runtime()` has returned to its threads. The exchange that wins
is `Build`, a later return is `Answer`; a fork, a load, a failed exchange and a
drop are stutters.

### Handles

Every native class keeps its payload in a `ForkGuarded`; what differs between
them is a record, `Protocol`: whether a method awaits the session with the mutex
held (`held`), on a clone of what is behind it (`cloned`, the ssh server) or with
no mutex (`free`, the agent client); whether a close takes the session out of
its `Option`; and whether it is an exec. `Init` picks one of the eight classes,
and `Open`, by any process, builds the handle. From then on each process has
its copy, its own slot and its own mutex, made by `Fork` as they are at that
moment - a mutex that a parent's thread holds stays locked in the child.

A call is `Get` (the guard, and `ForkedHandleError` by not being enabled), then
`NotStarted` (an interrupt before the future is polled) or `Start`, then the
future: `LockToUse` and `EndUse`, or `LockToClose` and `EndClose`, or `Control`
for signal, kill and resize, which go past the mutex. `wait` and `collect` end
with the exec's process, `recv` and everything else when the core says so.
`Finalize` is the `Drop` of the guard, run by `Collect` and at `Exit`. `stdin`
of `ExecHandle` takes the native sink (`TakeStdin`) and then remembers it
(`Remember`); the steps between are Ruby's. A trap handler that forks inside a
call is left out here: it passes this guard as it passes that of the backend.

### Acquire

One thread, and interrupts from outside: `QueueInterrupt` (raise, kill,
timeout), `Signal` (SIGINT, timer tick). `CheckInterrupts`, `TryRun`, `Recheck`
are the loop of `nogvl`; `Finish` is the core's answer; `ReturnToRuby`,
`PopFrame`, `EndMask`, `Construct`, `HandOff` the way of the result to the
caller, each a checkpoint if the code has one there; `CleanUp` and `RunBlock`
the stops. `value` says where the native sandbox is - in a Rust frame, a Ruby
object, with the caller, garbage, freed or lost - and `heard` where which
interrupt was delivered. An interrupt is no `Microsandbox::Error`.

### PullSession

`join` says whether the native session still has its `JoinHandle`. The model
keeps three checkpoints of `acquire` (before the native call, inside acquire,
after it), which `Acquire` covers in full. `users` is the set of threads that
share the session: the documentation asks for one, so `SameAnswer` speaks of
one; the others hold for any number.

### EnsureRuntime

The Monitor is re-entrant (`owner`, `depth`): `ensure_runtime!` calls `install`
with it. `Native.install` gives up the GVL and takes two steps, in which the
files are torn. `SwitchBackend` is any other code; `managed` is the bundled
runtime or `MICROSANDBOX_NO_AUTO_INSTALL`, which do not change in a process.

### Vendor

A file is the platform's it was made for and reviewed or not; a tree is the two
files and a manifest. Extraction and `rm_rf` go an entry at a time. `StepFails`
(the exception reaches the `ensure`) and `Crash` (nothing does) may follow any
step; `ChangeRelease` re-uploads an asset, its checksum, or both.

### NetworkPolicy and CreateOptions

`NetworkPolicy` follows the option through both languages: `AsHash` and
`FromHash` (`NetworkPolicy.coerce`), `NormalizeRule`, the three wire keys
(`Configured`), `ParseRule` and `ParseDestination`, `ParsePolicy` with its order
(`Composed`), and last how the core decides (`Decides`, external). A Hash of
Ruby is a function on the keys it has, because what a key's absence means is
half of the code; names, groups and addresses are words, a destination as
written is a word with the prefix that gives it its meaning.

`CreateOptions` has one call. `BuildCreateOpts`, `EnsureRuntime`, `BuildBuilder`
and `Dispatch` are its steps in the order of `Sandbox.create`; between them
`ChangeDirectory` and `SwitchBackend` are whatever other threads do, and `Start`
is any later boot, in any process and directory. An option that may hold a path
is an item whose text is relative, absolute or a name, `dir` says what it was
pinned to, and `mounted` what the last boot used. Which text is relative or a
name is the text's own; what the code does with it is the model's. Three layers
refuse: Ruby (`RubyRefuses`), the extension (`BuilderRefuses`) and the core, of
which `CoreRefusesLate` does so when the name is already claimed.

`PolicyAsMeant` compares with `Meant`, the option read from its author's point
of view - denied names, then the first of his rules that speaks of the flow,
then what the profiles open, then his defaults - written without the wire, its
keys or the order in which anything is appended. An empty list of protocols or
ports restricts nothing, and a Hash with
nothing but empty denials asks for nothing: the core's default stays.

### Lifecycle

Every method is a plan, a sequence of steps that it has the core take: a `stop`
is `<<"term", "fall">>`, a SIGTERM and the wait that escalates; a block of
`connect_or_create` ends with `<<"leave_unless_owned">>` and a stop. Each step is
an action, so anything may happen between two. A sandbox is an identity under
the one name, each boot of it a run. `object[c]` is what a caller holds, a
`Sandbox` of a run or a `SandboxHandle` of none, and whether it owns the run
(`owns_lifecycle`); `garbage` has the owning objects that nobody refers to, whose
destructor sends the SIGTERM of the safety net (`Collect`); `detached` is
history. The guest may exit when it is told to or drained, crash at any time,
and ignore SIGTERM for ever.

What the steps do is the core's; which steps a method takes, what it is bound
to, who owns the result and who gets it is this repository's, and the
properties are about that. That a method compares identities in the core is in
`Target`; the code used to look the name up again (`sandbox.rs:730-736`), which is
its mutant.

## The runs

| run | what it shows | bounds |
|---|---|---|
| `fork_scopes` | a block gives back what it replaced, even when forked in the middle, nested, or in a child where selections stopped resolving; the record tells the truth about the default; an explicit selection always works | 2 processes, 2 tokens, 4 backends built per lineage, both selections fragile, one failing at a time (`MaxBroken`) |
| `fork_pids` | no descendant passes for an ancestor; no inherited backend is used or dropped | 3 generations on 2 pids, 1 token, 2 backends |
| `cell` | `runtime()` implements `OncePerProcess`; no pointer dangles; every call returns | 2 processes, 2 threads each, 4 addresses, 2 cells built per process |
| `acquire` | nothing lost, nothing of others stopped, what stays up is what the documentation excepts and goes down in the end, interrupts reach the caller, the entry loop ends | 3 interrupts, 3 attempts instead of 64 |
| `session` | the sandbox always has one way to a caller | 3 threads, 5 calls, 2 interrupts |
| `runtime` | one installer at a time and one provisioning, a truthful flag, no wait for ever | 3 threads, 4 calls, 2 failures or interrupts |
| `vendor` | only complete reviewed trees are packaged, vendor/ survives failures before the swap | 2 platforms, 4 runs, 2 upstream changes |
| `handles` | only the builder uses or destroys a handle; its session ends once, not while held by the builder and not under a call that awaits it; no close is lost half way; a kill gets past a parked wait and ends it | all 8 classes, 2 processes on 2 pids, 2 threads each; calls are not bounded |
| `create` | every boot uses the paths the call meant; who is refused leaves nothing behind; a policy decides as its author meant | 2 directories, 2 kinds of backend, every kind of path alone and beside an image or a snapshot, 6 bases x 186 extensions x 4 deny lists of `network:` and its short forms, 48 flows |
| `lifecycle` | a call touches its own sandbox only; nobody's is stopped unasked; every stop ends | 2 callers, 2 identities, 2 runs of each, 3 calls |
| `fork_interrupt`, `stdin_lost` | disagreements 2 and 4 below | |

Why the bounds are enough. *fork_scopes*: two tokens are one nesting, the least
in which scopes can be closed in the wrong order and a saved backend can itself
be temporary; four builds let a parent nest two scopes and its child rebuild
one. *fork_pids*: an ancestor's pid comes back only once the ancestor is dead
and something between them lives, so three generations on two pids is the
first case. *cell*: the winner, one loser, and a fork; four addresses are one
more than two threads and the published cell occupy, so that freed ones recur.
*acquire*: one interrupt ends the acquisition, one its cleanup, one is left.
The number of attempts only matters as reached or not. *runtime*: an installer,
one that waits for it and one on the fast path. *handles*: a call and what gets
in its way - a second call, a close, a fork, an exit; identities that a recycled
pid makes look alike need three processes, which `fork_pids` checks and the
theorems of `Handles` rest on. *vendor*: a runtime, its
replacement, and a build before and after. *create*: paths do not touch one
another nor the policy, so one or two items and one network at a time; two
directories tell the one that was meant from any other; rules in pairs, since
the first of two that match is all that an order can change. *lifecycle*: a call
that waits, one that gives the name away, and one that takes it; a second
identity is the replacement, a second run the restart.

`fork_scopes` identifies states that differ only in `last` (VIEW `NotLast`).
`Next` does not read `last`, and the properties of that run that do are action
properties, which TLC checks on every transition, also those to states it has
seen. Deadlock is not checked where behaviours end by design: processes exit,
calls and runs are used up.

### Fairness

- `RuntimeCell`: weak fairness of each thread inside `runtime()`. It holds no
  lock and blocks nowhere; the operating system schedules it.
- `Acquire`: weak fairness of the thread, and of the collector once an object
  is garbage. Neither is assumed of interrupts, ticks or the caller.
- `EnsureRuntime`: weak fairness of threads that can go on, and of the lock
  being given to some waiter. Nothing is assumed of the order of waiters; calls
  are bounded, so the lock becomes free for good.
- `Lifecycle`: weak fairness of a call's own steps and of the escalation of a
  stop, which the core drives in a native call, without the GVL, under its own
  timer; and of the end of a microVM that was sent SIGKILL. Nothing is assumed of
  the caller's block, of the guest, or of the collector. Calls are bounded, so
  others do not restart a sandbox for ever.
- `Handles`: weak fairness of a thread inside a native call, which runs without
  the GVL, wherever the sandbox does not decide when it goes on; strong fairness
  of obtaining the mutex, which tokio grants first come, first served. Calls
  that wait for the sandbox are not assumed to end, except that nothing of an
  exec's handle waits once its process has ended.

## Disagreements between documentation and code

1. **A trap handler that forks.** `block_on` (`runtime.rs:521`)
   checks the backend, then `nogvl` lets Ruby run trap handlers. In a child
   forked by one, the call goes on with the parent's backend. DESIGN.md:165-167
   says inherited state is never used in the child. `ForeignNeverTouched` fails as
   soon as `TrapForks` is TRUE.
2. **An interrupt as a scope is opened** (`fork_interrupt`). `with_backend`
   pushes before its `begin` (`microsandbox.rb:259`); an interrupt in between
   loses the token, and the temporary backend stays. Its documentation says the
   previous one is restored even on error.
3. **An error that sticks.** `PullSession#sandbox` remembers
   also "native call could not start", which says that nothing has happened;
   its documentation says it re-raises the error *if the create failed*.
4. **A piped stdin that is nil** (`stdin_lost`). `ExecHandle#stdin` takes the
   native sink, then remembers it (`exec_handle.rb:164-165`). An interrupt in
   between loses the sink, and of two threads in it at once the later one
   remembers nil. Its documentation says nil means that stdin was not piped.

5. **A backend switched under a create.** `HostPaths::for_default_backend`
   (`host_path.rs:49-50`) says it captures "which backend the create call is about
   to dispatch to"; the dispatch (`sandbox.rs:554`) comes after the GVL was given
   up, and reads the default again. If another thread switched it from cloud to
   local meanwhile, the relative paths are persisted as written. `PathsAnchored`
   therefore speaks of dispatches to the kind of backend that was captured.
6. **Append or prepend.** `network.rb:265-266` says a profile's expansion is a rule
   base "that explicit rules append to"; `parse_network_policy`
   (`sandbox.rs:1726-1740`) puts them before it, and says why. `PolicyAsMeant`
   follows the code, whose order is the one that lets a rule narrow a profile.

`fork_interrupt` and `stdin_lost` are runs that find 2 and 4. Two more were met
while modelling:

- An interrupt at the entry of the block form's `sandbox.stop`
  (`sandbox.rb:509`) ends the call before the stop has started: the sandbox runs
  until it is collected, which `AbandonedGoesDown` says it is. docs/lifecycle.md:25
  says the block form stops it even on error.
- `vendor!` deletes `vendor/` and then renames (`vendor.rb:217-220`); its comment
  says "atomically". In between there is neither tree; `vendor` shows that no
  partial one is ever accepted.

## What is proved

The theorems hold for any set of processes, threads, pids, addresses,
selections, paths, requests, platforms, sandboxes and callers, and any bounds,
under the assumptions the modules name: `ProcessAssumption`,
`BackendAssumption`, `CellAssumption`, `HandleAssumption`, `AcquireAssumption`,
`RuntimeAssumption`, `VendorAssumption`, `RequestAssumption`,
`SessionAssumption`, `LifecycleAssumption`. They say that the root process
exists, that bounds are numbers, that the "none" values are none of the values
they stand beside, and that the threads of a pull session are finitely many.
`NetworkAssumption` and `FlowAssumption` say what a network option and a flow are:
a Hash has the documented keys and lists where lists are due, a rule's
ports are ranges of numbers, and a flow has a direction and a numeric port.
Neither says that a rule is valid: what the code refuses is refused in the model.
Two more are hypotheses of the theorems that need them:

- `IdentityAssumption`: every child runs the atfork handler, or no pid ever
  comes back. The code compares both halves of the identity because each covers
  what the other cannot; with neither, nothing can tell the processes apart.
- `~TrapForks`, for `ForeignSafe`: disagreement 1 is a counterexample without it.

Every module is proved the same way: an inductive invariant `IInv` (or one named
for the module), one lemma for each action that keeps it, and the properties
from it. TLC checks the properties; the invariants were checked with it before
they were proved.

`ProcessIdentityProofs` has the invariant of identities: generations grow along
a lineage when handlers run, ancestors' identities belong to born processes,
and the living have different pids.

`ForkBackendProofs`, by the invariant `IInv`. That no foreign backend is
touched is not inductive: one has to know what is in memory. `MemInv` says of
each process that if the record names its identity, the default is its own and
so is whatever scopes it opened have saved; that backends in memory were built
with numbers below the counter (so a new one is new); that the record and every
scope tell the selection of the backend they stand for; and that each backend
is held once. `CallInv` says that who is inside a native call passed the check
in this process, `BlocksInv` that every block has its own open scope. From it:
`TypeCorrect`, `IdentitySound`, `ForeignSafe`, `RecordSound`, `HeldOnceSound`.
`NeverStuckSound` needs no invariant: in every handler that chooses a backend the
only way out without one is that the selection to install does not resolve.
`ScopeRestoredSound` needs a second one, `RestoreInv`, about the time between the
push and the pop. Of each open block it says (`Meant`) that its scope has the
selection the block replaced, and that if this process built the backend that was
replaced, then the process owns its memory and the scope still saves that very
backend: only a takeover empties a scope, and only a process that has not built
the backend takes over. A fork keeps it because a child that is only being born
has built nothing (`HeldBorn`), so its copies of the blocks ask for no backend of
its own.
`HeldOnce` (a backend is referred to from one place only) is in no run: it is a
part of the argument for the rest.

`RuntimeCellProofs`, by another `IInv`: a cell tagged with this process's
identity was built by it; what a thread observed is there, and is still what is
published unless this process's own cell is; what a thread built nobody else
refers to, until it is published. From it: `TypeCorrect`, `OwnRuntimeSound`,
`OneRuntimeSound`, `NoDanglingSound`, `DropsSound`, `LeakSound`,
`PublishedSound`, and `ExchangeSound`: a compare-exchange that fails met the
winner of its own process, so the loop of `runtime()` runs at most twice.

`OnceImplemented` is the refinement, `Spec => ImplementsOnce`, for any number of
processes, threads and addresses. By `IInv`, an exchange that succeeds replaces
null or an inherited cell, which `PublishedIn` does not count, with a cell that
this process built (`PublishMaps`); a call is answered with the published cell
(`AnswerMaps`); a fork gives the child an identity that no cell is tagged with
(`ForkMaps`); every other step leaves what is published alone
(`PublishedInStays`). `OwnRuntime`, `OneRuntime`, `DropsOwnUnpublished`,
`LeakBounded` and `PublishedStays` are proved only: what they say of answers is
part of the refinement that `cell` checks.

`HandlesProofs`, by a third `IInv`. `FreshInv`: nothing exists before the
handle is built. `OwnerInv`: the tag is the builder's identity, and whoever has
a copy descends from the builder, so that by `IdentityTellsApart` the guard
tells them apart (`GuardSound`). `CallInv`: who is in a call is a thread of the
builder. `LockInv`: who holds the mutex awaits a session that is in its slot,
and for classes that await under the mutex the other way round. `SlotInv`
counts: a session is in the slot, with exactly one closing thread, or has ended
once. From it: `TypeCorrect`, `GuardKeepsOthersOut`, `EndsCleanlySound`,
`CloseNotLostSound`.

`AcquireProofs`. `PlaceInv` is a table: at each place of the thread, where the
native sandbox is (`value`), whether the microVM is up, and whether an exception is on its
way. `StopInv`: a cleanup stops only what this call owns, and once a stop is over the
sandbox is down or the stop itself failed. `HeardInv`: what was delivered is on its way
up, and who leaves quietly was not raising. `CountInv` bounds the counters. From
it: `TypeCorrect`, `NeverLostSound`, `StoppedOnRaiseSound`, `PropagatesSound`, for
any number of interrupts and attempts.

`EnsureRuntimeProofs`. `LockInv` ties owner and depth of the Monitor to where its
owner is in the code: the threads inside it once, or twice when `ensure_runtime!`
calls `install`, are the owner and nobody else. `FlagInv`: behind the second look and up
to the mark the flag is not set, and who is about to set it has seen good files.
`ProvisionInv`: a provision is remembered, or its thread is about to, or an
interrupt made it forgotten. `CallsInv`: each provision had a call. From it:
`TypeCorrect`, `ReadySound`, `ProvisionedOnceSound`.

`VendorProofs`. `StagingInv`: from the download on, staging holds a part of the
reviewed bundle of the run's own platform, and the whole of it before anything is
removed from vendor/. `VendorInv`: vendor/ is never a mixture, always a part of one
platform's bundle - what a crash between any two entries leaves. `UntouchedInv`: until its staging tree is verified a run leaves
vendor/ alone. `TaskInv`: which steps are whose. The lemma that does the work is
`PartVerified`: the manifest comes last, so a part of a bundle that passes the
gate is all of it, and of that platform. From it: `TypeCorrect`,
`PackagedReviewedSound`, `TouchedSound`, `AcceptsSound`.

`SandboxProofs` has three parts.

- *CreateOptions.* `BuilderInv`: the builder for a local backend holds the request's
  items pinned to the directory that was captured, the one for a cloud backend holds
  them as written; `ReachedInv`: what each layer has refused by then, so that the
  next one can rely on it; `EffectInv`: only a create that is through has touched
  the name or the store. By `ResolvedPinned`, a boot in whatever directory resolves
  pinned items to what was meant where they were pinned. From it: `TypeCorrect`,
  `PathsAnchoredSound`, `RefusedCleanlySound`. `PolicyAsMeantSound` needs of the
  invariant that the builder's policy is the one the request makes; the rest is
  `PolicyMeant`, a theorem about the definitions of `NetworkPolicy`. Its argument
  is that the first rule to match decides. Of lists in a row each one has a say
  where those before it are silent (`FirstOfConcat`, `ThreeInARow`), and a list of
  one action takes it wherever it is not silent (`OneAction`), in whatever order the
  expansion of the profiles comes. The first match is the least
  matching index (`LeastIndex`, from a theorem of the library on the naturals), so
  lists have any length without an induction over them. `RuleSays`: a rule on the
  wire matches the flows its author speaks of. `DenialsDecide`, `CallersDecide`,
  `ProfilesAbout` and `DefaultsMeant` say so of the three lists and of what
  is left; `KeysAgree` that no key of the wire hides what the Hash asked for.
  `DeniedStaysDenied` follows for denials: in any policy, whatever else it has,
  a denied domain or suffix is denied.
- *PullSession.* `AskersInv`: who is in a call shares the session, and what has been
  returned is remembered. `AloneInv`: a single user's session remembers one answer,
  and has lost its handle without one only while the call that took it is under way or
  after an interrupt consumed its result. From it: `SessionTypeCorrect`,
  `ReachableSound`, `SameAnswerSound`.
- *Lifecycle.* `WorldInv`: at most one sandbox has the name. `CallInv`: what a call
  still has to do is the rest of a well-formed plan (`WellFormed`: where in a plan the
  catalog may be asked by name, and what stands before a signal), and it
  is bound to a sandbox whenever its next step needs one. `ObjectInv`: who holds an
  object holds that of one sandbox. `OwnerInv`: a run has one owner at most - an object, an
  abandoned object or the call that booted it - and none that was told to let it live.
  From it: `LifecycleTypeCorrect`, `OwnIdentitySound`, `UnaskedStopsSound`.

Only model-checked:

- liveness (`CallsReturn`, `EntrySettles`, `KillEndsWait`, `AbandonedGoesDown`,
  `LockObtained`, `StopsReturn`), which is out of the prover's reach.

Every invariant and every action property that a passing run checks has a theorem.

`fork_interrupt` and `stdin_lost` refute the property they check.

## What is not modelled

- Inside the core: the state machine of sandboxes, the catalog, the network,
  and its locks - among them the `RwLock` of the default backend, which a fork
  in the middle of another thread's call may leave locked (DESIGN.md:274-282
  declares it unsupported).
- Conversions: errors to classes, values to hashes, and the create options that
  are forwarded as they are (resources, environment, ports, dns and tls tuning,
  secrets, registries, limits).
- Modification, volumes, snapshots, images: this repository converts their
  arguments and results, and the core does the rest.
- Listing and the accessors of a handle, which change nothing; sandboxes with
  different names, which the code never relates.
- Two rake processes at once in one checkout; nothing in the pipeline claims to
  support it.
- What streams carry: order and content of events, log entries and chunks are the
  core's. Of the Ruby side of exec and files, the block forms and their closes;
  `ExecStdin`'s own write and close.
- `PROJECT.json` lists every part, and for every hazard the properties that
  cover it.

## Plan

In this order, the most important first:

1. done: `ProcessIdentity`, `ForkBackend`, `RuntimeCell`, `Acquire`,
   `PullSession`, `EnsureRuntime`, `Vendor`, with proofs of the first three.
2. done: `Handles`, with its proofs.
3. done: `OncePerProcess` and its refinement, `NetworkPolicy`, `CreateOptions`,
   `Lifecycle`.
4. done: proofs for `Acquire`, `EnsureRuntime`, `Vendor`, `CreateOptions`,
   `PullSession`, `Lifecycle`, and for the action properties of `ForkBackend`.
5. done: policies of every length mean what their author wrote (`PolicyAsMeant`).
