# A TLA+ model of nono

nono runs a command under a kernel sandbox. A supervisor process stays outside:
it answers what the kernel sends it about the child, asks the user, hands over
descriptors, records what it did, and can put the user's files back afterwards.
This directory holds TLA+ modules for the parts of that supervisor whose
correctness depends on the order of things, TLC configurations that check them
on small instances, and proofs that TLAPS checks for all instances.

Paths below are relative to `src/crates/`.

## 1. Inventory

### Parts and what they keep

| part | source | state | operations |
|---|---|---|---|
| rollback | `nono/src/undo/{object_store,snapshot,exclusion,types}.rs`, `nono-cli/src/rollback_*.rs` | object store, numbered manifests, `session.json`, the live tree | `store_file`, `create_baseline`, `create_incremental`, `restore_to`, `compute_restore_diff`, temp-file cleanup, review, `nono rollback restore` |
| session audit log | `nono/src/audit.rs`, `nono-proxy/src/audit.rs`, `nono-cli/src/rollback_runtime.rs`, `supervised_runtime.rs` | NDJSON log, recorder (sequence, chain, leaves, rollup), live sink, proxy buffer | append, attach and detach the sink, buffer, drain, replay, end, summarise, verify |
| audit ledger | `nono-cli/src/audit_ledger.rs`, `state_paths.rs`, `nono/src/audit.rs` | one ledger per user, `ledger.lock`, a legacy ledger | lock, migrate, append, verify; exit status of the run |
| audit inclusion proofs | `nono/src/audit.rs` | leaves of the log, a proof | build, verify |
| filesystem supervisor | `nono-cli/src/exec_strategy/supervisor_linux.rs`, `exec_strategy.rs`, `protected_paths.rs` | notifications, socket requests, token bucket, seen request ids | receive, resolve, match, gate, ask, audit, re-open, inject or send |
| trust interceptor | `nono-cli/src/trust_intercept.rs` | cache of verdicts by path and metadata | `check_path`, digest recheck |
| relay prompt gate | `nono-cli/src/relay_prompt_gate.rs`, `terminal_approval.rs`, `pty_proxy.rs` | owner, pending count, paused; terminal mode; prompt slot | `run_paused`, `service`, hold, resume, register |
| owned children | `nono-cli/src/owned_children.rs`, `exec_strategy.rs` | registry of pids, its mutex, the process table | spawn, wait, drop, wildcard reap |
| network notifications | `nono-cli/src/exec_strategy/supervisor_linux.rs`, `exec_strategy.rs` | trapped call, session answers per socket, two token buckets, suppressed denials | receive, read destinations, decide, ask, audit, answer, drain, summarise |
| host approval | `nono-proxy/src/connect.rs`, `server.rs`, `filter.rs` | session decisions, in-flight slots, blocking prompts | check, elect, prompt, backstop, publish, follow, resolve, connect, log |
| proxy: accept loops | `nono-proxy/src/server.rs` | `active_connections`, two listeners | accept, load, count, handle, release, stop |
| proxy: request handler | `nono-proxy/src/reverse.rs` | route, approval thread, credential, audit events | route, approve, acquire, authenticate, limit, check, forward, log |
| proxy: rate limiter | `nono-proxy/src/rate_limit.rs` | tokens, `last_refill` | read the clock, lock, admit, delay, reject |
| proxy: upstream pool | `nono-proxy/src/pool.rs`, `filter.rs` | pins by host, clients by TLS configuration, idle connections | check, pin, dial, reuse |
| proxy: TLS interception | `nono-proxy/src/tls_intercept/` | h2 probe cache and its lock, leaf cache, CA | look up, probe, mint, present |
| proxy: token caches | `nono-proxy/src/oauth2.rs`, `spiffe.rs` | token and its expiry | fast look, slow look, exchange, use |
| approval runtime | `nono-cli/src/approval_runtime.rs`, `terminal_approval.rs` | deadlines, the prompt slot, the chain's state | ask, submit, poll, prompt, combine |
| PTY proxy | `nono-cli/src/pty_proxy.rs` | attached client, scrollback, accept queue, held keys | relay, attach, detach, replay, filter keys, tear down |
| session registry | `nono-cli/src/session.rs`, `session_commands.rs` | one file per session | write, reconcile, list, prune, stop |
| platform login | `nono-cli/src/platform_oauth/`, `login_cmd.rs` | record, key, refresh token, lock file | sign in, refresh, sign out |
| token broker | `nono-cli/src/tool-sandbox/token_broker.rs` | phantoms, values, grants, names | issue, store, resolve, reissue |
| command broker (Linux) | `nono-cli/src/tool-sandbox/platform/linux.rs` | queue, slots, tracked children, process tree | accept, walk, decide, launch, track, wait, record |
| URL opening, socket framing, macOS broker, platform clients, packages, policy and profiles, kernel backends, keystore, command line, bindings | see `PROJECT.json` | | not modelled (section 8) |

### How the parts interact

* The supervisor thread polls the seccomp listener, the supervisor socket, the
  PTY and the child. Both filesystem handlers run on it and share the token
  bucket, the trust interceptor, the approval backend and the audit recorder.
* The recorder is behind a mutex. Proxy tasks reach it through a sink that
  they call under a read lock, mediation threads call it directly, and the
  finalizer takes it after detaching the sink.
* The finalizer ends the session log, writes `session.json`, then appends to
  the ledger under `flock`. Whether all of that succeeded decides the exit
  status. Several nono processes of one user share the ledger.
* Worker threads that need the terminal wait at the prompt gate; the supervisor
  thread pauses the relay for them and does nothing else until they are done.
* The supervisor is a subreaper, so its wildcard `waitid` sees the children
  that other threads spawn and wait for themselves.
* The command broker serves each shim on a thread of its own, launches the real
  command as a child of the supervisor and waits for it through the registry of
  owned children; credentials it captures become phantoms of the token broker,
  which the proxy redeems.
* In the proxy every connection is a task. Tasks share the connection counter,
  the in-flight map of approvals, the pins, the limiter of a route and the
  caches; each of these has its own lock, and none is held while another is
  taken, except that the probe and the token exchange are awaited under theirs.
* Approvals of every kind end in one chain of backends, whose terminal backend
  stands behind the prompt gate.
* Session records and the platform sign-in are files that any number of nono
  processes read and write; only the sign-in is locked.
* The rollback code shares the tree with everyone: the child, its orphans, the
  user's editor, and other runs.

### What is hard here

Reads of the file system that are used later, after the child has moved a link
or rewritten a file; approvals that take longer than the call they are for;
audit writes that fail after the decision; deliveries in flight while a log is
closed; processes that die with half a record written; a thread that waits for
other threads while it should serve them; wildcard waits; buffers, token
buckets and replay caches at their limit. `PROJECT.json` lists each of these
hazards at its line with the properties aimed at it.

## 2. Plan

Order, most important first.

1. `Undo`, `SessionAudit`, `AuditMerkle`, `Ledger`: whether the user's files and the evidence
   of a session survive. Done.
2. `Supervisor` with the trust interceptor, `NetNotify`: run-time decisions on
   what the kernel traps. Done.
3. `HostApproval` and the abstract `HostArbiter` it implements; `ApprovalChain`,
   `RelayPromptGate`: who is asked, and what an answer may still do. Done.
4. `ShimBroker`, `TokenBroker`, `OwnedChildren`: mediated commands. Done for
   Linux.
5. `AcceptLoop`, `ReverseProxy`, `RouteRateLimiter`, `PinnedPool`,
   `InterceptHandshake`, `TokenCache`: what requests of the proxy share. Done.
6. `PtyAttach`, `DetachKeys`, `SessionRegistry`, `PlatformLogin`: what outlives
   or crosses one process. Done.
7. Proofs of the safety properties of all of these, except `AuditMerkle`
   (section 6). Done.
8. Left to model: the bootstrap handshake with the sandboxed child
   (`exec_strategy.rs`, the descriptors it clones), delivery of the remote
   audit client, install and removal of packages, the set-up and tear-down of
   resource cgroups.
9. Left to prove: further properties that the modules state and no standing run
   checks, among them `RestoreMatchesPreview` and `ReviewKeepsExcludedFiles` of
   `Undo` and `ResultIsRecorded` of `ShimBroker`.

## 3. Modules and the code

### `Undo`

`fs` is the live tree (one tracked root, depth two), `objects` the object
store, `manifests` the snapshot files. A content is identified with its hash.
Each system call sequence of the code that another process can get between is
one action: `WalkFile` hashes, `CloneObject`/`CloneFails`/`RereadObject` are
`clone_or_write_object`, `StoreMetadata` is the `fs::metadata` after it.
`restore_to` is `RestoreWalked`, `ValidateTargets`, then `RestoreFile` and
`RestorePermissions` per file, `DeleteSurplus`, `UnlinkSymlink`. `phase` follows
the supervised run: baseline, child, final snapshot, `session.json`, review,
cleanup. `CollectAtomicTempFiles` is the scan for editor temp files before and
after the session; it stops at `MaxEntries` entries, so which ones it has seen
is a choice, and it looks through links to files (`FileLinks`). `ExternalChange`
is any other process, `Fault` an I/O error, `Crash` the death of the nono
process. `quiet` and `before` are history variables.

### `SessionAudit`

The log is a sequence of lines, a line a sequence of records whole or torn: a
failed write can leave bytes without a newline and the next append continues
that line. A chain hash is the sequence of leaves it commits to. `push[e]` says
how far a proxy delivery has come (`push_event`: read lock, sink call, buffer).
`phase` is the supervisor thread from `record_session_started` to
`write_session_metadata`: both buffers are drained into one list, a loop sorts
out what was not recorded live, and only then is the recorder locked and the
rest replayed; the proxy can push at each of these points. `Observed` is the command-policy rollup with its
bound on named commands.

### `AuditMerkle`

The tree over the log's leaves: `merkle_root`, `build_inclusion_proof` and
`verify_inclusion_proof`, level by level as the loops go. A hash is the term it
was computed from, so two hashes are equal only if what they commit to is. The
log grows by `AppendLeaf`, `Build` makes a proof of what there is, and `Alter`
lets any field of it differ before it is verified. `Rfc6962` is the reference:
the tree as the RFC defines it, from the top. The operators are recursive, so
this module is checked and not proved about.

### `Ledger`

One process per session: `write_session_metadata`, `acquire` (the `flock`),
`begin_migration`, `copy_legacy`, `rename_migrated`, `read_ledger`,
`append_record`, `append_newline`, `sync_data`, `report`. `Die` kills a process
anywhere and the kernel drops its lock. The record and its newline are two
writes, as in the code.

### `Supervisor`

`work` is the request in hand and the step it is at; each step between two
reads of the file system, of the notification's validity or of the audit file
is an action. Notifications go `RecvNotif`, `FirstCheck`, `Canonicalize`,
`PolicyCheck`, `ExistsCheck`, `Gates`, `CheckPath`, `StoreCache`,
`RequestApproval`, `RecordAudit`, `SecondCheck`, `OpenPath`, `DigestRecheck`,
`InjectFd`. Socket requests go `RecvRequest`, `RequestProtected`,
`RequestDenied`, then join at `CheckPath` and end in `SendFd`. Meanwhile the
child may `Relink` a name, `Rewrite` a file, open more, send more, or be
interrupted. Policy is given by sets that names and objects belong to; the
metadata that the trust cache compares is the object with a stamp that every
rewrite advances. The name in the child's memory and the open flags are read
once and are arbitrary. An approval backend is an arbitrary answer. `LeaveLoop`
ends the service between two requests while the child lives on: the PTY relay
has seen the end of its input or an error, or `poll` failed
(`nono-cli/src/exec_strategy.rs:3265-3287`), and the supervisor only waits for
the child from then on (line 3372).

### `RelayPromptGate`

A region under the gate's mutex is one step; a thread in a condition wait moves
only when notified or when its deadline passes. `terminal` is raw or cooked,
`slot` the process-wide prompt lock. `sup` runs from the fork (`AttachTerminal`,
`Register`) through the loop (`Service`, `PauseRelay`, `HoldPause`,
`ResumeRelay`, its own prompts) to `Unregister` and `RestoreTerminal`.

### `OwnedChildren`

`proc` is the kernel's process table. An owner spawns under the mutex and
registers, waits without it, and unregisters. The reaper locks, observes with
`WNOWAIT`, looks the pid up, reaps or stops, and the loop then waits for the
primary child.

### `NetNotify`

`work` is the trapped call in hand. The destinations of `connect`, `bind`,
`sendto`, `sendmsg` and `sendmmsg` are read once (`RecvNotif`) and decided one
after the other (`Decide`); an AF_UNIX pathname is resolved, looked up among the
session's answers (`LookUpDecision`), asked about (`BackendAnswers`), recorded
(`RecordAudit`) and the call revalidated, each in a step of its own, while the
child relinks the name or is interrupted. Both token buckets (questions and
denial events) and the counter of suppressed denials are state; the summary is
written when the budget returns and at every exit of the loop, including the
drain after the child's exit.

### `HostApproval`, `HostArbiter`

A connection is in one of the awaits of `handle_connect`. The election and
`InFlightLeader::drop` are one critical section each; the prompt runs on a
blocking thread that survives its leader's timeout. `HostArbiter` says the same
without elections, followers, threads and lookups: a question about a target
stands for one connection at a time, until it is answered or given up, and only
an answer to a question that stands lets a connection through or is remembered.
`ImplementsArbiter` maps the session decisions, the single-use grants, the opened
upstreams and the prompts whose deadline has not passed to it, so an answer that
is used although it came late is not a step of the arbiter.

### The proxy

`AcceptLoop` splits the check of the limit into load and increment, as the
atomics do. `ReverseProxy` follows one request through every early return, with
`todo` the stages its kind of route still has to pass. `RouteRateLimiter` reads
the clock before the lock. In `PinnedPool` the connector dials later than the
request pins. `InterceptHandshake` and `TokenCache` hold the write lock across
the probe and the exchange. Time is a counter bounded by a horizon; `TokenCache`
lets the endpoint mint at any moment between request and answer.

### `ApprovalChain`

`chain` is the list of backends the session was started with, one of `Chains`,
`mode` whether all or any must grant or one is asked alone. Both are chosen in
the initial state and stay. `SessionScoped` are the callers whose requests may
be granted for the session. What remains of each budget is state and `Tick` takes a unit from
all of them, so a decision may arrive, be read and be used at different times.

### `PtyAttach`, `DetachKeys`

`PtyAttach` has one supervisor thread, the terminal the session started on,
clients that attach and commands that detach; output is numbered chunks and the
socket holds a bounded number. `DetachKeys` is the filter itself, per key and
per form in which keys arrive. `out` is what the session is given of presses;
reports of repeats and releases pass or are swallowed without a trace there,
but they do what the code has them do to the match.

### `SessionRegistry`, `PlatformLogin`

`SessionRegistry` takes load, probe and write of every reader apart; the
supervisor may be stopped, killed and its pid reused. In `stop` the last probe
at the deadline and the SIGKILL after it are two steps (`DeadlinePasses`,
`KillNow`). `PlatformLogin` makes each file operation of `store_session`, `clear`
and the refresh a step that may fail or be the last; the platform may demand a
nonce once, upon which the request is sent again, rotates on every use and
revokes on reuse.

### `ShimBroker`, `TokenBroker`

`proc` is the process tree below the session, with orphans falling to the
supervisor. `req` is one broker thread per shim: accept, walk (one parent per
step), decision, slot, launch, track, wait, join, record, answer. `TokenBroker`
is one action per locked operation, and a capture is a read and a later store.
A process id is free once its process is gone and reaped, whoever still holds
the number: the broker's threads hold the bare id of the peer and of the process
their walk is at. `kernel` is what only the kernel knows of a request: which
launches the processes descend from that had those ids while the thread held
them (`owners`), whether the peer's id is still the shim's (`waits`), and whether
the child's status was lost to its thread (`lost`).
How commands are launched, the size of the queue and whether there is a cgroup
to find severed processes by is the `setup` of a session, chosen from `Setups`
in the initial state.

### Groups

Components that have no state in common and are checked and proved together are
instances of one module that names their constants, variables and properties:
`Proxy` (the six parts of the proxy besides host approval), `SharedFiles`
(session records and sign-in, beside `Ledger`), `SessionThreads` (prompt gate,
attach socket, detach keys, approval chain, beside `OwnedChildren`), `Mediation`
(command broker, beside `TokenBroker`). The MC module of the run and the module
with the proofs both extend the group, so a run checks the definitions that the
theorems state.

## 4. Runs

A component gets a run of its own where its instance is large or where it needs
its own fairness. The others are explored in groups (section 3), and some under
several loads. `moving` is chosen in the initial state and never changes; the
component it names takes its steps and the others rest in an initial state. A
behaviour of the group is therefore a behaviour of one component, and an
invariant of the group that speaks of one component is checked on exactly that
component's reachable states. Products of independent components would be far
larger and show nothing more.

| run | instance | what it shows |
|---|---|---|
| `undo_restore` | one directory with a file that is also an editor temp file, beside them a second tracked file or an excluded path, two contents (symmetric) and modes, an entry budget of three, two outside changes, one I/O error, a crash | an undisturbed snapshot is exact and has its objects; a restore that says Ok has reached the manifest, and at every step each file is old or new; every write has verified content; a session in which nobody wrote changes nothing, excluded paths included |
| `supervisor` | two notifications and a socket request, two names over seven kinds of object, one relink, one failing append | no descriptor of a protected, denied or blocked object through `open_path_for_access`; none on approval without a recorded grant |
| `supervisor_requests` | an instruction file, one rewrite, one relink, a replayed id, a failing append | only content the trust policy lets through is handed over, an id is granted once, a notification that was received is answered on every path and one that waits is served unless the loop is left |
| `records` | three proxy tasks against a buffer of one; three mediation threads against a rollup of one named command; logs of up to five leaves and proofs with two fields that differ | events are logged once, a saved session verifies for ever, the rollup counts what is logged, a proof is accepted only for a leaf of the log its root belongs to |
| `net_notify` | three calls out of six shapes, a granted, an askable and a forbidden socket under one name, one relink, bursts of one | a call continues only if each destination was let through; events, the summary and the counter account for every denial |
| `host_approval` | three tunnels to one unlisted host; any two connections (tunnel, forward, chained) to unlisted, listed and denied hosts beside a refused one | the handlers implement `HostArbiter` with its deadlines; the log says what happened; nobody waits for ever in the election or for a prompt |
| `proxy` | two loops over one slot; one request of every kind of route; three requests on one limiter, pool and token cache; three connections to three hosts | the limit is passed by at most one; nothing is forwarded without authority; admissions are paid for; no connection to a denied address; one probe per host; a cached token is still honoured |
| `terminal` | three worker prompts and one of the supervisor's; the terminal, an attacher and a detacher over three chunks; five keys in four forms; two threads on two chains; two owners and two orphans | gated prompts only on a paused terminal, pauses end; output is unbroken from replay to live; keys are kept; a grant is backed by the backends and by time; waiters get their status |
| `shims` | two requests for two commands over three or two pids, under capture, respond and limit, with and without cgroups, one slot; two credentials with two values | a request counts for what a process that had the ids the walk stood on descends from, however processes exit, are reparented and ids are reused; nothing is left over whichever step fails, but the entry of a brokered command whose wait failed; rotated values are out of reach |
| `sessions` | three processes and a legacy ledger of two records, two faults; a session with `ps`, `prune` and `stop`; two processes and two sign-ins with two crashes | the ledger's chain holds and the migration keeps it; late commands see the exit; the record has its secrets and a token is reused only after a lost answer |
| `undo_store_race`, `supervisor_warn` | violations, section 5 | |

Every property has a mutant: an operator defined beside the one it stands in
for, which changes the code in a way a bug could (a dropped check, a missing
notify, a lock kept). TLC finds the property violated with the mutant in place.

The modules state more than the standing runs check: a `TypeOK` each, and
further properties, among them liveness (`ReceivedAnswered`, `PromptsEnd`,
`EveryRequestEnds`, `EveryShimAnswered`, `HandshakesEnd`, `RequestsLeave`,
`StopEnds`, `FinalizationEnds`, `ZombiesCollected`). Each holds under the fair
specification of its own module on instances like those above, and can be run
by giving that module a configuration; they are left out of the standing runs to
keep these short.

### Bounds

Contents, names and objects are told apart only by equality and by the policy
sets, so one representative per policy class is enough; the `supervisor` run
has one object in each. Two outside changes are needed to change a file after
it was hashed and again after it was cloned; the second tracked file lets a
restore fail on one file after it has replaced the other, and `SecondFileAlone`
keeps it apart from the excluded path and from unreadable files, which concern
the walk and not the loop over files. One relink is needed to separate any one
pair of reads of a name (two reads of one request that see the same object in
between give nothing new), one rewrite to separate the digest from the
metadata. Two notifications share the bucket of one token with one refill. The
buffer of one is full after the first event; the rollup bound of one is passed
by the second command. Three ledger processes are the smallest number in which
two wait while one migrates; two faults let one process die in the migration
and another fail after it. Three tunnels to one host give a leader two
followers, of which one leads again after a single-use grant. Three requests on
a limiter, a pool or a cache let one overtake another that waits behind a third.
Three process ids give a walk a parent and a grandparent below the root, and
`Depth` 4 lets every such walk reach it. Five keys are more than a sequence of
three that starts over. Clocks run to a horizon past the last expiry. What these
bounds leave out is covered by the proofs of section 6, which hold for every
value of the constants.

`CHECK_DEADLOCK FALSE` is set where behaviours end: the session is over, the
notifications are used up, the workers are done. `Proxy.cfg` and
`HostApproval.cfg` check for deadlock: their components end in a final state
that stutters explicitly.

### Fairness

* `Supervisor` (`NotificationsAnswered`): the loop, while it runs, serves a
  ready descriptor, and the backend answers or fails by its deadline (an error
  is one of the answers). Nothing is assumed of the child, and nothing keeps the
  loop from being left between two requests: the property promises an answer
  to what was received, and to what waits only while the loop is not left.
* `HostApproval` (`ElectedSettles`): the runtime polls tasks that can go on,
  timers fire, and a tunnel's connect attempt has its timeout. Nothing is
  assumed of the backend, whose answer may never come, nor on the forward path
  of the client's body and the upstream's response, which the code awaits
  without a timeout (`nono-proxy/src/server.rs:2354`, `forward.rs:126-158`):
  there the property ends where the request is let through. Chained connections
  take no part in the election.
* `RelayPromptGate` (`PauseEnds`): threads are scheduled; a prompt ends by its
  deadline.

The other modules state theirs beside their fair specification: schedulers run
what can run, deadlines pass, `OwnedChildren` needs strong fairness for its
mutex; users, clients, servers, children and crashes owe nothing. Exceptions are
named where they are made: a shim that has connected sends its request
(`ShimBroker`), and in `TokenCache` the workload API answers and the client sends
its body; they concern only properties outside the standing runs.

## 5. Disagreements

Two runs check what a comment or a document says and TLC shows the code doing
otherwise.

* `undo_store_race`: `clone_or_write_object` promises on a hash mismatch to
  fall back to "re-reading the source and writing content directly"
  (`nono/src/undo/object_store.rs:243-245`). It discards the clone and returns Ok
  (lines 290-300): the manifest names a hash without an object and a later restore
  stops at that file.
* `supervisor_warn`: under `warn` enforcement an unverified file is let
  through, but `verify_and_cache` has stored the failure first, and the next
  open of the unchanged file is refused from the cache. The documentation says
  `warn` lets the agent proceed (`docs/cli/features/trust.mdx:301`).

The following are of the same kind. The definition named is in the module of
the component and fails on a small instance of that module; the standing runs
do not include them.

Files, sessions and approvals:

* `Supervisor!UnapprovedFdsInInitialSet`: a path that resolves into `/proc` and
  is covered by the initial set is opened without asking.
  `open_path_for_access` resolves it again and checks protected roots, deny
  paths and blocked entries, but not that the new object is covered too. The
  prompt "only appears for paths outside the granted set"
  (`docs/cli/features/supervisor.mdx:62`).
* `SessionRegistry!ExitCodeKept`, `AttachmentShown`: a reader that loaded a
  record early writes the reconciled copy back over a final exit code or a newer
  attachment (`nono-cli/src/session.rs:196, 208`), against
  `session-lifecycle.mdx:13-14`.
* `ApprovalChain!HopWithinBudget`: a poll in the last second is given a whole
  second (`nono-cli/src/approval_runtime.rs:624`), "so a late poll cannot
  outlive the deadline" (line 623). Its answer is discarded all the same.
* `PlatformLogin!StoredLoginFound`: a login reads its record back after dropping
  the lock (`nono-cli/src/login_cmd.rs:140`), where `cli-login-v1.md:282` has the
  lock held while the session is read.

Terminal:

* `PtyAttach!DetachServed`: with a client that has stopped for good the write to
  it waits without a limit on the thread that serves `nono detach`
  (`nono-cli/src/pty_proxy.rs:2231`).
* `DetachKeys!DetachSeen`: `Ctrl-] Ctrl-] d` is recognised as bytes and not as
  CSI-u reports (`pty_proxy.rs:1393`); a sequence such as `a a d` is missed in
  `a a a d` (line 1286).

Proxy:

* `AcceptLoop!LimitRespected`: two loops both pass the check for the last slot
  (`nono-proxy/src/server.rs:1557`). `OvershootBounded` is what holds.
* `RouteRateLimiter!RateCapped`: a clock reading that reaches the lock late sets
  `last_refill` back and an interval counts twice
  (`nono-proxy/src/rate_limit.rs:107`). `AdmissionsPaid` is what holds.
* `PinnedPool!ConnectsToOwnCheck`: pins are keyed by host alone and carry a
  port; with routes to one host on 443 and 8443 one request can connect to the
  other's port (`nono-proxy/src/pool.rs:60`). `NeverToDenied` is what holds.
* `InterceptHandshake!PresentedLeafValid`: a cached leaf is presented past its
  own validity (`tls_intercept/cert_cache.rs:87`); `ProbesAreShortLived`: an
  upstream that stays silent (`Silent`) holds the cache lock of every host
  (`tls_intercept/h2_probe.rs:74`).
* `TokenCache!CheckedTokenValidInUse`: the token is taken before the body is
  read from the client and may have expired when it is sent
  (`nono-proxy/src/oauth2.rs:30`).
* `ReverseProxy!DecisionsAudited`, `ReachedAreAudited`, `LimitedRoutesPay`,
  `NoAuthAcceptsAll`: the handlers of OAuth2, SPIFFE assertion and SPIFFE routes
  leave before the limiter, validate the session token under `--no-auth`, and
  answer one denial without an event (`nono-proxy/src/reverse.rs:271, 412, 710,
  1519`); a client that hangs up while a reply is sent ends the handler before
  its event (line 635).

Mediated commands (`tool-sandbox/platform/linux.rs` and `token_broker.rs`):

* `ShimBroker!ShortWalkWasSevered`: a command that asks for another before its
  own launch is tracked looks daemonized (line 5025);
  `SelfInvocationKeepsSandbox`: a severed process loses the caller it was
  launched under (line 2152); `DecisionsRecorded`: errors of the approval
  backend return before the outcome is recorded (line 1655); `LimitIsAnswered`:
  past an output limit the broker still waits for the last holder of the pipe
  (line 4712).
* `ShimBroker!SenderIsCaller`: the broker takes the bare id of `SO_PEERCRED`, then
  reads the request without a timeout (lines 1276-1284), and the walk reads
  `/proc` by number (line 2148). A shim that goes away may have its id taken by
  another process before the walk starts, and an ancestor's id likewise during
  it; the request then counts for that process. The macOS broker guards a lookup of
  its own against such reuse (`tool-sandbox/platform/macos.rs:2253`). `CallerIsSpawner` is what holds.
* `TokenBroker!RouteRedeemsNamed`: a templated phantom is never redeemed by name
  (line 225); `NewestCaptureHeld`: of two overlapping captures the older value
  can be stored last (line 172).

Seen while modelling, reachable in the modules, without a run of their own:

* The read-and-write fallback of the object store files the content it reads
  now under the hash computed before. Restores detect it (`retrieve_to`
  re-hashes), but deduplication keeps the wrong object.
* A file that could not be opened at the baseline is not in its manifest; if it
  is readable when the baseline is restored it counts as created and is deleted.
  Two I/O errors are enough for this without anybody else's doing: the clone
  fails, the fallback's read fails, and `walk_and_store` goes on without the
  file. Hence `faults < 2` in `IdleSessionChangesNothing`.
* An editor temp file that the baseline holds, that is gone when
  `collect_atomic_temp_files` looks (after the baseline) and that the review
  restores is taken for a new one and removed by the cleanup.
* `nono rollback restore` builds its filter anew
  (`nono-cli/src/rollback_commands.rs:635`). Where it differs from the
  snapshot's, files the snapshot never saw look surplus. Hence the condition
  `RestoreExcluded = SnapExcluded` of `IdleSessionChangesNothing`.
* A permission-only change survives a restore: the decision compares hashes.
* Without `--snapshot` the last snapshot is restored; `atomic-rollbacks.mdx:135`
  speaks of the baseline.
* After a torn write the audit recorder goes on and the next record joins the
  fragment, so the log stops verifying there. `RecorderMatchesLog` and its
  companions speak of logs without torn writes; failing writes that leave
  nothing behind are included.
* A ledger record that lost its newline still parses. The next process appends
  to the same line, reports success, and the line no longer parses; hence the
  `newline_lost` premise of `StatusZeroRecorded`.
* Only notifications pass the token bucket; requests on the socket do not
  (`nono-cli/src/exec_strategy.rs:3641`), while `security-model.mdx:192` speaks
  of approval requests in general. `NotificationPromptsLimited` counts
  notifications.
* Between raw mode and registration, and between unregistration and the end of
  the drain, a worker's prompt finds no owner and shows on a raw terminal.
* A pid that the kernel reuses between a wait and the removal from the registry
  makes that removal unregister the new child. `terminal` assumes the kernel
  does not reuse an id that quickly (`PidReuse = FALSE`).
* The supervisor loop is left with a living child when the PTY relay ends or
  `poll` fails (`nono-cli/src/exec_strategy.rs:3266-3277, 3283`) and blocks in
  `wait_for_child` (line 3372): system calls of the child that are notified from
  then on are never answered. Hence the second half of `NotificationsAnswered`.
* A wait that fails in the brokered output path returns before `untrack_child`
  (`tool-sandbox/platform/linux.rs:4703-4710`) and leaves the entry of a command
  that is gone; the other paths remove it first. Hence the exception in
  `NothingLeftOver`.
* An approved request on the forward path can wait for ever for the client's
  body or for the response. Hence the scope of `ElectedSettles`.
* `nono audit verify --json` returns success on a mismatch; only its report
  says so.

## 6. Proofs

TLAPS checks eight modules. `UndoProofs`, `SupervisorProofs`, `NetNotifyProofs`
and `SessionAuditProofs` extend one component's module; `ProxyProofs` extends
`HostApproval` and the group `Proxy`, `LedgerProofs` `Ledger` and `SharedFiles`,
`OwnedChildrenProofs` `OwnedChildren` and `SessionThreads`, `TokenBrokerProofs`
`TokenBroker` and `Mediation`. Every theorem is about one component's
specification.

Nothing is assumed besides the named conditions on the constants.
`TreeAssumption`, `DataAssumption`, `NoneAssumption` (`Undo`),
`SupervisorConstants`, `TargetClasses` (`HostApproval`) and `NetConstants` are
ASSUMEs. The others are hypotheses of the theorems that need them, since their
modules are instantiated: `ChildrenConstants`, `BrokerConfigured`,
`LedgerConstants`, `AuditConstants`, `ServerConfigured` (accept loops),
`KindsHavePaths` (request handler), `LimiterConfigured`, `AddressClasses`
(pool), `HandshakeConfigured`, `CacheConfigured`, `RegistryAssumption`,
`LoginAssumption`, `GateConstants`, `AttachAssumption`, `KeysAssumption`,
`ChainConfigured`, `BrokerAssumption` (command broker). They say that the policy
sets are subsets of the names and objects, that bounds are natural numbers, that
kinds of events are disjoint, that special values are distinct, and that the
threads which are counted (accept loops, workers) are finitely many. One
hypothesis is about the code's numbers: `BufferCoversExchange`, that
`EXCHANGE_TIMEOUT <= EXPIRY_BUFFER` in the token cache (both are 30 seconds,
`nono-proxy/src/oauth2.rs:31, 37`); it is a hypothesis of
`CachedTokensHonoured` alone, and false without it. TLC evaluates the
configurations on the instances of the runs. The inductive invariants were
checked with TLC on small instances before they were proved.

### `UndoProofs`

`IndInv` is `TypeOK` with three parts: while a file is being stored the walk
knows its path and hash (`WalkInv`); a session past its baseline has a manifest
(`PhaseInv`); a restore works from an existing manifest and writes only files
it tracks (`RestoreInv`). `TypeOK` alone is not inductive, because the hash to
be stored and the mode to be restored are `None` elsewhere.

`QuietInv` follows an operation that nobody else disturbs. Its parts go with the
loops of the code: an undisturbed walk has recorded exactly what it has passed
and the file in hand is still the one that was hashed (`WalkExact`); what
`restore_to` compares the manifest with is a snapshot of the tree it found
(`BeforeHeld`, `CurrentExact`); what is off the list of the write loop is
settled, no target has come to lie behind a link and nothing else is touched
(`WriteLoop`); a surplus file that is left is still on the list of the removal
loops (`RemoveLoops`). `TreesClosed` (every entry lies in a directory) is what
lets a removal be seen to hide nothing else.

* `UndoInvariant`, `UndoTypeOK`, `QuietInvariant`: for every tree, every set of
  contents and all bounds.
* `RestoreWritesVerified`: a file that `restore_to` writes has the content its
  manifest names, whatever the object store holds and whoever else writes. The
  argument: only `RestoreFile` leads from the write loop to the chmod, and its
  success needs an intact object.
* `SnapshotsComplete`, `RestoresReachManifest`, `RestoresAtomic`: an undisturbed
  snapshot is complete and has its objects; an undisturbed restore that says Ok
  has reached its manifest; at every step of one, and however it ended, each
  path is as it was or as the manifest has it.
* `IdleSessionsHarmless`: as long as nobody else writes, at most one system call
  has failed and the restore excludes what the snapshots excluded, the tree is
  what it was before the session, wherever the session or a later restore
  stands. `quiet` does not help here: it ends with the first I/O error. The
  invariant says instead what holds while the session is `Idle`. A walk has recorded every file it
  has passed that can be read and is not excluded, even if its clone failed,
  because the read that follows succeeds (`IdleWalk`, `StoreRetried`); so every
  manifest lists exactly what is there (`IdleManifests`), the restore loops find
  nothing to write and nothing surplus (`IdleRestore`), and the temp files found
  after the session were all remembered before it, because a tree that fitted
  the budget at the baseline fits it then (`IdleTemps`).

### `SupervisorProofs`

`TypeInv` is `TypeOK` with `WorkOK` (what the request in hand looks like at
each step) and `StampsBounded`. `SafeInv` says for the request in hand what the
properties say of descriptors already handed over, from the step that
establishes it:

* `OpenedIsPermitted`: once `OpenPath` has resolved and checked the object, no
  later step resolves it again;
* `GrantIsRecorded`: steps past `RecordAudit` with a grant have its record;
* `CacheIsTrusted` and `DigestIsAllowed`: a verified cache entry names a
  trusted digest, whatever content the file has by then, and from the
  interceptor on the request carries a digest that the policy lets through,
  which `DigestRecheck` compares with the opened descriptor. This is why a
  stale cache entry, which the model can produce, does no harm;
* `TokensAccounted`: prompts, tokens left and the token a notification holds
  between the gates and the question never exceed the burst and the refills.

`ReplayInv` is about request ids: a granted id was remembered, and the request
in hand, once accepted, is remembered and has not been granted before.
`QuietStep` and `NoGrantStep` collect the steps that touch nothing of this.

* `TypeCorrect`, `SafetyInvariant`, `ReplayInvariant`.
* `HandedOverPermitted`, `GrantsRecordedFirst`, `InstructionsVerified`,
  `PromptsLimited`, `GrantedOnce`: five safety properties, for every policy, any
  number of names, objects, relinks, rewrites, requests and failures, under
  `deny` and under `warn`.

### `ProxyProofs`

Host approval. `HostInv`: a slot of the in-flight map is open exactly while the connection it
is named after leads (`SlotsLed`), a follower waits for a leader of its own
target (`SlotsShared`), session answers are where the map says they are and
nobody is asked about a target that has one (`AnswersKept`), a connection comes
to its upstream with authority (`Authority`), and what the log holds at each
step (`LogSoFar`). The properties alone say nothing of a follower that has not
been woken yet or of a leader that has been dropped, which is where they could
break.

* `HostInvariant`, `LogIsTrue`, `ReachedAuthorised`, `PromptsExclusive`.
* `HandlersImplementArbiter`: the handlers implement `HostArbiter`. Initial
  states map to initial states, and under `HostInv` each of the steps is one of
  the arbiter's or leaves what it sees (`Seen`) alone: an election asks, the
  deadline, a refusal or a dropped task gives the question up, and an answer
  counts only where the question still stands.
* `SessionAnswersFinal`: an answer for the session never changes.

Accept loops. `AcceptInv`: the counter is the number of connections that were
counted and not released (`SlotsAccounted`), and what it may still grow to is
the limit and the loops that have passed the check and not yet counted
(`SlotsPromised`). A loop that loads the counter sees a state in which it is
below the limit, but not the connections other loops have promised since, which
is the bound's "one for each loop but one".

* `AcceptInvariant`, `LimitNearlyKept`.

Request handler. `ReverseInv` says what holds of a request by what is still in
`todo`: once the policy stage is gone the route was allowed or granted
(`PastPolicy`), once the authentication is gone the token was checked
(`PastAuth`), while the send is ahead nothing was denied (`NothingDenied`), and
nothing follows the send (`SendIsLast`, `SentLast`).

* `ReverseInvariant`, `ForwardedWereAuthorised`: for every kind of route.

Rate limiter. `LimiterInv`: clock readings lie in the past (`ReadingsPast`), the
admissions are paid for, of any admitted requests one is released no earlier
than the time that pays for them all (`ReleasesPay`, without which nothing could
be said of a subset, the forwarded ones), and what was forwarded has been
released (`ForwardedReleased`).

* `LimiterInvariant`, `LimiterPaid`, `LimiterPaced`: for every rate, burst, delay
  and lag of a clock reading.

Pool. `PoolInv`: what a request has checked, what is pinned, and what every open
connection, idle or in use, leads to is not denied, and a connection in use has
the key of its request.

* `PoolInvariant`, `DeniedNeverReached`, `ConnectionsKeepTheirRoots`.

TLS handshake. `TlsInv`: who probes has the lock (`LockHeldToProbe`), no host
was probed twice, and one that was probed and is not yet in the cache is being
probed (`ProbesCounted`), and "yes" in the cache is true (`YesIsSupported`).

* `TlsInvariant`, `HostsProbedOnce`, `H2OfferedWhereSpoken`.

Token cache. `CacheInv`: only the holder of the write lock exchanges
(`WriterExchanges`), for no longer than the timeout (`ExchangeInTime`), and the
endpoint gives up on a token no more than an exchange before the cache does
(`LifetimesAgree`).

* `CacheInvariant`, `CachedTokensHonoured`; `RefreshesFew`, from a further
  invariant that spaces successful exchanges by the shortest lifetime less the
  buffer.

### `NetNotifyProofs`

`NetInv`: every destination the loop has passed was let through
(`PassedSettled`), an answer that counts is in the audit log and a target that
has one is not asked about (`AnswersAudited`), and a refusal that will not have
an event of its own is counted already (`DenialsCounted`). `AtDestination` ties
the step to the destination in hand.

* `NetInvariant`, `NetTyped`, `ContinuedArePermitted`, `NoDenialLost`.
* `SessionAnswersKept`: answers for the session stand.

### `LedgerProofs`

`LedgerInv`: whoever is between taking the lock and leaving the append has it
alone (`LockExclusive`), what a process has read is still the end of the ledger
when it appends (`TailIsCurrent`), what it knows of the file at each step of the
migration (`MigrationSteps`), and a line is left open only for its newline or by
a torn record that keeps later processes from appending (`OpenOrTorn`).

* `LedgerInvariant`, `LedgerAlwaysVerifies`, `HistoryIsKept`, `ZeroIsRecorded`
  (a run that reported 0 has its record on a line of its own), `LinesAreFinal`
  (a complete line is never changed).

Session record. `RegistryInv`: the recorded process id is the supervisor's own
while it lives (`PidOwned`); a command that began after its death goes no
way that ends in a signal, and once past its probe holds a record that says
exited and detached (`LateCommands`); a command past its load has a record
(`RecordsHeld`); and while the supervisor lives and was never stopped, whoever
probed it found it running (`FoundRunning`).

* `RegistryInvariant`, `LateCommandsHarmless`, `LiveRecordsKept`.

Sign-in. `LoginInv`: what a process inside the lock holds is what is stored
(`HeldIsStored`), answers of the platform are true (`AnswersTrue`), what
is being removed or written is not on disk under its record (`RecordFirst`), a
session granted and not yet recorded is its process's alone (`FreshIsOwn`),
whatever anyone has was granted (`Granted`), and a stored token is behind the
platform's only while its successor is on the way or once it was lost
(`BehindIsLost`).

* `LoginInvariant`, `RecordsHaveSecrets`, `TokensUsedOnce`, `LogoutRevokes`,
  `OpenSessionsKept`: for any number of processes, sign-ins, rotations, failures
  and crashes.

### `SessionAuditProofs`

Three invariants, of increasing detail. `AuditInv`: the recorder's counters
describe the file, and metadata is saved after the seal from what the recorder
held then. `NetInv` follows each network event from its push to the saved
metadata: a logged one is on its way to `session.json` unless the buffer was
full (`LoggedPlaced`), what a buffer holds says truly whether it is in the log
(`BuffersTrue`), what has been sorted is in the log or about to be (`Sorted`),
no event is in two places (`Apart`), and after the sink is detached there is no
live delivery (`NetPhase`). `RollupInv` equates each count of the rollup with the
cardinality of a set of logged events, also past the bound on named commands.

* `AuditInvariant`, `RecorderAlwaysMatches`, `SavedSessionsVerify`,
  `FileIsSealed`: of any events.
* `NetworkEventsFollowed`, `NetworkEventsOnce`, `RollupInvariant`,
  `RollupCountsTheLog`: of events whose kinds are disjoint.

### `OwnedChildrenProofs`

`BaseInv` (types, no owner has the sandboxed child for its own, its status is
kept) holds with and without reuse of process ids. `ChildrenInv` adds, where an
id is not reused while it is registered: between fork and registration the
thread has the lock, a child to be waited for exists, registered ids are
distinct, and what the reaper is about to reap is nobody's.

* `BaseInvariant`, `PrimaryStatusNeverLost`, `ChildrenInvariant`,
  `OwnersKeepTheirStatus`.

Prompt gate. `GateInv`: `pending` is the number of workers at the gate
(`PendingIsCounted`), the pause is on exactly between the supervisor's pausing
and resuming, on a cooked terminal (`PauseIsHeld`), nobody is at the gate
before the relay is registered (`NobodyEarly`), and while it is, who has passed
the gate is under the pause (`PassedWhilePaused`).

* `GateInvariant`, `PromptsOnCookedTerminal`, `PendingPromptsCounted`.

Attach socket. `PtyInv`: something of the output is kept as soon as there is any
(`ScrollKept`), who is queued, or served and not yet replayed to, has been given
nothing (`Served`, `Queued`, `Started`), each client's
output is one run of chunks (`OneRun`), and the run of the client in the slot,
or in replay, ends where the next chunk begins (`SlotUpToDate`,
`ReplayUpToDate`). It is proved of the specification in which clients may stop
reading.

* `PtyInvariant`, `OutputUnbroken`.

Detach keys. `KeysInv`: what was forwarded followed by the matched prefix is
what was typed outside completed sequences (`KeysKept`), the typed keys end in
that prefix (`EndsInMatch`), and an unbroken streak of the sequence's keys is
all that is held back (`StreakIsMatch`).

* `KeyboardInvariant`, `KeysAreKept`, `StreaksDetach`, `DetachesWereTyped`: for
  every sequence and mixture of encodings.

Approval chain. `ChainInv` is, for each caller, what it holds, which answers it
has seen and in which scope, step by step (`CallerInv`).

* `ChainInvariant`, `GrantsAreBacked`, `LateGrantsNeverCount`: for every chain,
  mode, deadline and number of callers.

### `TokenBrokerProofs`

`BrokerInv` relates the broker's two maps to history: a named phantom has the
value its name holds now, one without a name stands for a value issued at setup,
and grants never exceed what the value was granted.

* `BrokerInvariant`, `RotatedValuesUnreachable`, `NamesAlwaysAgree`,
  `ReissuesNeverWiden`, `ReissuesRedeemAlike`.

Command broker. `ShimInv`: `queued` and `active` are the numbers of the requests
that hold a place (`PlacesCounted`); a tracked id belongs to the request that
launched it, or to one whose brokered wait failed, and a launched child that was
not reaped keeps its id (`EntriesOwned`, `Leaked`, `ChildrenHeld`); a process is
of its parent's launch, and below the root of none (`Families`); the caller of
whoever has launched something is settled (`LaunchesSettled`); whoever has the
peer's id or the id a walk is at, if anybody does, descends from one of the
`owners` of the request (`WalksUp`); and a caller that was settled is one of
theirs (`CallersSettled`). `Families` and `WalksUp` carry the argument: a walk
reads one parent at a time while processes exit, fall to the supervisor and have
their ids taken, and what makes its answer right is that it leaves the launch it
is in only where another process took the id it stood on, which `owners` records.
No id is kept from being reused.

* `ShimInvariant`, `CallersAreSpawners`, `NoLeftovers`, `LaunchesLimited`: for
  every process tree, set of commands and policies, and any number of requests.

### What the proofs changed in the models

Attempts that failed showed conditions that the small instances had met by
accident, and two places where a model said less than the code:

* the scan for temp files in `Undo` stops at an entry limit and looks through
  links, and the cleanup is the last step of the process;
* the finalizer in `SessionAudit` drains, sorts and locks in three steps, where
  one step had hidden that the proxy can push in between;
* a source of `TokenBroker` has at least one value; owner threads of
  `OwnedChildren` are distinct from the marks of a free mutex and of the reaper;
  the kinds of events of `SessionAudit` are disjoint;
* what a session is started with, the chain of `ApprovalChain` and the setup of
  `ShimBroker`, is part of the state, so that one theorem covers every choice,
  and the three setups of `shims` are one instance;
* the session root of `ShimBroker` is not the supervisor, and the cases of a walk's
  step exclude each other; the special value of `PlatformLogin` is not a
  token; the accept loops are finitely many;
* `out` of `DetachKeys` is a sequence of keys, without the reports that no
  property reads;
* `IdleSessionChangesNothing` says that at most one system call fails and that
  both filters agree. The instances had only one fault and one filter; with two
  faults the property is false (section 5).

### Only model-checked

Liveness (`PauseEnds`, `ElectedSettles`, `NotificationsAnswered` and those of
section 4): the prover has no rule for `ENABLED`. `AcceptedProofsAreTrue`:
`AuditMerkle` is recursive, and what a recursion computes for every input needs
an induction that the provers cannot do. Every other property of the passing
runs is stated by a theorem. Type invariants
and the properties that only a theorem names (`NotificationPromptsLimited`,
`ReachedWithAuthority`, `OnePromptPerTarget`, `NamesAgree` and others) are proved
and therefore not in the standing runs.

## 7. What the models assume

* Hashes do not collide; signatures are a set of trusted digests.
* A tree of depth two with one tracked root; manifests are not tampered with.
* A metadata stamp changes with every rewrite. A writer that restores size and
  times can defeat the cache of the interceptor, but not `DigestRecheck`.
* Messages on the supervisor socket arrive whole and in order.
* A failing response to a notification is ignored, as in the code, and so is an
  error of a handler, which the loop only logs.
* Network notifications that are still undelivered when the orphan sweep ends
  the loop (`nono-cli/src/exec_strategy.rs:3306`) are never received, and
  `DenialsAccounted` does not count them.
* `DetachKeys` is the filter without `PtyProxy::detach`, which resets a pending
  match when a client is detached in the middle of a sequence
  (`nono-cli/src/pty_proxy.rs:460-461`).
* The kernel delivers notifications and exit statuses; a notification id is
  not reused within a run.
* Blocking pools and runtimes have as many threads as tasks need.
* A value is met whole in captured output and none is a prefix of another.

## 8. Not modelled

Most of the repository is configuration, presentation, platform code and tests;
the modules stand for the part that keeps state across steps. Profiles, policy
groups, command policy, capability matching, route tables and host filters are
pure and sequential; their outcomes are constants here. Sandbox rule sets,
resource cgroups and descriptor passing are kernel interfaces. The macOS broker
and sandbox repeat the Linux ones over interfaces whose behaviour the source
does not tell. Signatures, TLS records, SigV4 and the keystore are the
libraries'. Header rewriting, chunked framing and redaction are data. Parsing,
output, diagnostics, bindings and test support keep no state that matters to
these properties. What could still be modelled is item 8 of the plan.
`PROJECT.json` has the full list with a reason for each.

## 9. Running

    tlc -workers 2 -config Supervisor.cfg MCSupervisor
    tlapm SupervisorProofs.tla

The modules with proofs are `UndoProofs`, `SupervisorProofs`,
`ProxyProofs`, `NetNotifyProofs`, `LedgerProofs`, `SessionAuditProofs`,
`OwnedChildrenProofs` and `TokenBrokerProofs`.

`PROJECT.json` names the module and configuration of each run, the definition
and lines that each operator models, and the mutant of each property. The
longest runs take two to three minutes.
