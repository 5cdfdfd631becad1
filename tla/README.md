# Temple2: a TLA+ verification project

Temple2 is a local assistant stack.  Two MCP tool servers (`server.js` on port
4111, `server-dos.js` on 4112), a coordination proxy in front of LM Studio
(`coord-proxy.js`, 1618) and a launcher (`launch.mjs`) share one directory, in
which they keep a hash-chained ledger (`erl-ledger.json`), a SQLite file
(`mcp-data.db`), notes, an audit log and routing state.  Beside it the
repository has a bare-metal boot chain, a native chat engine and installers.

This project models the shared state and the processes that work on it.  Below,
EZ/ stands for `src/EZ-by-zCHG-W-LM-Studio-and-3-LLM-s-in-Council-main/`.

## 1. Inventory

| Component | State | Operations | What is hard |
|---|---|---|---|
| Ledger store, EZ/server.js 105-330 and the same in server-dos.js | `erl-ledger.json`, its `.lock`, `_ledger` in each process | `erlLoad`, `erlSave`, `erlAppend`, `erlBranch`, `getLedger` | two processes, a lock with a 3 s deadline, merge on save, truncation before write, kills |
| Chain operations, EZ/server.js 187-292, 1404-1659, 2763-2961 | branches, entries, checkpoints, `_erlInitialized` | append tools, `erlVerify`, `erl_fold`/`erl_unfold`, `erl_prune` (two different ones), auto-prune, `erlStandardInit` | calls of several saves interrupted in between, stale memory, off-by-ones on newest-first lists |
| SQLite store, EZ/server.js 363-374, 1180-1206 | `mcp-data.db`, one in-memory image per process | `getDb`, `saveDb`, `db_*`, STORE and RECALL passes, save at exit | check-await-assign, whole-image writes from two processes |
| coord-proxy, EZ/coord-proxy.js | requests in flight; the "coord" branch | SOLO, RELAY, CHALLENGE, passthrough, `erlAppend` | unlocked read-modify-write, bodies cut in the middle, timeouts, throws outside a `try` |
| Registries, EZ/server.js 1244-1391 | maps of HTTP servers, cron jobs, bots, browsers | open, list, close | awaits between lookup and delete, handles that lose their name |
| Twin-flame tools, EZ/server.js 1559-1588, 1662-1785 | two branches of the ledger | eval, probe, divergence | a baseline found by searching entries the checks add to |
| Unfold pipeline, EZ/server.js 410-1104 | one `FlowState` per call | planned passes in order | state carried between passes, files that flows share |
| Transport and boot, EZ/server.js 2616-2790 | SSE sessions | tool dispatch; listen, then database, then ledger, then cron | calls served before the boot is over |
| Launcher, EZ/launch.mjs | children, `wuwei-routing/state/*` | probe, start, health writer every 30 s, shutdown | probing by binding, 2.5 s from SIGTERM to SIGKILL |
| LAN kernel, src/lan-kernel | children | start, status, prime, shutdown after 200 ms | the same, with less time |
| Boot chain and kernel, src/custom-standalone-bootloader | memory at 0x9800, 0xA000, 0x20000; line buffer | load stages, hand over, read lines | buffer overlap, sector arithmetic at 16 bits |
| Native engine (`ez_chat.c`), analog rail, installers, packagers, demos, chat page, stale helpers | local to one run | - | see section 8 |

The interactions: both servers and the proxy read and rewrite the ledger file;
only the servers take the lock.  Both servers load and rewrite the SQLite file
and nobody locks it.  The launcher writes the routing state that the proxy reads
for each request and the servers read at bootstrap; it stops all of them by
signals.  Inside a server everything is one JavaScript thread: a synchronous
function is atomic for the process but not for the other processes, and an
`async` one is interrupted at each `await`.

What makes each component correct:
- ledger store: saves exclude each other, an acknowledged entry stays, no file
  that parses has dangling references, a save ends;
- chains: memory and file agree between calls, verification stops only at a
  checkpoint on the chain, prunes and folds move or restore exactly what they
  say, the bootstrap happens once and never fails;
- SQLite store: the image in use is the one on disk, an acknowledged row stays;
- proxy: a chat whose upstream ends or falls silent is answered, and its ledger
  entry says what happened;
- registries: what a port or a token runs is found by its key until it has ended,
  and what a bot received is handed out once and in order;
- twin-flame tools: an answer is told by what the server's own chain has recorded;
- unfold: an error ends the sequence in one answer, a flow carries data of its
  own task or what was written for all, a path it names exists;
- launcher: nothing runs after it ends, the state files follow the ports.

`PROJECT.json` lists the hazards of this code at their lines with the
properties that would notice them going wrong.  Where the code does go wrong, no
property is listed: the note names the configuration of section 3 that shows it.

## 2. Modules

| Module | Models | Proved about in |
|---|---|---|
| `DurableLedger` | abstract: a set of entries and branch tips that only grow | |
| `ErlLedger` | the ledger file, its lock, both servers and the proxy, one file operation per action | `ErlLedgerProofs` |
| `ErlChain` | what tools do to chains, one `erlSave` per action | `ErlChainProofs` |
| `SqlStore` | the SQLite file and the asynchronous opening | `SqlStoreProofs` |
| `CoordProxy` | the requests of the proxy, from arrival to reply | `CoordProxyProofs` |
| `Stack` | the launcher, the LAN kernel, the servers as holders of ports, the routing state | `StackProofs` |
| `Registries` | HTTP servers, cron jobs, bots and browsers a server holds, and the calls that open, use and close them | `RegistriesProofs` |
| `UnfoldFlow` | the strategies and passes of `unfold`, several flows over one file system | `UnfoldFlowProofs` |
| `TwinFlame` | the probes and evals of both servers over the branches of the ledger | `TwinFlameProofs` |
| `MC` + the name of a module | symmetry sets and constants that are tuples or functions, for TLC | |

server.js and server-dos.js are the same text line for line except in
`erl_prune`, the twin-flame tools, `phi_route` and what a port or a name
differs in.  Where both run the same code the rows of "map" name the lines of
one of the two copies.

`ErlLedger` and `ErlChain` look at the same functions at two grains.  In
`ErlLedger` an entry is an id with a parent, and `erlSave` is opened up into
`Acquire`/`Refused`/`GiveUp`, `ReadAndMerge`, `Truncate`, `Write`, `Unlink`.  In
`ErlChain` a save is one step, `Save`, and an entry also has a content form
(plain or folded), protection by tags and the payload it carries, so that folds,
checkpoints and prunes mean something.  Taking a save as one step is what
`MutualExclusion` justifies while the lock is respected; the runs with expiring
deadlines and kills inside a save are therefore runs of `ErlLedger`.

### ErlLedger and the code

`pc` of a server follows `erlSave`: `spin` before the lock was refused once,
`wait` while it is retried, then `read`, `trunc`, `write`, `unlink`.  `mem` is
`_ledger`.  `fstate` tells an absent file, one that does not parse, and a
complete one; `file` keeps the last complete content.  `Append` and
`CreateBranch` are `erlAppend` and `erlBranch` up to their call of `erlSave`;
both servers run the same text, so one set of actions serves both.  The proxy
has the three steps of its own `erlAppend`.  `Exit` is the signal handler (it
runs between two calls only), `Kill` a SIGKILL or power cut anywhere in a save.
`acked` collects the ids whose call has returned.

`Prune` and `Cut` are the keep-last prune, which every server runs daily: it opens
an archive branch with a save of its own when there is none, deletes entries from
memory, sets the tip, and saves.  `owed` is the branch it has still to cut.  The
merge of that save writes back what the file has, so the file keeps the entries
and the memory does not.  `pruned` and `gone` are ghosts: what each server has
deleted since it was started, and those of these that a save wrote over a file
without them, which takes a file that does not parse.  `DiskClosed` and `MemClosed`
except exactly these; `DiskWhole`, by hand, shows that there are some.  A prune by
age deletes nothing: it appends copies, and is modelled in `ErlChain`.

### ErlChain and the code

Ids are numbers in order of creation, 0 is `null`, -1 `undefined`: the code
distinguishes the two (`erlBranch` tests for `undefined`, the bootstrap for a
falsy tip) and so does the model.  A tool call that saves several times is a
`job`, the list of its saves; a peer may save and the process may die between
two of them.  `PruneAge` is `server.js`'s `erl_prune`, `PruneLast` the one of
`server-dos.js` and the auto-prune of both.  `promise` is a ghost: what a prune
by age owes when it returns.  `trims` says that some server has called a keep-last
prune, `trimmed` which have since they were started: until then the checkpoints,
the protected entries and the memory of a server are what the properties say, and
afterwards a tip lies behind its checkpoints and memory lacks what the file has.
`HistoryLimit` is the number of entries a prune asks `erlHistory` for; a longer
history, whose far end a prune by age would drop unarchived, is excluded by
`ConstantsOK`.  `CheckpointsAfter` is the walk of `erlAppend` that
counts both ends.

### SqlStore and the code

A database object is named after the call whose continuation created it, so an
orphan (a database that is no longer `sqlDb`) can be told from the current one.
`waiting` is the queue of `getDb` calls that have passed `if (!sqlDb)` and await
the sql.js module; sql.js initialises once, so when it is ready their
continuations run back to back (`OpenNext`) before any caller goes on
(`Resumes`).  That ordering is the library's and Node's, the rest is
`getDb`/`saveDb`.  Exports are written in two steps, `Exec` (truncate) and
`ExecWritten`; an empty file opens as an empty database.

### CoordProxy and the code

`Coordinate` is the head of the completion handler: a valid `x-hdgl-mode` wins,
else `selectMode` of the phi hash (abstracted to the four bands between the
thresholds), and for SOLO `selectSoloLlm`, which reads `active_server`.  `todo`
holds the calls of `runSolo`, `runRelay` or `runChallenge` that are still to be
made, the open one first.  The outcomes of the open call are those of `callLlm`:
`LlmAnswers`, `LlmFails`, `LlmTimesOut`, and `LlmCuts` for a body that breaks off,
which settles nothing.  The 180 s are of silence: while bytes trickle in
(`LlmTrickles` to `LlmFallsSilent`) the timer does not expire.  An answer that is
not a string is `odd` where the entry previews it (`Previewed`), and makes
`LogEntry` write an error.  `LogEntry` and `ReplyToChat` are one turn of the event
loop, kept apart because the process may die between the ledger and the reply.
Everything else is piped (`Forward` .. `UpstreamError`) or answered from files
(`Local`).  `Misshapen` and the second branch of `UpstreamError` are the two
throws that end the process.

### Stack and the code

Processes meet at ports only, so a port is who holds it.  `portInUse` is two
steps, bind and close (`ProbeBinds`, `ProbeCloses`), and between them the port is
taken: another probe then counts it as a running server (`LoopSkips`), a server
that is starting dies of it (`Listen`).  `lost` records both.  The main loop is
`LoopSkips`/`LoopProbes`/`LoopSpawns`/`Stagger`; it does not look at `closing`, as
the code does not.  `health` is an open health cycle, `CycleWrites` its files.
`Signal` is SIGTERM to the children there are, `KillAndExit` the timer 2.5 s later,
`KernelExits` the LAN kernel's after 200 ms, which kills nobody.

### Registries and the code

Ports, job ids, tokens and session ids are keys of four Maps that nothing
mixes, so `reg` is one function.  A call starts when its library is loaded
(`Post` to the first action), and a stop is two steps, as `await` makes it: mark
and wait, then `Drop`, which deletes the entry of the *key*, whatever it is by
then.  `HttpClosed` lets all waiting stops of a server go on at once (`close`
calls each of its callbacks); nothing says that it comes.  `TgStopAgain` is what
node-telegram-bot-api 0.67.0 does when polling already stops: it resolves at
once.  Listening on a port of another process (`Occupied`) ends the process:
'error' has no handler.

A bot polls from its own offset, the last update it has received, and a getUpdates
confirms to Telegram what lies before its offset (`TgGetUpdates`); `TgUpdates` is
what a poll brings, all that is not confirmed.  A bot stopped before it polls
again leaves its last batch unconfirmed, and the next bot of the token receives
it again.  `browser_open` is three steps: launched, with a page and registered
(`BrowserPage`), at its url; a browser whose page fails (`BrowserPageFails`) runs
on and no Map knows of it.

### UnfoldFlow and the code

A task is what the regular expressions find in it: the signals of
`analyzeTask`, the words the passes look for themselves, and the file name in
its URL.  `Strategies` is the table of `selectPassSequence`, first match first.
There is one action per outcome of a pass.  A failed shell command is *not* an
error of its pass (`shellExec` always resolves), so the next pass runs on the
path it left; `failed` remembers that.  A pass that throws, also because `exec`
refuses its command, or that returns an error goes to `RESPOND` (`Fails`).
Downloads are named by the URL, scripts, notes and outputs by the millisecond,
and RECALL lists the notes and the rows of all flows (`Stored`): that is how flows
meet.

Dead code left out: the file-reading branch of FETCH and the generic command
of TRANSFORM need hints no strategy gives, and CODE and SHELL appear in some
strategies under conditions an earlier row has already taken.

### TwinFlame and the code

A chain is the sequence of its entries, newest first, in the memory of each
server; `Saves` writes the tips of all of a server's branches, also of those it
did not touch, so that the file has the chain of whoever saved last, and `Start`
reads it.  The two servers' probes differ: A looks for `question_id` among the
last 100 and writes a check each time; B looks for `question` among the last 50
and writes only drifts, under field names its lookup does not read, so that the
entry found next has no hash.  An absent question (`ABSENT`) is allowed by B's
tool and matches every entry that has none, also those of A.  `Asked` are the
questions B is asked.  A fold or a prune called on the probes branch is not
modelled.

## 3. Runs

| Run | Instance | States | Shows |
|---|---|---|---|
| `ledger_servers` | 2 servers, 3 ids, prunes, no faults | 312,494 | the lock excludes, nothing acknowledged is lost, idle means synced, the file refines `DurableLedger` |
| `ledger_faults` | 2 servers and the proxy, 2 ids, prunes, deadlines, kills | 5,854,959 | only references to pruned entries dangle, in a memory or, after a prune met a torn file, in the file |
| `ledger_stale_lock` | 2 servers, 1 id, prunes, deadlines, kills, fair saves | 66,036 | every save ends, also behind a lock nobody will remove |
| `chain_single` | 1 server, 8 entries, checkpoint every 3, bootstrap, folds, both prunes | 1,244,807 | until a keep-last prune: memory is what a restart would read, the unverified tail is bounded, checkpoints stay on their chain, the bootstrap entries are there once; always: unfold undoes fold, a prune by age rebuilds branch and archive exactly, in order |
| `chain_peers` | 2 servers, 4 entries, both prunes, branches, early calls, deaths between saves | 1,431,290 | the file never loses an entry and its chains stay whole |
| `sql_one` | 1 server, 3 rows, 2 queries, early clients, kills | 26,265 | the open image is the stored one; only racing first calls lose rows |
| `proxy_chats` | 2 chats, 1 piped request, all faults | 904,416 | ledger entries, replies and LLM calls agree; nobody reviews its own text; every chat that waits is answered unless its body was cut or trickles for ever |
| `stack_lan` | 1 launcher, 1 LAN kernel, 2 services, crashes | 30,000 | nothing outlives the launcher, nobody stops another's children, the stack comes up, a signal ends the children, the routing state follows the ports |
| `registry_tools` | 2 clients, 2 ports (one taken), 1 job id, 1 token, 2 handles, 3 messages | 1,897,682 | keys stay exclusive, what a port or token runs is reachable, no entry blocks its key for good, what a bot received is handed out once and in order and the newest is not lost |
| `unfold_flows` | 2 flows, each any of 18 tasks | 50,959 | an error ends in one RESPOND; a flow carries another's data only by a file both name or by what is written for all; a named output exists |
| `twin_probes` | 1 question, 2 answers, 3 probes, restarts | 1,379,364 | A's drift is a change against its last record; B's answers are told by its last baseline and the drifts since |

One violation is expected:

| Run | Property | What happens |
|---|---|---|
| `chain_autoprune` | `AutoPruneKeepsNewest` | the tip moves to the oldest kept entry (server.js:2780, server-dos.js:1555): the newest leave the branch, contrary to the comment at server.js:2763 |

Further configurations are kept to run by hand (`tlc -config X.cfg M`).  These
state what a comment or a tool description says, or a wish, and are violated:

| Configuration | Property | What happens |
|---|---|---|
| `ErlLedger_deadline` | `NoClobber` | after 3 s a save proceeds without the lock and overwrites the peer's write |
| `ErlLedger_startup` | `OnlyModifiedTipsMove` | a save moves back the tip of a branch it did not modify (comment at server.js:150) |
| `ErlLedger_kill` | `RestartFindsAcked` | a kill between truncate and write: the next start has an empty ledger |
| `ErlLedger_kill` | `DiskWhole` | a server that has pruned saves over a torn file: a parent in the file is nowhere any more |
| `ErlLedger_startup` | `LoadSeesAcked` | a server that loads while its peer writes starts empty |
| `ErlLedger_proxy` | `EventsCommitted` | a coordination event is overwritten by a server's save |
| `ErlChain_fold` | `FoldKeepsIntegrity` | a folded branch no longer verifies (tool description at server.js:2031) |
| `ErlChain_bootstrap` | `InitNeverFails` | a death after the first of the bootstrap's three saves makes every later bootstrap throw |
| `ErlChain_cover` | `CheckpointEveryInterval` | the walk counts the last checkpoint again: after the first, checkpoints are interval - 1 apart |
| `ErlChain_cover` | `VerifyCoversChain` | entries behind a checkpoint are not re-hashed, so a fold there goes unnoticed |
| `ErlChain_union` | `UnionSafe` | a peer's save takes a fold back |
| `ErlChain_early` | `BootstrappedOnce` | a tool that appends before the boot has reached the ledger suppresses the bootstrap |
| `ErlChain_protected` | `ProtectedNeverPruned` | the keep-last prune cuts protected entries off the branch |
| `ErlChain_persist` | `PersistedOnEveryWrite` | a prune that keeps nothing sets a null tip, which no save writes |
| `SqlStore_two` | `AckedStored` | a server that stops writes its stale image over the rows of its peer |
| `SqlStore_first_calls` | `AckedStored` | two calls that arrive while sql.js loads: the first one's row goes to an orphan |
| `CoordProxy_query` | `QueryModeOverrides` | `?mode=` makes the URL another one: such a chat is piped, not coordinated |
| `CoordProxy_query` | `NoRequestKills` | a body of another shape, or an upstream that fails after its head, ends the proxy |
| `CoordProxy_query` | `ChatAlwaysSettles` | a body that breaks off, or trickles for ever, is never answered |
| `Stack_status` | `StatusTakesNoAction` | `--status` asks LM Studio to load missing models |
| `Registries_race` | `BotsReachable` | two stops of a bot and a listen: the new poller has no entry |
| `Registries_race` | `AllReachable` | a job whose id is added again, a browser whose page fails: they run and no key names them |
| `Registries_race` | `HandedOutOnce` | a bot stopped before its next poll: the next bot of the token receives the same again ("clears after read") |
| `UnfoldFlow_ms` | `OwnData` | two scripts named in one millisecond: both flows run the later one |
| `UnfoldFlow_wav` | `TranscriptFromWav` | a task that says "transcribe" runs whisper twice, on the download itself |
| `TwinFlame_stable` | `StableMeansBaseline` | a check that drifted is what the next one is compared with |
| `TwinFlame_stable` | `DriftMeansMismatch` | after a drift server-dos.js calls an answer that equals the baseline drift ("Hash mismatch = model drift", server-dos.js:1985) |
| `TwinFlame_stable` | `DivergenceSeesPeers` | a server has only its own evals in memory |

`ErlLedger_startup`, `ErlLedger_kill`, `ErlChain_cover`, `CoordProxy_query`,
`Registries_race` and `TwinFlame_stable` list more than one such property; TLC stops at the first violation it meets, so take that
property out of the file to see the other.

And these pass: `UnfoldFlow_answers` (with `Answers`: every call of unfold
ends) and `TwinFlame_window` (two questions that push each other's entries out
of what a probe looks at, and an absent one: `DriftIsChange`, `BaselineDecides`,
`OkMeansBaseline`, what an `ok` of server-dos.js means, and the types; 266,100
states).

## 4. Bounds

- Two servers: the code has exactly two.  Races here are between two writers,
  or two writers and the proxy, and all of them occur with one of each.
- Ledger ids: 3 without faults, 2 with.  An id never leaves the file it is in,
  so a lost entry needs one entry of each of two writers; the third lets one
  server build on a chain that contains the other's entry.
- Branches `main` and `coord`: one every server has, one that appears later and
  is created by somebody else.
- `Archive` of `ErlLedger` is `coord` in the configurations: the archive a prune
  opens is a branch like others, which a peer or the proxy may have created.
- `MaxId` 2 to 8 entries.  `Interval` 3 instead of 50 puts several checkpoints in
  eight appends (the arithmetic at 194-210 has no other constant); `Interval` 9
  means none are taken where they are not in question.  `KeepLast` 1 or 2
  instead of 20 is the smallest for which newest and oldest kept differ, or
  for which a prune leaves something.
- `PruneAge` takes every cutoff: which entries are old is nondeterministic.
- `TailBounded`, `CheckpointsOnChain` and `UnfoldRestores` except `PruneBranch` and
  the archive: a prune by age leaves the old checkpoint list behind and copies
  folded contents, so that none of them holds there.  The first two, and
  `BootstrappedOnce`, end at the first keep-last prune (`trims`), and
  `RestartTransparent` for the servers that have called one since they were
  started (`trimmed`); bounds of 8 entries let a server bootstrap, append and fold
  before it prunes either way, and restart afterwards.
- `Room` in `ErlChain` starts no call that could run out of ids, so no behaviour
  is cut in the middle of a job.  In `ErlLedger` and `SqlStore` ids and calls are
  used once.
- Two chats: handlers share only the process, the ledger and LM Studio, and
  the longest mode makes three calls.  One piped request meets them.
- `Stack` uses MCP-A and the proxy: MCP-B differs from MCP-A in its port only
  and names no routing.  By hand also two launchers, one with `--status`
  (26,111 states), and with a kernel (562,175 states, without crashes).
- `Registries`: two overlapping calls are what its races need; two handles let a
  key be opened again while its first handle closes.  `InboxCap` 2 and
  `InboxTake` 1 instead of 500 and 20 make the third message overflow.  An
  exhausted `MaxHandles` starts no further open.
- `UnfoldFlow`: the eighteen tasks take every row of the strategy table and
  every branch of every pass between them; two of them share the name of a
  download.
- `TwinFlame`: windows of 3 and 2 entries instead of 100 and 50, so that a
  baseline leaves B's window within three probes.  One question: probes of
  another are entries the lookup skips.  Two answers: equal or not.
- Symmetry is used for safety only, on servers, ids, rows, queries and answers.
  The runs with liveness (`ledger_stale_lock`, `proxy_chats`, `stack_lan`) have
  none.

`ErlLedger`, `ErlChain` and `SqlStore` keep deadlock checking: a server can
always be restarted.  The configurations of the five other modules switch it
off: requests and calls of unfold are made once, handles, messages and entries
run out, and processes that have exited or been killed stay so.

## 5. Fairness

- `ErlLedger`: weak fairness of the steps of a save, or of a prune, that has begun.  The save is
  synchronous code of a process that runs, so it continues, and a spinning save
  sees the clock pass its deadline (`GiveUp`).  Nothing asks that a tool is
  called, that the peer runs, that a killed process is restarted or that the
  lock is ever released.  Under it a save ends or its process dies, and that
  takes the deadline: the mutant without one spins for ever behind a lock left
  by a killed process.
- `CoordProxy`: the timer of an open call fires after 180 s of silence, and code
  that is ready to run runs (`LogEntry`, `ReplyToChat`).  Nothing is assumed of LM
  Studio: it may trickle for ever, and `ChatSettles` excepts the chat it does that
  to.
- `Stack`: a launcher that runs goes on, its probes end and its 2.5 s timer
  fires; a child that has been spawned comes to `listen`, and one that has had
  its signal exits.  Nobody need start or signal anything.
- `Registries`: none.  A server closes when its clients let go of it, and no
  timeout makes them: nothing is claimed to end.
- `UnfoldFlow` (by hand): a pass that runs ends.

## 6. Proofs

Every module but the abstract one has its proofs: each type invariant, and every
safety invariant and action property that a passing run of section 3 checks, is
a theorem for all values of the constants that satisfy the assumptions of the
module.  Where a theorem needs more than that, it says so as a hypothesis with
a name:

| Hypothesis | Says | Needed because |
|---|---|---|
| `NoFaults` (ErlLedger) | no deadline expires, no kill, no proxy | `ErlLedger_deadline`, `_kill` and `_proxy` lose acknowledged entries |
| `Alone` (SqlStore) | one server has the SQLite file | `SqlStore_two`: whole images are written, the last one wins |
| `~SameMs` (UnfoldFlow) | no two scripts, notes or outputs are named in one millisecond | `UnfoldFlow_ms` |
| `Apart` (ErlChain) | a prune by age works on session_context | it copies folded contents, under hashes of the folded form |
| `Single` (ErlChain) | one server has the ledger file | `ErlChain_union` |
| `Booted` (ErlChain) | `Single`, the boot comes before any call, no kill within a call, prunes by age work on session_context | `ErlChain_early`, `ErlChain_bootstrap` |
| `Remade` (ErlChain) | a server that prunes by age is `Booted` | `ErlChain_persist`: the tip of an emptied branch is not saved, and only a boot's protected entries make sure that a prune leaves something |

None of them excludes the keep-last prune: what it ends is said in the properties
themselves (`trims`, `trimmed`), and `ErlChain_protected` is one of its effects.

They are conditions the code runs under or not (one server started alone, a
clock that moves on), and the runs named in the table violate the property, or
what it rests on, where they do not hold.  `chain_single`, `sql_one` and
`unfold_flows` are instances on which the hypotheses of their module hold
(`chain_single` is `Booted`, hence `Remade` and `Apart`).

### ErlLedgerProofs

`ErlLedgerProofs` proves, for any sets of servers, ids and branches satisfying
`ConstantsOK`:

Whatever expires, dies or writes without the lock (`DeadlinesExpire`, `Kills`,
`ProxyRuns` arbitrary):
- `TypeCorrect`: `[]TypeOK`; `DiskAlwaysClosed`: `[]DiskClosed`;
  `MemAlwaysClosed`: `[]MemClosed`.

`DiskClosed` is not inductive: a file becomes what a process was about to write,
and creating an id could put an unrelated parent under a reference that exists.
The invariant `Inv` therefore says of every ledger value in the system -- the
file, each memory, each value about to be written -- that it is closed but for
what was deleted and mentions only ids already created, plus that a proxy in the
middle of a write has an entry (`ProxyInv`).  The lemmas are about the operators:
a merge gives back what the file has of the pruned entries, a cut deletes what it
adds to `pruned`; `NextInv` has one step per action.

Under `NoFaults` (no deadline, no kill, no proxy):
- `LockExcludes`: `[]MutualExclusion`; `AckedNeverLost`: `[]AckedDurable`;
  `IdleAlwaysSynced`: `[]IdleSynced`;
- `FileIsDurable`: `Spec => Durable!Spec`, the refinement of `DurableLedger`.

The argument is `SafeInv`: `PruneInv` (what a server has pruned from memory is in
the file, and nothing is gone from there), `LockInv` (whoever is past the spin owns the lock),
`FileInv` (who is truncating or writing holds a value that extends the last
complete file, because nobody else can write in between) and `SaveInv` (an entry
is in memory from its append on, in `out` from the merge on, in the file from
the write on).  `SafeNext` shows it inductive and that every change of the file
extends it, which is the abstract step.

### ErlChainProofs

Chains, walks and selections are recursive functions over the parents of
entries.  Instead of an induction over an operator there is `LeastOf`: a
nonempty set of numbers has a least element (from `WFMin`), so what fails
somewhere fails first at a least id or position, and the definition of the
function there gives the contradiction.  `Walk`, `IsOnly` and the lemmas after
them say in this way what `ChainFrom`, `Only` and the walk of checkpoints return,
for every ledger.  (`Only` is written as a recursive function, and the sets a
prune by age selects as `Prunable` and `Old`, so that this can be done.)

For any servers, tools, kills and bounds:
- `TypeCorrect`: ids exist and parents are older than their children, in memory,
  in the file and in the saves a call has still to make;
- `ChainsAlwaysWhole`: `[]ChainsWhole`, and `FileAlwaysGrows`: `FileOnlyGrows`.
  `ChainsWhole` alone is not inductive, since a save writes what is in memory and
  a cut sets a tip chosen earlier; `FileInv` adds that what a memory refers to,
  and what a call will cut to, is in the file.
- `PruneAlwaysRebuilds`: `[]PruneRebuilds`.  `PruneInv` carries the promise
  through the saves of the call (`Owes`): before the branch is emptied, what has to
  be archived is either in the archive or among the saves left, and all that is
  to be kept is among the saves left (`Archiving`); afterwards the branch is
  what is to be kept minus the saves left, from the oldest on (`Rebuilding`).

`Apart`:
- `UnfoldAlwaysRestores`: `UnfoldRestores`.  `CleanInv`: there is a set of entries,
  hashed as plain, closed under parents, that has the tips of all other branches
  and all that calls under way will append to them.  After an unfold such a
  branch has the content its hashes cover.

`Single`:
- `TailAlwaysBounded` and `CheckpointsAlwaysOnChain`.  `SyncInv`: between saves
  the memory of a server that is not `trimmed` and the file agree, but for a branch
  a prune has emptied.  `CpsHold`: the
  checkpoints of a branch lie on its chain, the last one nearer to the tip than
  an interval, in memory and in the file a server will load.
- `RestartAlwaysTransparent` (with `Remade`): `[]RestartTransparent`.

`Booted`:
- `BootAlwaysOnce`: `[]BootstrappedOnce` and, until the first keep-last prune,
  `InitNeverFails`.  `BootInv` says
  which of four things a server is doing: with what its call has still to append,
  the protected entries of session_context are two (`Filling`); a prune is about
  to empty the branch and append the two again (`Resetting`); it has not booted;
  it is about to write the bootstrap (`BootSaves`).  TLC checked `BootInv` on the
  instance of `chain_single`, with tool `branch` added, before it was proved.

### SqlStoreProofs

`TypeCorrect` for any servers: every call has a database that was opened, and its
server one that is open.  `Alone`: `FileAgreesWithImage`, `NoLateRowLost` and
`LateQueryComplete`, from `StoreInv`.  Its core: while bytes are under way nobody
waits for sql.js and the bytes are the image in use; between writes the file is
the image; and a call that found a database open got the newest (`LateUseNewest`),
because by then every first call has assigned its own.

### CoordProxyProofs

`LedgerIsTruthful` and `EachReviewsTheOther` hold whatever fails.
The invariant adds to the types, for each chat: the calls made and the calls to
make are those of its mode, in turn, until one rejects (`CallsFit`); the entry
says the outcome (`EntryFits`), and the reply says it too, with the entry there
unless the ledger could not be read or written (`ReplyFits`).

### StackProofs

`NoChildOutlivesLauncher` and `OnlyOwnStopped`, for any number of launchers and
kernels.  The invariant: a port is held by a server exactly when its supervisor
counts that server as running (`TypeOK`), and which children there can be in
which phase (`ChildrenFitPhase`).  The second theorem follows from it by the
steps: only a signal, the end of a launcher that is closing, or a crash takes a
serving child down.

### RegistriesProofs

`OneLivePerKey`, `AlwaysReachable` and `EntriesStayAlive` come from one invariant,
`HandleInv`.  None of the three is inductive: a stop deletes the entry of its key
whatever is there by then.  What it needs is that the handle a stop waits for
cannot be replaced under it (`StopsKnow`), that an entry that is closing has the
stop that will delete it (`EntriesClosing`), that what a port or a token runs has
its entry (`Reachable` itself), and that a browser without a key runs
(`UnnamedRuns`).  `InboxStaysOrdered` is `OrderInv`: along what was handed out and
then what waits, the messages of each bot increase, and that bot has received
them; a poll brings it only such as come after those.

### UnfoldFlowProofs

`PlanGood` goes through the table of `selectPassSequence`: a plan ends with its only
RESPOND and never converts what it has stored.  `RespondsOnceAlways` is the log
against the plan (`LogFits`).  `OwnDataAlways` and `OutputAlwaysExists` are `Data`:
whose data a flow may have (`MayHave`), where its path may point (`MayBeAt`), and
the same for the files on disk.

### TwinFlameProofs

`DriftAlwaysChange` and `BaselineAlwaysDecides`, for any windows and whatever the
peer writes.  What makes them true is where the last probe lies: the newest entry
of a question in A's memory has the hash A last recorded (`TopA`), and the newest
one in B's memory has the hash of B's last baseline, unless the question is flagged
and it is a drift entry, which has none.  `DriftIsChange` lets A answer "none" to a
question it has probed only when its chain is longer than its window, and
`BaselineDecides` lets B take an answer as new likewise.

### Only model-checked

Liveness under fairness is out of the prover's reach and stays with TLC:
`SaveTerminates`, `ChatSettles`, `StackComesUp`, `SignalStopsChildren`,
`RoutingFollowsPorts`, and `Answers` by hand.  `InboxKeepsNewest`, and
`OkMeansBaseline` by hand, have no proof yet, and the violations are TLC's
behaviours.  That
the one-step `Save` of `ErlChain` is what the steps of `erlSave` in `ErlLedger`
amount to is argued in section 2, not proved.

## 7. Abstractions

Hashes are identities that are never reused; a content is its form and, for
prunes, the entry it was copied from; tags are "protected or not".  Timestamps
appear as the cutoff of a prune.  Phi scores choose which entries are folded, so
`Fold` takes any set of entries the code would accept.  The audit log, console
output and the wording of entries are left out.  A `writeFileSync` is a
truncation and one write; `PutBytes` adds that two overlapping writers may leave
a file that does not parse.  SQL is inserting and reading rows; a `db_query` whose
statement writes is not modelled.

The phi hash of a prompt is the band it falls in, prompts and answers are left
out, and an answer is who gave it.  Of LM Studio's port the launcher's probes are
left out, and `--no-proxy`, which only drops a row of its table.  In
`UnfoldFlow` a content is what it is and whose task it comes from; regular
expressions are the signals they find; a shell command works or fails.
`TwinFlame` takes `main` to have an entry and computes averages as fractions.
node-cron 4.2.1, node-telegram-bot-api 0.67.0, playwright, sql.js and Node's
`http` are modelled from how the code uses them.

## 8. Not modelled

- The analog rail (floating-point lattices) and the arithmetic of the native
  engine (`ez_chat.c`): doubles, one process, no interleaving.  What there is to
  check, a prompt as long as the context, is the matter of a unit test.
- The BIOS boot chain and the kernel console: sequential code, one run per disk
  image or one loop over keys; the matter of unit tests, too.
- The UEFI application (prints and returns), the installers, packagers, image
  builders and demos (pure I/O, one run, no shared state), the chat page (one
  request at a time), the PowerShell router (paths and ports of another
  checkout), and the helpers that cannot be loaded (`tools_erl.js` imports names
  `server.js` does not export, `start-server.js` does not parse).
- In the servers: the environment probe at boot and `get_context`, `tg_send`,
  `smtp_send`, `schedule_list`, the commands a cron job runs, and the tools that
  only read (`erlSearch`, `erlPhiRecall`, `phi_route`).  `erlMerge` exists but
  nothing calls it.  A divergence's search by query text.
- In the LAN kernel: its API, where `/kernel/status` describes the machine and
  `/kernel/prime` runs one program to its end per request, sharing nothing; and
  the optional LLM and HDGL children, which it treats like the others.
- Browsers opened by the BROWSE pass, which nothing closes and nothing refers to.
- Two servers that poll one Telegram token, and a fold or a prune of the probes
  branch.

## 9. Plan

1. Proofs: weaker hypotheses than `Single` and `Booted` where the code allows
   them; `InboxKeepsNewest`; and what holds of checkpoints after a keep-last prune.  For two servers `RestartTransparent` and the checkpoint properties are
   false as they stand (a peer's save moves tips and takes folds back); what a
   server can rely on then, besides `ChainsWhole`, is still to be stated.  A
   refinement between `ErlLedger` and `ErlChain` at the grain of one save.
2. The context limit of `ez_chat.c`, should the engine become a component of the
   stack.
