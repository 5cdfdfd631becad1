----------------------------- MODULE ErlLedger -----------------------------
(***************************************************************************)
(* The ledger file erl-ledger.json and the processes that write it: the    *)
(* MCP servers server.js and server-dos.js, each with its own in-memory    *)
(* ledger loaded once and saved on every write under a file lock, and      *)
(* coord-proxy.js, which reads and rewrites the file without the lock.     *)
(*                                                                         *)
(* A server runs one JavaScript thread and erlSave never yields, so inside *)
(* a process an append and its save are one call; between processes every  *)
(* file operation of that call can interleave.  Each file operation is one *)
(* action: taking the lock, reading the file, truncating it, writing it,   *)
(* removing the lock.  A process can be killed between any two of them.    *)
(*                                                                         *)
(* An entry is its hash id.  What the hash covers (parent and branch) is   *)
(* recorded in parent and never changes; timestamps, contents, tags and    *)
(* checkpoints (see ErlChain) are data no property here tells apart.       *)
(*                                                                         *)
(* Entries leave a server's memory in one way: the prune that keeps the    *)
(* last entries of a branch, which every server.js runs daily and          *)
(* server-dos.js as erl_prune, deletes the older ones, and saves.          *)
(***************************************************************************)
CONSTANTS
    Server,           \* the MCP server processes
    Proxy,            \* the coord-proxy process
    Id,               \* entry ids (SHA-256 hashes): an id is never reused
    Branch,           \* branch names
    Main,             \* "main", the branch of a fresh ledger
    Coord,            \* "coord", the branch of the coord-proxy
    Archive,          \* the branch a prune archives to, named by the day
    NULL,             \* null: no parent, an empty branch, nobody
    Unset,            \* undefined: the ledger has no such branch
    DeadlinesExpire,  \* can a server spin 3 s on the lock and go on without it?
    Kills,            \* can a process die between two file operations?
    ProxyRuns         \* is the coord-proxy running?

ASSUME ConstantsOK ==
    /\ Proxy \notin Server
    /\ {Main, Coord, Archive} \subseteq Branch
    /\ NULL \notin Id \cup Server \cup Branch
    /\ Unset \notin Id \cup {NULL}
    /\ {DeadlinesExpire, Kills, ProxyRuns} \subseteq BOOLEAN

VARIABLES
    fstate,   \* the file: "absent", "torn" (not parseable) or "ok"
    file,     \* the last complete ledger it held; meaningful when "ok"
    lock,     \* who created erl-ledger.json.lock, NULL when there is none
    pc,       \* where each process is
    mem,      \* the in-memory ledger of each server (_ledger)
    out,      \* what a process is about to write
    cur,      \* the entry of the append in progress, NULL if there is none
    touched,  \* the branch the call in progress modified, NULL if there is none
    owed,     \* the branch a prune has still to cut, NULL if there is none
    parent,   \* parentId of every entry created so far
    used,     \* the ids created so far
    acked,    \* the ids whose append has returned to its caller, in a server
    events,   \* the ids the coord-proxy has written
    pruned,   \* the ids each server's prunes deleted since it has loaded
    gone      \* pruned ids that were not in the ledger a save then wrote

diskVars == <<fstate, file, lock>>
procVars == <<pc, mem, out, cur, touched, owed>>
histVars == <<parent, used>>
vars     == <<diskVars, procVars, histVars, acked, events, pruned, gone>>

Process == Server \cup {Proxy}

Ledger == [entries : SUBSET Id, tips : [Branch -> Id \cup {NULL, Unset}]]

\* erlLoad's ledger for a missing or unparseable file: { main: null }
FreshLedger ==
    [entries |-> {}, tips |-> [b \in Branch |-> IF b = Main THEN NULL ELSE Unset]]

\* the proxy's ledger for a missing file: no branch at all
BareLedger == [entries |-> {}, tips |-> [b \in Branch |-> Unset]]

(* The stages of erlSave, in order: "spin" until the lock is refused once, *)
(* "wait" while it is retried, then the file operations.                   *)
Spinning == {"spin", "wait"}
Critical == {"read", "trunc", "write", "unlink"}
Saving   == Spinning \cup Critical

TypeOK ==
    /\ fstate \in {"absent", "torn", "ok"}
    /\ file \in Ledger
    /\ lock \in Server \cup {NULL}
    /\ pc \in [Process -> {"down", "idle", "cut"} \cup Saving]
    /\ mem \in [Server -> Ledger]
    /\ out \in [Process -> Ledger]
    /\ cur \in [Process -> Id \cup {NULL}]
    /\ touched \in [Process -> Branch \cup {NULL}]
    /\ owed \in [Server -> Branch \cup {NULL}]
    /\ parent \in [Id -> Id \cup {NULL}]
    /\ used \subseteq Id
    /\ acked \subseteq Id
    /\ events \subseteq Id
    /\ pruned \in [Server -> SUBSET Id]
    /\ gone \subseteq Id

Init ==
    /\ fstate = "absent"
    /\ file = FreshLedger
    /\ lock = NULL
    /\ pc = [p \in Process |-> IF p = Proxy THEN "idle" ELSE "down"]
    /\ mem = [s \in Server |-> FreshLedger]
    /\ out = [p \in Process |-> FreshLedger]
    /\ cur = [p \in Process |-> NULL]
    /\ touched = [p \in Process |-> NULL]
    /\ owed = [s \in Server |-> NULL]
    /\ parent = [i \in Id |-> NULL]
    /\ used = {}
    /\ acked = {}
    /\ events = {}
    /\ pruned = [s \in Server |-> {}]
    /\ gone = {}

-----------------------------------------------------------------------------
(* A server's operations on its in-memory ledger.                          *)

\* a call that is over has nothing to write
Over(p) ==
    /\ out' = [out EXCEPT ![p] = FreshLedger]
    /\ cur' = [cur EXCEPT ![p] = NULL]
    /\ touched' = [touched EXCEPT ![p] = NULL]

\* what a parse of the file yields, when it is the whole file
OnDisk(absent) == IF fstate = "ok" THEN file ELSE absent

(* getLedger, first use: erlLoad, without the lock.  A file another        *)
(* process is in the middle of writing does not parse: a fresh ledger.     *)
LoadsFrom == OnDisk(FreshLedger)

Load(s) ==
    /\ pc[s] = "down"
    /\ mem' = [mem EXCEPT ![s] = LoadsFrom]
    /\ pc' = [pc EXCEPT ![s] = "idle"]
    /\ UNCHANGED <<diskVars, out, cur, touched, owed, histVars, acked, events, pruned, gone>>

\* mutant: the tip of an absent branch is passed on as undefined
TipOfRaw(L, b) == L.tips[b]

\* ledger.branches[b] ?? null  (and  || null)
TipOf(L, b) == IF L.tips[b] \in Id THEN L.tips[b] ELSE NULL

\* mutant: the tip moves, the entry is not stored
AddEntryTipOnly(L, b, i) ==
    [entries |-> L.entries, tips |-> [L.tips EXCEPT ![b] = i]]

\* the entry is stored and becomes the tip of its branch
AddEntry(L, b, i) ==
    [entries |-> L.entries \cup {i}, tips |-> [L.tips EXCEPT ![b] = i]]

(* erlAppend up to the call of erlSave: the parent is the in-memory tip.   *)
Append(s, b, i) ==
    /\ pc[s] = "idle"
    /\ i \notin used
    /\ parent' = [parent EXCEPT ![i] = TipOf(mem[s], b)]
    /\ used' = used \cup {i}
    /\ mem' = [mem EXCEPT ![s] = AddEntry(@, b, i)]
    /\ cur' = [cur EXCEPT ![s] = i]
    /\ touched' = [touched EXCEPT ![s] = b]
    /\ pc' = [pc EXCEPT ![s] = "spin"]
    /\ UNCHANGED <<diskVars, out, owed, acked, events, pruned, gone>>

(* erlBranch up to the call of erlSave; no caller passes from_id.          *)
CreateBranch(s, name, from) ==
    /\ pc[s] = "idle"
    /\ mem[s].tips[name] = Unset
    /\ mem' = [mem EXCEPT ![s].tips[name] = TipOf(mem[s], from)]
    /\ touched' = [touched EXCEPT ![s] = name]
    /\ pc' = [pc EXCEPT ![s] = "spin"]
    /\ UNCHANGED <<diskVars, out, cur, owed, histVars, acked, events, pruned, gone>>

-----------------------------------------------------------------------------
(* The prune that keeps the last entries of a branch: the daily job of     *)
(* server.js, erl_prune of server-dos.js.                                  *)

(* erlHistory from the entry i: i and its ancestors, up to one that is not *)
(* in the ledger.                                                          *)
Chain(L, i) ==
    {j \in L.entries : \A S \in SUBSET L.entries :
        (i \in S /\ \A k \in S : parent[k] \in L.entries => parent[k] \in S) => j \in S}

(* The archive is a branch that forks off b; when it is new that is saved  *)
(* first.  A branch of that name without a tip makes erlBranch throw.      *)
Prune(s, b) ==
    /\ pc[s] = "idle"
    /\ b # Archive
    /\ mem[s].tips[b] \in mem[s].entries
    /\ \/ /\ mem[s].tips[Archive] = Unset
          /\ mem' = [mem EXCEPT ![s].tips[Archive] = TipOf(mem[s], b)]
          /\ touched' = [touched EXCEPT ![s] = Archive]
          /\ pc' = [pc EXCEPT ![s] = "spin"]
       \/ /\ mem[s].tips[Archive] \in Id
          /\ pc' = [pc EXCEPT ![s] = "cut"]
          /\ UNCHANGED <<mem, touched>>
    /\ owed' = [owed EXCEPT ![s] = b]
    /\ UNCHANGED <<diskVars, out, cur, histVars, acked, events, pruned, gone>>

(* What is older than the oldest kept entry k is deleted, the protected    *)
(* entries excepted, and k becomes the tip; with keep_last 0 everything    *)
(* may be, and the tip is null.                                            *)
Cut(s) ==
    /\ pc[s] = "cut"
    /\ LET tip == mem[s].tips[owed[s]]
           all == Chain(mem[s], tip)
       IN \E k \in all \cup {NULL} :
          \E drop \in SUBSET (IF k = NULL THEN all ELSE Chain(mem[s], k) \ {k}) \ {{}} :
             /\ mem' = [mem EXCEPT ![s] =
                   [entries |-> @.entries \ drop, tips |-> [@.tips EXCEPT ![owed[s]] = k]]]
             /\ pruned' = [pruned EXCEPT ![s] = @ \cup drop]
    /\ touched' = [touched EXCEPT ![s] = owed[s]]
    /\ owed' = [owed EXCEPT ![s] = NULL]
    /\ pc' = [pc EXCEPT ![s] = "spin"]
    /\ UNCHANGED <<diskVars, out, cur, histVars, acked, events, gone>>

-----------------------------------------------------------------------------
(* erlSave, one file operation at a time.                                  *)

\* mutant: the lock is created without O_EXCL
LockFreeUnchecked == TRUE

(* The exclusive create of the lock file succeeds only when there is none. *)
LockFree == lock = NULL

Acquire(s) ==
    /\ pc[s] \in Spinning
    /\ LockFree
    /\ lock' = s
    /\ pc' = [pc EXCEPT ![s] = "read"]
    /\ UNCHANGED <<fstate, file, mem, out, cur, touched, owed, histVars, acked, events, pruned, gone>>

Refused(s) ==
    /\ pc[s] = "spin"
    /\ ~LockFree
    /\ pc' = [pc EXCEPT ![s] = "wait"]
    /\ UNCHANGED <<diskVars, mem, out, cur, touched, owed, histVars, acked, events, pruned, gone>>

\* mutant: a loop without deadline
GiveUpNever(s) == FALSE /\ UNCHANGED vars

(* The deadline passes: the loop ends and the save goes on regardless.     *)
GiveUp(s) ==
    /\ DeadlinesExpire
    /\ pc[s] = "wait"
    /\ pc' = [pc EXCEPT ![s] = "read"]
    /\ UNCHANGED <<diskVars, mem, out, cur, touched, owed, histVars, acked, events, pruned, gone>>

\* mutant: tips are merged, the entries they name are not
MergeTipsOnly(disk, own) ==
    [entries |-> disk.entries,
     tips |-> [b \in Branch |-> IF own.tips[b] \in Id THEN own.tips[b]
                                ELSE disk.tips[b]]]

\* mutant: write the in-memory ledger, as if the file had not been re-read
MergeNothing(disk, own) == own

(* The union of the entries, and every non-null in-memory tip -- also of   *)
(* the branches this call did not modify.                                  *)
Merge(disk, own) ==
    [entries |-> disk.entries \cup own.entries,
     tips |-> [b \in Branch |-> IF own.tips[b] \in Id THEN own.tips[b]
                                ELSE disk.tips[b]]]

(* The file is read again and merged; a file that is missing or does not   *)
(* parse is replaced by the in-memory ledger alone.                        *)
ReadAndMerge(s) ==
    /\ pc[s] = "read"
    /\ out' = [out EXCEPT ![s] = IF fstate = "ok" THEN Merge(file, mem[s])
                                 ELSE mem[s]]
    /\ gone' = gone \cup (pruned[s] \ out'[s].entries)
    /\ pc' = [pc EXCEPT ![s] = "trunc"]
    /\ UNCHANGED <<diskVars, mem, cur, touched, owed, histVars, acked, events, pruned>>

(* writeFileSync opens the file with O_TRUNC: until the data is written,   *)
(* nobody can parse it.                                                    *)
Truncate(p) ==
    /\ pc[p] = "trunc"
    /\ fstate' = "torn"
    /\ pc' = [pc EXCEPT ![p] = "write"]
    /\ UNCHANGED <<file, lock, mem, out, cur, touched, owed, histVars, acked, events, pruned, gone>>

(* The bytes go to offset 0 of the file.  If another process wrote since   *)
(* this one truncated, a longer tail of its bytes may survive: torn.       *)
PutBytes(p) ==
    \/ fstate' = "ok" /\ file' = out[p]
    \/ fstate = "ok" /\ fstate' = "torn" /\ file' = file

Write(s) ==
    /\ pc[s] = "write"
    /\ PutBytes(s)
    /\ out' = [out EXCEPT ![s] = FreshLedger]
    /\ pc' = [pc EXCEPT ![s] = "unlink"]
    /\ UNCHANGED <<lock, mem, cur, touched, owed, histVars, acked, events, pruned, gone>>

(* finally: the lock file is removed, whoever created it, and the call     *)
(* returns to its caller: a tool that answers, or a prune that goes on.    *)
Unlink(s) ==
    /\ pc[s] = "unlink"
    /\ lock' = NULL
    /\ acked' = IF cur[s] = NULL THEN acked ELSE acked \cup {cur[s]}
    /\ Over(s)
    /\ pc' = [pc EXCEPT ![s] = IF owed[s] = NULL THEN "idle" ELSE "cut"]
    /\ UNCHANGED <<fstate, file, mem, owed, histVars, events, pruned, gone>>

(* SIGINT and SIGTERM are handled between two calls: the process exits     *)
(* and its next start loads the file again.                                *)
Exit(s) ==
    /\ pc[s] = "idle"
    /\ pc' = [pc EXCEPT ![s] = "down"]
    /\ mem' = [mem EXCEPT ![s] = FreshLedger]
    /\ pruned' = [pruned EXCEPT ![s] = {}]
    /\ UNCHANGED <<diskVars, out, cur, touched, owed, histVars, acked, events, gone>>

(* A kill (launch.mjs sends SIGKILL 2.5 s after SIGTERM, a spin may last   *)
(* 3 s) or a power cut: lock and file stay as they are.                    *)
Kill(s) ==
    /\ Kills
    /\ pc[s] \in Saving
    /\ pc' = [pc EXCEPT ![s] = "down"]
    /\ mem' = [mem EXCEPT ![s] = FreshLedger]
    /\ pruned' = [pruned EXCEPT ![s] = {}]
    /\ Over(s)
    /\ owed' = [owed EXCEPT ![s] = NULL]
    /\ UNCHANGED <<diskVars, histVars, acked, events, gone>>

-----------------------------------------------------------------------------
(* coord-proxy.js: read, append to "coord", write -- without the lock.     *)

(* A file that does not parse makes JSON.parse throw: the event is only    *)
(* logged to the console and the ledger is left alone (no action).         *)
ProxyRead(i) ==
    /\ ProxyRuns
    /\ pc[Proxy] = "idle"
    /\ fstate # "torn"
    /\ i \notin used
    /\ LET L == OnDisk(BareLedger) IN
       /\ parent' = [parent EXCEPT ![i] = TipOf(L, Coord)]
       /\ out' = [out EXCEPT ![Proxy] = AddEntry(L, Coord, i)]
    /\ used' = used \cup {i}
    /\ cur' = [cur EXCEPT ![Proxy] = i]
    /\ touched' = [touched EXCEPT ![Proxy] = Coord]
    /\ pc' = [pc EXCEPT ![Proxy] = "trunc"]
    /\ UNCHANGED <<diskVars, mem, owed, acked, events, pruned, gone>>

ProxyWrite ==
    /\ pc[Proxy] = "write"
    /\ PutBytes(Proxy)
    /\ events' = events \cup {cur[Proxy]}
    /\ Over(Proxy)
    /\ pc' = [pc EXCEPT ![Proxy] = "idle"]
    /\ UNCHANGED <<lock, mem, owed, histVars, acked, pruned, gone>>

ProxyKill ==
    /\ Kills
    /\ pc[Proxy] \in Critical
    /\ pc' = [pc EXCEPT ![Proxy] = "idle"]
    /\ Over(Proxy)
    /\ UNCHANGED <<diskVars, mem, owed, histVars, acked, events, pruned, gone>>

-----------------------------------------------------------------------------
(* One step of a save in progress.                                         *)
SaveStep(s) ==
    \/ Acquire(s) \/ Refused(s) \/ GiveUp(s)
    \/ ReadAndMerge(s) \/ Truncate(s) \/ Write(s) \/ Unlink(s)

ServerStep(s) ==
    \/ Load(s)
    \/ \E b \in Branch, i \in Id : Append(s, b, i)
    \/ \E name, from \in Branch : CreateBranch(s, name, from)
    \/ \E b \in Branch : Prune(s, b)
    \/ Cut(s)
    \/ SaveStep(s)
    \/ Exit(s)
    \/ Kill(s)

ProxyStep ==
    \/ \E i \in Id : ProxyRead(i)
    \/ Truncate(Proxy)
    \/ ProxyWrite
    \/ ProxyKill

Next == ProxyStep \/ \E s \in Server : ServerStep(s)

Spec == Init /\ [][Next]_vars

(* A running process keeps executing its synchronous code, and the clock   *)
(* advances, so a save that waits for the lock reaches its deadline.       *)
FairSpec == Spec /\ \A s \in Server : WF_vars(SaveStep(s) \/ Cut(s))

-----------------------------------------------------------------------------
(* Properties that hold whatever dies, expires or races.                   *)

\* every reference in L is to an entry of L, or to one that was deleted
ClosedBut(L, deleted) ==
    /\ \A i \in L.entries : parent[i] \in L.entries \cup deleted \cup {NULL}
    /\ \A b \in Branch : L.tips[b] \in Id => L.tips[b] \in L.entries \cup deleted

(* A file that parses has no dangling reference: every parentId and every  *)
(* branch tip in it names an entry in it, so erlHistory and erlVerify of a *)
(* restarted server walk whole chains -- even after clashes of unlocked    *)
(* writers, torn files and kills.  The one exception are entries a server  *)
(* had pruned from its memory when it wrote that memory over a file that   *)
(* did not have them (any more): those are gone.                           *)
DiskClosed == fstate = "ok" => ClosedBut(file, gone)

(* The same for what each server answers from, its own memory: there the   *)
(* entries are missing that it has pruned itself, and those.               *)
MemClosed == \A s \in Server : ClosedBut(mem[s], pruned[s] \cup gone)

(* A call of erlSave ends: neither a stale lock left by a killed process   *)
(* nor a peer that keeps the lock blocks a server for ever.                *)
SaveTerminates ==
    \A s \in Server : pc[s] \in Saving ~> pc[s] \in {"idle", "down"}

-----------------------------------------------------------------------------
(* Properties of the servers alone, when no deadline expires and nothing   *)
(* is killed.                                                              *)

(* Only one server at a time is past the lock.                             *)
MutualExclusion ==
    \A s, t \in Server : pc[s] \in Critical /\ pc[t] \in Critical => s = t

(* An entry whose append has returned is in the file for good: the re-read *)
(* and merge of erlSave loses no entry of either server.                   *)
AckedDurable == acked \subseteq file.entries

(* A server that is idle has everything it knows on disk: nothing it would *)
(* answer from memory is lost when it exits.                               *)
IdleSynced ==
    \A s \in Server : pc[s] = "idle" => mem[s].entries \subseteq file.entries

(* The file, seen as the last complete ledger it held, is a durable        *)
(* ledger: it only grows.                                                  *)
Durable == INSTANCE DurableLedger WITH entries <- file.entries, tips <- file.tips

ImplementsDurable == Durable!Spec

-----------------------------------------------------------------------------
(* What the comments and the README say, stated as they say it.            *)

(* server.js:131, README: the lock keeps concurrent server writes from     *)
(* clobbering each other; no entry on disk disappears from a complete file.*)
NoClobber == [][file.entries \subseteq file'.entries]_vars

(* server.js:150: a save adopts the in-memory tip "for branches we just    *)
(* modified": no other branch's tip moves.                                 *)
OnlyModifiedTipsMove ==
    [][\A s \in Server : Write(s) =>
         \A b \in Branch : (file.tips[b] # Unset /\ file'.tips[b] # file.tips[b])
                           => b = touched[s]]_vars

(* README: getLedger() is a "thread-safe read": a server that starts sees  *)
(* every entry that was acknowledged before.                               *)
LoadSeesAcked == [][\A s \in Server : Load(s) => acked \subseteq mem'[s].entries]_vars

(* server.js:86: the ledger is persisted on every write; a server that     *)
(* starts when nothing else runs finds every acknowledged entry.           *)
RestartFindsAcked ==
    (\A s \in Server : pc[s] = "down") => acked \subseteq LoadsFrom.entries

(* No prune loses an entry another refers to: a file that parses is closed.*)
(* A prune that meets a torn file does.  (server.js:162, 2778)             *)
DiskWhole == fstate = "ok" => ClosedBut(file, {})

(* coord-proxy.js:20: every coordination event is committed to the ledger. *)
EventsCommitted == events \subseteq file.entries
=============================================================================
