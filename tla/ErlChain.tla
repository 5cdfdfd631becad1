------------------------------ MODULE ErlChain ------------------------------
(***************************************************************************)
(* What the MCP servers do to the hash chains of the ledger: append with   *)
(* checkpoints, branch, fold and unfold, the two prunes, the bootstrap of  *)
(* session_context, verification, and what a restart finds on disk.        *)
(*                                                                         *)
(* Grain: one erlSave is one step here (ErlLedger opens it up and proves   *)
(* that the lock makes it atomic between servers).  A tool call is the     *)
(* list of saves it makes, its job; the server does nothing else until the *)
(* job is done, but a peer may save, and the process may die, between any  *)
(* two of them.                                                            *)
(*                                                                         *)
(* Ids are numbers in order of creation, 0 is null and -1 is undefined.    *)
(***************************************************************************)
EXTENDS Integers, Sequences, SequencesExt, FiniteSets, FiniteSetsExt

CONSTANTS
    Server,       \* the MCP servers sharing the file
    MaxId,        \* bound: how many entries are ever created
    Interval,     \* CHECKPOINT_INTERVAL (50 in the code)
    KeepLast,     \* keep_last of the keep-last prune (20 in the code)
    PruneBranch,  \* the branch the prunes are called on
    Tools,        \* which tools are called: a subset of ToolNames
    Kills         \* may a server die between two saves of one call?

Main    == "main"
Session == "session_context"
Archive == "archive"        \* the day's archive branch of the prune by age ...
ArchiveLast == "archive_last" \* ... and that of the keep-last prunes
Branch  == {Main, Session, Archive, ArchiveLast}

(* "early": tools append to session_context before the boot has initialised*)
(* it -- the server accepts calls while it still probes its environment.   *)
ToolNames == {"init", "early", "append", "branch", "fold", "prune_age", "prune_last"}

(* The prunes, erl_fold and erl_unfold ask erlHistory for so many entries:  *)
(* no branch of the model is longer, whatever MaxId is.                    *)
HistoryLimit == 10000

ASSUME ConstantsOK ==
    /\ MaxId \in Nat /\ MaxId <= HistoryLimit /\ Interval \in Nat \ {0, 1} /\ KeepLast \in Nat \ {0}
    /\ PruneBranch \in {Main, Session}
    /\ Tools \subseteq ToolNames /\ Kills \in BOOLEAN

null      == 0
undefined == -1

VARIABLES
    info,      \* the immutable part of every entry created, in order
    disk,      \* the ledger in erl-ledger.json
    exists,    \* does the file exist?
    mem,       \* the in-memory ledger of each server
    up,        \* the servers that run
    job,       \* the saves left of each server's current call
    inited,    \* has erlStandardInit run in this process? (_erlInitialized)
    failed,    \* did the server's last call throw?
    promise,   \* ghost: what the prune_age a server called last owes
    trimmed,   \* ghost: the servers that have called a keep-last prune since they started
    trims      \* ghost: has any server ever called one?

ghosts == <<trimmed, trims>>
vars == <<info, disk, exists, mem, up, job, inited, failed, promise, ghosts>>

Entry == 1..Len(info)
NewId == Len(info) + 1

(* An entry: the parent and the content form its hash covers, whether its  *)
(* tags protect it from pruning, and the entry whose content it carries    *)
(* (itself, unless a prune copied it).                                     *)
Info == [parent : 0..MaxId, form : {"plain", "folded"}, prot : BOOLEAN,
         payload : 1..MaxId]

(* A ledger: its entries, which of them have folded content now, the tips, *)
(* and the checkpoint tip_ids of the branches that have a checkpoint list. *)
EmptyLedger == [ids |-> {}, folded |-> {},
                tips |-> [b \in Branch |-> IF b = Main THEN null ELSE undefined],
                cps |-> <<>>]

LedgerOK(L) ==
    /\ L = [ids |-> L.ids, folded |-> L.folded, tips |-> L.tips, cps |-> L.cps]
    /\ L.ids \subseteq Entry /\ L.folded \subseteq L.ids
    /\ L.tips \in [Branch -> {undefined, null} \cup Entry]
    /\ DOMAIN L.cps \subseteq Branch /\ L.cps \in [DOMAIN L.cps -> Seq(Entry)]

(* A save of a call: an erlAppend, of the entry to copy or of a new fact   *)
(* (0), an erlBranch, the emptying of a branch, the cut of a keep-last     *)
(* prune.                                                                  *)
SaveStep ==
    [op : {"append"}, branch : Branch, prot : BOOLEAN, copy : {0} \cup Entry]
    \cup [op : {"branch"}, name : Branch, from : Branch]
    \cup [op : {"null"}, name : Branch]
    \cup [op : {"cut"}, tip : Entry, drop : SUBSET Entry]

(* A parent is older than its child.                                       *)
TypeOK ==
    /\ info \in Seq(Info) /\ Len(info) <= MaxId
    /\ \A i \in Entry : info[i].parent < i
    /\ LedgerOK(disk) /\ mem = [s \in Server |-> mem[s]]
    /\ \A s \in Server : LedgerOK(mem[s])
    /\ up \subseteq Server /\ exists \in BOOLEAN
    /\ job \in [Server -> Seq(SaveStep)]
    /\ inited \in [Server -> BOOLEAN] /\ failed \in [Server -> BOOLEAN]

NoPromise == [kept |-> <<>>, archived |-> {}]

Init ==
    /\ info = <<>>
    /\ disk = EmptyLedger /\ exists = FALSE
    /\ mem = [s \in Server |-> EmptyLedger]
    /\ up = {}
    /\ job = [s \in Server |-> <<>>]
    /\ inited = [s \in Server |-> FALSE]
    /\ failed = [s \in Server |-> FALSE]
    /\ promise = [s \in Server |-> NoPromise]
    /\ trimmed = {} /\ trims = FALSE

-----------------------------------------------------------------------------
(* Reading a ledger.                                                       *)

(* erlHistory: from the tip to the first entry without a (present) parent, *)
(* newest first.  A parent is older than its child.                        *)
ChainFrom(L, tip) ==
    LET walk[i \in 0..MaxId] ==
          IF i \in L.ids THEN <<i>> \o walk[info[i].parent] ELSE <<>>
    IN  IF tip > 0 THEN walk[tip] ELSE <<>>

History(L, b) == ChainFrom(L, L.tips[b])

\* the elements of seq that are in S, in their order
Only(seq, S) ==
    LET upTo[n \in 0..Len(seq)] ==
          IF n = 0 THEN <<>>
          ELSE IF seq[n] \in S THEN Append(upTo[n - 1], seq[n]) ELSE upTo[n - 1]
    IN  upTo[Len(seq)]

\* mutant: one list of checkpoints for all branches
CheckpointsShared(L, b) == LET lists == Range(L.cps) \cup {<<>>} IN
                           CHOOSE x \in lists : \A y \in lists : Len(y) <= Len(x)

Checkpoints(L, b) == IF b \in DOMAIN L.cps THEN L.cps[b] ELSE <<>>

(* The part of a chain from its head down to the last checkpoint, included;*)
(* the whole chain when the last checkpoint is not on it.                  *)
UpToCheckpoint(chain, cps) ==
    IF cps # <<>> /\ Contains(chain, Last(cps))
    THEN Only(chain, Last(cps)..MaxId)
    ELSE chain

VerifyTail(L, b) == UpToCheckpoint(History(L, b), Checkpoints(L, b))

(* A hash matches while the content has the form that was hashed.          *)
HashOK(L, i) == (i \in L.folded) <=> (info[i].form = "folded")

(* erlVerify: every hash of the tail.  The checkpoint roots cover tip ids  *)
(* only and always match what erlAppend computed.                          *)
Verify(L, b) == \A i \in Range(VerifyTail(L, b)) : HashOK(L, i)

-----------------------------------------------------------------------------
(* One save each: the in-memory change, then erlSave.                      *)

\* mutant: write the in-memory ledger, as if the file had not been re-read
MergedNothing(L) == L

\* mutant: the tips and checkpoints on disk win over the in-memory ones
MergedKeepsDisk(L) ==
    [ids |-> disk.ids \cup L.ids,
     folded |-> (disk.folded \ L.ids) \cup L.folded,
     tips |-> [b \in Branch |-> IF disk.tips[b] > 0 THEN disk.tips[b] ELSE L.tips[b]],
     cps |-> [b \in DOMAIN L.cps \cup DOMAIN disk.cps |->
                IF b \in DOMAIN disk.cps THEN disk.cps[b] ELSE L.cps[b]]]

(* erlSave: the union of the entries, with the in-memory content of those  *)
(* this server has; its non-null tips; its checkpoint lists.               *)
Merged(L) ==
    [ids |-> disk.ids \cup L.ids,
     folded |-> (disk.folded \ L.ids) \cup L.folded,
     tips |-> [b \in Branch |-> IF L.tips[b] > 0 THEN L.tips[b] ELSE disk.tips[b]],
     cps |-> [b \in DOMAIN L.cps \cup DOMAIN disk.cps |->
                IF b \in DOMAIN L.cps THEN L.cps[b] ELSE disk.cps[b]]]

Save(s, L) ==
    /\ mem' = [mem EXCEPT ![s] = L]
    /\ disk' = IF exists THEN Merged(L) ELSE L
    /\ exists' = TRUE

\* mutant: no checkpoint is ever taken
CheckpointsNever(chain, cps) == cps

(* erlAppend walks back from the new entry to the last checkpoint, counting*)
(* both ends, and takes a checkpoint at Interval or more.                  *)
CheckpointsAfter(chain, cps) ==
    IF Len(UpToCheckpoint(chain, cps)) >= Interval
    THEN Append(cps, Head(chain))
    ELSE cps

\* mutant: an absent branch is not mapped to null
ParentRaw(L, b) == L.tips[b]

\* ledger.branches[branch] ?? null
ParentIn(L, b) == IF L.tips[b] > 0 THEN L.tips[b] ELSE null

(* erlAppend of content of the given form.                                 *)
AppendEntry(s, b, prot, form, payload) ==
    LET i      == NewId
        L      == mem[s]
        parent == ParentIn(L, b)
        cps    == CheckpointsAfter(<<i>> \o ChainFrom(L, parent), Checkpoints(L, b))
    IN  /\ i <= MaxId
        /\ info' = Append(info, [parent |-> parent, form |-> form, prot |-> prot,
                                 payload |-> payload])
        /\ Save(s, [ids |-> L.ids \cup {i},
                    folded |-> IF form = "folded" THEN L.folded \cup {i} ELSE L.folded,
                    tips |-> [L.tips EXCEPT ![b] = i],
                    cps |-> [c \in DOMAIN L.cps \cup {b} |-> IF c = b THEN cps ELSE L.cps[c]]])

(* erlBranch, when the name is new.                                        *)
NewBranch(s, name, from) ==
    /\ mem[s].tips[name] = undefined
    /\ Save(s, [mem[s] EXCEPT !.tips[name] = ParentIn(mem[s], from)])
    /\ UNCHANGED info

-----------------------------------------------------------------------------
(* Tool calls.  A server takes one when it runs and its job is done.       *)

Ready(s) == s \in up /\ job[s] = <<>>

\* the bound: no call starts that could run out of ids
Appends(saves) == Len(SelectSeq(saves, LAMBDA o : o.op = "append"))
Room(n) == Len(info) + MapThenSumSet(LAMBDA s : Appends(job[s]), Server) + n <= MaxId

(* getLedger's first use in a new process: erlLoad.                        *)
Start(s) ==
    /\ s \notin up
    /\ up' = up \cup {s}
    /\ mem' = [mem EXCEPT ![s] = IF exists THEN disk ELSE EmptyLedger]
    /\ inited' = [inited EXCEPT ![s] = FALSE]
    /\ failed' = [failed EXCEPT ![s] = FALSE]
    /\ trimmed' = trimmed \ {s}
    /\ UNCHANGED <<info, disk, exists, job, promise, trims>>

(* The process ends, between calls or (Kills) between two saves of one.    *)
Stop(s) ==
    /\ s \in up
    /\ Kills \/ job[s] = <<>>
    /\ up' = up \ {s}
    /\ mem' = [mem EXCEPT ![s] = EmptyLedger]
    /\ job' = [job EXCEPT ![s] = <<>>]
    /\ promise' = [promise EXCEPT ![s] = NoPromise]
    /\ UNCHANGED <<info, disk, exists, inited, failed, ghosts>>

\* a call that ends within this step
Returned(s) ==
    /\ failed' = [failed EXCEPT ![s] = FALSE]
    /\ promise' = [promise EXCEPT ![s] = NoPromise]
    /\ UNCHANGED <<up, job, inited, ghosts>>

(* The tools that append: llm_query, twin_flame_eval, self_heal, ...       *)
AppendTool(s, b) ==
    /\ "append" \in Tools /\ Ready(s) /\ Room(1)
    /\ b = Session /\ "init" \in Tools => inited[s] \/ "early" \in Tools
    /\ AppendEntry(s, b, FALSE, "plain", NewId)
    /\ Returned(s)

BranchTool(s, name, from) ==
    /\ "branch" \in Tools /\ Ready(s)
    /\ name = Session /\ "init" \in Tools => inited[s] \/ "early" \in Tools
    /\ NewBranch(s, name, from)
    /\ Returned(s)

(* erl_fold: F are the entries that score below the threshold.  Their      *)
(* content is rewritten in place; protected and folded ones are skipped.   *)
Fold(s, b, F) ==
    /\ "fold" \in Tools /\ Ready(s)
    /\ F # {}
    /\ \A i \in F : ~info[i].prot /\ i \notin mem[s].folded
    /\ Save(s, [mem[s] EXCEPT !.folded = @ \cup F])
    /\ UNCHANGED info
    /\ Returned(s)

\* mutant: one folded entry at a time is restored
UnfoldsNewest(L, b) ==
    LET on == Only(History(L, b), L.folded) IN {Head(on)}

\* what erl_unfold restores: every folded entry of the branch's history
UnfoldsIn(L, b) == Range(History(L, b)) \cap L.folded

Unfold(s, b) ==
    /\ "fold" \in Tools /\ Ready(s)
    /\ Range(History(mem[s], b)) \cap mem[s].folded # {}
    /\ Save(s, [mem[s] EXCEPT !.folded = @ \ UnfoldsIn(mem[s], b)])
    /\ UNCHANGED info
    /\ Returned(s)

-----------------------------------------------------------------------------
(* Calls of several saves: the job lists them.                             *)

Call(s, saves, owed) ==
    /\ Ready(s)
    /\ Room(Appends(saves))
    /\ job' = [job EXCEPT ![s] = saves]
    /\ promise' = [promise EXCEPT ![s] = owed]
    /\ failed' = [failed EXCEPT ![s] = FALSE]
    /\ UNCHANGED <<info, disk, exists, mem, up>>

(* erlStandardInit, from the boot or from a forced erl_context_init.  When *)
(* session_context has no tip: the branch, then the server_init and the    *)
(* system_prompt entry.                                                    *)
StandardInit(s) ==
    /\ "init" \in Tools
    /\ LET fact == [op |-> "append", branch |-> Session, prot |-> TRUE, copy |-> 0]
       IN  Call(s, IF mem[s].tips[Session] > 0 THEN <<>>
                   ELSE <<[op |-> "branch", name |-> Session, from |-> Main], fact, fact>>,
                NoPromise)
    /\ inited' = [inited EXCEPT ![s] = TRUE]
    /\ UNCHANGED ghosts

\* mutant: the copies lose their tags
CopiesUntagged(b, ids) ==
    [k \in 1..Len(ids) |-> [op |-> "append", branch |-> b, prot |-> FALSE, copy |-> ids[k]]]

\* the appends that copy entries to a branch, with their tags
Copies(b, ids) ==
    [k \in 1..Len(ids) |-> [op |-> "append", branch |-> b, prot |-> info[ids[k]].prot,
                            copy |-> ids[k]]]

Payloads(ids) == [k \in 1..Len(ids) |-> info[ids[k]].payload]

\* mutant: the kept entries are appended newest first
RebuildOrderNewestFirst(keep) == keep

RebuildOrder(keep) == Reverse(keep)

\* the entries no tag protects from a prune ...
Prunable == {i \in Entry : ~info[i].prot}
\* ... and what server.js erl_prune moves to the archive branch
Old(cutoff) == {i \in Prunable : i <= cutoff}

(* server.js erl_prune: entries up to cutoff are older than max_age_days.  *)
(* Old unprotected entries are copied to the archive branch, then the      *)
(* branch is emptied and the kept ones are appended to it again.           *)
PruneAge(s, cutoff) ==
    /\ "prune_age" \in Tools
    /\ LET history == History(mem[s], PruneBranch)
           keep    == Only(history, Entry \ Old(cutoff))
           archive == Only(history, Old(cutoff))
           open    == IF mem[s].tips[Archive] = undefined
                      THEN <<[op |-> "null", name |-> Archive]>> ELSE <<>>
       IN  /\ archive # <<>>
           /\ Call(s, open \o Copies(Archive, Reverse(archive))
                        \o <<[op |-> "null", name |-> PruneBranch]>>
                        \o Copies(PruneBranch, RebuildOrder(keep)),
                   [kept |-> Payloads(keep), archived |-> Range(Payloads(archive))])
    /\ UNCHANGED <<inited, ghosts>>

(* server-dos.js erl_prune and the daily auto-prune of both servers: the   *)
(* archive branch is opened at the current tip, the entries beyond the     *)
(* KeepLast newest unprotected ones are deleted, and the tip moves to the  *)
(* last element of kept, which is ordered newest first.                    *)
PruneLast(s) ==
    /\ "prune_last" \in Tools
    /\ LET keepable == Only(History(mem[s], PruneBranch), Prunable)
           open     == IF mem[s].tips[ArchiveLast] <= 0
                       THEN <<[op |-> "branch", name |-> ArchiveLast, from |-> PruneBranch]>>
                       ELSE <<>>
       IN  /\ Len(keepable) > KeepLast
           /\ Call(s, open \o <<[op |-> "cut", tip |-> keepable[KeepLast],
                                 drop |-> Range(SubSeq(keepable, KeepLast + 1, Len(keepable)))]>>,
                   NoPromise)
    /\ trimmed' = trimmed \cup {s} /\ trims' = TRUE
    /\ UNCHANGED inited

Proceed(s) ==
    /\ job' = [job EXCEPT ![s] = Tail(@)]
    /\ UNCHANGED <<up, inited, failed, promise, ghosts>>

(* The next save of the call.                                              *)
JobAppend(s) ==
    LET o == Head(job[s]) IN
    /\ o.op = "append"
    /\ IF o.copy = 0 THEN AppendEntry(s, o.branch, o.prot, "plain", NewId)
       ELSE AppendEntry(s, o.branch, o.prot,
                        IF o.copy \in mem[s].folded THEN "folded" ELSE "plain",
                        info[o.copy].payload)
    /\ Proceed(s)

JobBranch(s) ==
    LET o == Head(job[s]) IN
    /\ o.op = "branch"
    /\ NewBranch(s, o.name, o.from)
    /\ Proceed(s)

(* erlBranch throws: the name is there, if only with a null tip.           *)
JobThrow(s) ==
    LET o == Head(job[s]) IN
    /\ o.op = "branch"
    /\ mem[s].tips[o.name] # undefined
    /\ job' = [job EXCEPT ![s] = <<>>]
    /\ failed' = [failed EXCEPT ![s] = TRUE]
    /\ UNCHANGED <<info, disk, exists, mem, up, inited, promise, ghosts>>

JobNull(s) ==
    LET o == Head(job[s]) IN
    /\ o.op = "null"
    /\ Save(s, [mem[s] EXCEPT !.tips[o.name] = null])
    /\ UNCHANGED info
    /\ Proceed(s)

JobCut(s) ==
    LET o == Head(job[s]) IN
    /\ o.op = "cut"
    /\ Save(s, [ids |-> mem[s].ids \ o.drop, folded |-> mem[s].folded \ o.drop,
                tips |-> [mem[s].tips EXCEPT ![PruneBranch] = o.tip], cps |-> mem[s].cps])
    /\ UNCHANGED info
    /\ Proceed(s)

RunJob(s) ==
    /\ job[s] # <<>>
    /\ JobAppend(s) \/ JobBranch(s) \/ JobThrow(s) \/ JobNull(s) \/ JobCut(s)

-----------------------------------------------------------------------------
Next == \E s \in Server :
    \/ Start(s)
    \/ Stop(s)
    \/ \E b \in {Main, Session} : AppendTool(s, b)
    \/ \E name \in {Session}, from \in {Main} : BranchTool(s, name, from)
    \/ \E b \in Branch : \E F \in SUBSET Range(History(mem[s], b)) : Fold(s, b, F)
    \/ \E b \in Branch : Unfold(s, b)
    \/ StandardInit(s)
    \/ \E cutoff \in Entry : PruneAge(s, cutoff)
    \/ PruneLast(s)
    \/ RunJob(s)

Spec == Init /\ [][Next]_vars

-----------------------------------------------------------------------------
(* Properties of one server that has the file to itself.  The keep-last    *)
(* prune, which every server runs once a day, cuts chains in its memory    *)
(* that the file keeps whole: what is said below is said until then.       *)

(* What a server answers from memory between calls is what it would answer *)
(* after a restart: the same chains, folds and verification boundaries --  *)
(* as long as it has not called a keep-last prune since it started, and on *)
(* the branch that, the protected entries once cut off, a prune by age has *)
(* left empty (the file keeps its last tip: PersistedOnEveryWrite).        *)
RestartTransparent ==
    \A s \in Server \ trimmed : (Ready(s) /\ exists) =>
        \A b \in Branch : (trims => mem[s].tips[b] # null) =>
            /\ History(mem[s], b) = History(disk, b)
            /\ Checkpoints(mem[s], b) = Checkpoints(disk, b)
            /\ \A i \in Range(History(disk, b)) : i \in disk.folded <=> i \in mem[s].folded

(* A prune by age leaves the checkpoint list of its branch as it was, and  *)
(* copies folded content into entries whose hash covers the folded form:   *)
(* what is said of checkpoints and of unfolding is not true of its         *)
(* branches, nor of the archive a keep-last prune opens at their tip.      *)
Pruned == IF "prune_age" \in Tools THEN {PruneBranch, Archive, ArchiveLast} ELSE {}

(* erlVerify's comment "O(tail) not O(n)": on a branch that is appended to *)
(* the tail to verify stays shorter than the checkpoint interval, until    *)
(* the first keep-last prune.                                              *)
TailBounded ==
    ~trims => \A s \in Server : \A b \in DOMAIN mem[s].cps \ Pruned :
                 Len(VerifyTail(mem[s], b)) < Interval

(* The boundary erlVerify stops at is on the chain it verifies, so entries *)
(* older than it are the ones that checkpoint vouched for, until the first *)
(* keep-last prune.                                                        *)
CheckpointsOnChain ==
    ~trims => \A s \in Server : \A b \in DOMAIN mem[s].cps \ Pruned :
                 Range(mem[s].cps[b]) \subseteq Range(History(mem[s], b))

(* erl_unfold undoes erl_fold: afterwards the branch verifies again.       *)
UnfoldRestores ==
    [][\A s \in Server, b \in Branch \ Pruned : Unfold(s, b) => Verify(mem[s], b)']_vars

(* erl_prune of server.js: when it returns, the branch has the contents of *)
(* the young and the protected entries, in order, and the archive branch   *)
(* has the others.                                                         *)
PruneRebuilds ==
    \A s \in Server : (Ready(s) /\ promise[s] # NoPromise) =>
        /\ Payloads(History(mem[s], PruneBranch)) = promise[s].kept
        /\ promise[s].archived \subseteq Range(Payloads(History(mem[s], Archive)))

(* The bootstrap: erlStandardInit is idempotent, it never throws ...       *)
InitNeverFails == \A s \in Server : ~failed[s]

(* ... and in a server that has run it session_context has the server_init *)
(* and the system_prompt entry, exactly once, also after prunes by age;    *)
(* the first keep-last prune may cut them off (ProtectedNeverPruned).      *)
BootstrappedOnce ==
    ~trims => \A s \in Server : (Ready(s) /\ inited[s] /\ ~failed[s]) =>
        Cardinality({i \in Range(History(mem[s], Session)) : info[i].prot}) = 2

-----------------------------------------------------------------------------
(* Properties of the file, whoever saves and whoever dies between saves.   *)

(* Nothing is ever deleted from the file: what a keep-last prune deletes   *)
(* from its memory is merged back from the file by the very next save.     *)
FileOnlyGrows == [][disk.ids \subseteq disk'.ids]_vars

(* Every chain in the file is whole, so a restarted server walks each      *)
(* branch to a genesis entry, although the prunes cut chains in memory.    *)
ChainsWhole ==
    /\ \A i \in disk.ids : info[i].parent \in disk.ids \cup {null}
    /\ \A b \in Branch : disk.tips[b] > 0 => disk.tips[b] \in disk.ids

-----------------------------------------------------------------------------
(* What comments and tool descriptions say, stated as they say it.         *)

(* server.js:171: a checkpoint every CHECKPOINT_INTERVAL appends.          *)
CheckpointEveryInterval ==
    \A s \in Server : \A b \in DOMAIN mem[s].cps :
        LET cps == mem[s].cps[b] IN
        \A k \in 2..Len(cps) :
            Cardinality({i \in Range(History(mem[s], b)) : cps[k-1] < i /\ i <= cps[k]})
                = Interval

(* server.js:2031: folded entries remain in the chain, integrity preserved.*)
FoldKeepsIntegrity == \A s \in Server, b \in Branch : Verify(mem[s], b)

(* server.js:87: verification checks every hash of the full chain.         *)
VerifyCoversChain ==
    \A s \in Server, b \in Branch :
        Verify(mem[s], b) => \A i \in Range(History(mem[s], b)) : HashOK(mem[s], i)

(* server.js:148: the union of the entries of two servers is safe: nothing *)
(* but an unfold takes a fold back.                                        *)
UnionSafe ==
    [][disk.folded \subseteq disk'.folded \/ \E s \in Server, b \in Branch : Unfold(s, b)]_vars

(* server.js:2763: the auto-prune archives the entries older than the      *)
(* KeepLast newest, which it keeps.                                        *)
AutoPruneKeepsNewest ==
    [][\A s \in Server : (job[s] # <<>> /\ JobCut(s)) =>
         LET keepable == Only(History(mem[s], PruneBranch), Prunable)
         IN  Range(SubSeq(keepable, 1, KeepLast)) \subseteq
               Range(History(mem[s], PruneBranch)')]_vars

(* server-dos.js:1948: entries tagged server_init or system_prompt are     *)
(* never pruned.                                                           *)
ProtectedNeverPruned ==
    [][\A s \in Server : (job[s] # <<>> /\ JobCut(s)) =>
         {i \in Range(History(mem[s], PruneBranch)) : info[i].prot} \subseteq
           Range(History(mem[s], PruneBranch)')]_vars

(* server.js:86: the entire ledger is persisted on every write.            *)
PersistedOnEveryWrite == RestartTransparent
=============================================================================
