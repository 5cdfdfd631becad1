-------------------------- MODULE ErlLedgerProofs --------------------------
(***************************************************************************)
(* Proofs about ErlLedger, for any number of servers, ids and branches.    *)
(*                                                                         *)
(* The first part assumes nothing about faults: the constants              *)
(* DeadlinesExpire, Kills and ProxyRuns are arbitrary.  The inductive      *)
(* invariant says that every ledger value in the system -- on disk, in a   *)
(* server's memory, about to be written -- is closed but for what has been *)
(* pruned and contains only ids that exist, so that creating an id         *)
(* disturbs none of them.                                                  *)
(*                                                                         *)
(* The second part assumes that the lock is respected (no deadline, no     *)
(* kill, no proxy) and proves that the file implements DurableLedger.      *)
(***************************************************************************)
EXTENDS ErlLedger, TLAPS

SoundIn(L, par, ids, del) ==
    /\ L.entries \subseteq ids
    /\ \A i \in L.entries : par[i] \in L.entries \cup del \cup {NULL}
    /\ \A b \in Branch : L.tips[b] \in Id => L.tips[b] \in L.entries \cup del

Sound(L, del) == L.entries \subseteq used /\ ClosedBut(L, del)

(* The proxy has nothing to do with the file but append an entry.          *)
ProxyInv == pc[Proxy] \in Critical => cur[Proxy] \in Id

(* Every ledger value is closed but for what was deleted, and mentions     *)
(* only ids that exist.                                                    *)
Inv ==
    /\ TypeOK
    /\ Sound(file, gone)
    /\ \A s \in Server : Sound(mem[s], pruned[s] \cup gone)
    /\ \A p \in Process : Sound(out[p], gone)
    /\ ProxyInv

-----------------------------------------------------------------------------
(* The two ledgers a load can start from are ledgers, without entries.     *)
LEMMA FreshOK ==
    /\ FreshLedger \in Ledger /\ FreshLedger.entries = {}
    /\ BareLedger \in Ledger /\ BareLedger.entries = {}
    /\ \A b \in Branch : FreshLedger.tips[b] \notin Id /\ BareLedger.tips[b] \notin Id
BY ConstantsOK DEF FreshLedger, BareLedger, Ledger

(* A ledger with one more entry is a ledger.                               *)
LEMMA AddEntryOK ==
    ASSUME NEW L \in Ledger, NEW b \in Branch, NEW i \in Id
    PROVE  /\ AddEntry(L, b, i) \in Ledger
           /\ AddEntry(L, b, i).entries = L.entries \cup {i}
           /\ AddEntry(L, b, i).tips = [L.tips EXCEPT ![b] = i]
BY DEF AddEntry, Ledger

(* Merging two ledgers yields one that has all their entries and loses no  *)
(* tip: what erlSave writes.                                               *)
LEMMA MergeOK ==
    ASSUME NEW D \in Ledger, NEW O \in Ledger
    PROVE  /\ Merge(D, O) \in Ledger
           /\ Merge(D, O).entries = D.entries \cup O.entries
           /\ \A b \in Branch : D.tips[b] \in Id => Merge(D, O).tips[b] \in Id
           /\ \A b \in Branch : Merge(D, O).tips[b] \in {D.tips[b], O.tips[b]}
BY DEF Merge, Ledger

(* It is closed but for what either was not, when the entries it has again *)
(* are left out.                                                           *)
LEMMA MergeSound ==
    ASSUME NEW D \in Ledger, NEW O \in Ledger, NEW X, NEW Y,
           Sound(D, X), Sound(O, Y \cup X)
    PROVE  Sound(Merge(D, O), X \cup (Y \ Merge(D, O).entries))
BY MergeOK DEF Sound, ClosedBut

(* A ledger that is closed but for some entries is so but for more.        *)
LEMMA SoundGrows ==
    ASSUME NEW L, NEW X, NEW Y, X \subseteq Y, Sound(L, X)
    PROVE  Sound(L, Y)
BY DEF Sound, ClosedBut

(* Creating a new id, whatever its parent, keeps every other ledger sound. *)
LEMMA NewIdKeepsSound ==
    ASSUME NEW L \in Ledger, NEW par \in [Id -> Id \cup {NULL}], NEW ids \in SUBSET Id,
           NEW X, SoundIn(L, par, ids, X), NEW i \in Id \ ids, NEW x \in Id \cup {NULL}
    PROVE  SoundIn(L, [par EXCEPT ![i] = x], ids \cup {i}, X)
BY DEF SoundIn, Ledger

(* ... and the ledger that gets it, under its tip.                         *)
LEMMA AppendSound ==
    ASSUME NEW L \in Ledger, NEW par \in [Id -> Id \cup {NULL}], NEW ids \in SUBSET Id,
           NEW X, SoundIn(L, par, ids, X), NEW i \in Id \ ids, NEW b \in Branch
    PROVE  SoundIn(AddEntry(L, b, i), [par EXCEPT ![i] = TipOf(L, b)], ids \cup {i}, X)
<1> DEFINE A == AddEntry(L, b, i)
           P == [par EXCEPT ![i] = TipOf(L, b)]
<1>1. /\ A.entries = L.entries \cup {i}
      /\ A.tips = [L.tips EXCEPT ![b] = i]
      /\ L.tips \in [Branch -> Id \cup {NULL, Unset}]
      /\ L.entries \subseteq Id
  BY AddEntryOK DEF Ledger
<1>2. TipOf(L, b) \in L.entries \cup X \cup {NULL}
  BY DEF TipOf, SoundIn
<1>3. P[i] = TipOf(L, b) /\ \A j \in L.entries : P[j] = par[j]
  BY <1>1 DEF SoundIn, TipOf
<1> HIDE DEF A, P
<1>4. SoundIn(A, P, ids \cup {i}, X)
  BY <1>1, <1>2, <1>3 DEF SoundIn
<1>5. QED
  BY <1>4 DEF A, P

-----------------------------------------------------------------------------
(* The invariant holds of the initial state.                               *)
LEMMA InitInv == Init => Inv
<1> SUFFICES ASSUME Init PROVE Inv
  OBVIOUS
<1>1. TypeOK
  BY FreshOK, ConstantsOK DEF Init, TypeOK, Process
<1>2. Sound(FreshLedger, {})
  BY FreshOK DEF Sound, ClosedBut
<1>3. QED
  BY <1>1, <1>2, SoundGrows, ConstantsOK DEF Init, Inv, ProxyInv, Process, Critical

(* The proxy's own invariant: what it is about to write, and its entry.    *)
LEMMA ProxyNext == TypeOK /\ ProxyInv /\ [Next]_vars => ProxyInv'
<1> SUFFICES ASSUME TypeOK, ProxyInv, [Next]_vars PROVE ProxyInv'
  OBVIOUS
<1>t. /\ pc \in [Process -> {"down", "idle", "cut"} \cup Saving]
      /\ cur \in [Process -> Id \cup {NULL}]
      /\ Proxy \in Process /\ Proxy \notin Server
  BY ConstantsOK DEF TypeOK, Process
<1>1. ASSUME NEW s \in Server, ServerStep(s) PROVE ProxyInv'
  <2>1. pc'[Proxy] = pc[Proxy] /\ cur'[Proxy] = cur[Proxy]
    BY <1>1, <1>t DEF ServerStep, Load, Append, CreateBranch, Prune, Cut, SaveStep, Acquire, Refused,
         GiveUp, ReadAndMerge, Truncate, Write, Unlink, Exit, Kill, Over
  <2>2. QED
    BY <2>1 DEF ProxyInv
<1>2. CASE ProxyStep
  BY <1>2, <1>t DEF ProxyStep, ProxyRead, Truncate, ProxyWrite, ProxyKill, Over, ProxyInv, Critical
<1>3. CASE UNCHANGED vars
  BY <1>3 DEF vars, procVars, ProxyInv
<1>4. QED
  BY <1>1, <1>2, <1>3 DEF Next

(* A prune deletes entries of the memory, and what it keeps has a tip that *)
(* is one of them, or NULL.                                                *)
LEMMA CutDrops ==
    ASSUME NEW s \in Server, Cut(s), mem \in [Server -> Ledger],
           pruned \in [Server -> SUBSET Id]
    PROVE  /\ mem' \in [Server -> Ledger] /\ pruned' \in [Server -> SUBSET Id]
           /\ mem'[s].entries \subseteq mem[s].entries
           /\ mem[s].entries \subseteq mem'[s].entries \cup pruned'[s]
           /\ pruned[s] \subseteq pruned'[s]
           /\ pruned'[s] \subseteq pruned[s] \cup mem[s].entries
           /\ \A b \in Branch : \/ mem'[s].tips[b] = mem[s].tips[b]
                               \/ mem'[s].tips[b] \in mem[s].entries \cup {NULL}
           /\ \A t \in Server : t # s => mem'[t] = mem[t] /\ pruned'[t] = pruned[t]
<1> DEFINE tip == mem[s].tips[owed[s]]
           all == Chain(mem[s], tip)
           below(k) == IF k = NULL THEN all ELSE Chain(mem[s], k) \ {k}
           cut(k, drop) ==
             /\ mem' = [mem EXCEPT ![s] =
                   [entries |-> @.entries \ drop, tips |-> [@.tips EXCEPT ![owed[s]] = k]]]
             /\ pruned' = [pruned EXCEPT ![s] = @ \cup drop]
<1>1. \E k \in all \cup {NULL} : \E drop \in SUBSET below(k) : cut(k, drop)
  BY DEF Cut
<1>2. PICK k \in all \cup {NULL} : \E drop \in SUBSET below(k) : cut(k, drop)
  BY <1>1
<1>3. PICK drop \in SUBSET below(k) : cut(k, drop)
  BY <1>2
<1>4. \A i : Chain(mem[s], i) \subseteq mem[s].entries
  BY DEF Chain
<1>5. mem[s].entries \subseteq Id /\ mem[s].tips \in [Branch -> Id \cup {NULL, Unset}]
  BY DEF Ledger
<1>6. drop \subseteq mem[s].entries /\ k \in mem[s].entries \cup {NULL}
  BY <1>4
<1> HIDE DEF all, tip, below
<1>7. /\ mem'[s].entries = mem[s].entries \ drop
      /\ mem'[s].tips = [mem[s].tips EXCEPT ![owed[s]] = k]
      /\ pruned'[s] = pruned[s] \cup drop
      /\ \A t \in Server : t # s => mem'[t] = mem[t] /\ pruned'[t] = pruned[t]
  BY <1>3
<1>8. mem' \in [Server -> Ledger] /\ pruned' \in [Server -> SUBSET Id]
  BY <1>3, <1>5, <1>6 DEF Ledger
<1>9. \A b \in Branch : mem'[s].tips[b] = mem[s].tips[b] \/ mem'[s].tips[b] = k
  BY <1>5, <1>7
<1>10. QED
  BY <1>6, <1>7, <1>8, <1>9

(* Every step of every process preserves the invariant.                    *)
LEMMA NextInv == Inv /\ [Next]_vars => Inv'
<1> SUFFICES ASSUME Inv, [Next]_vars PROVE Inv'
  OBVIOUS
<1> USE DEF Inv
<1>t. /\ TypeOK /\ Proxy \in Process /\ Server \subseteq Process /\ Proxy \notin Server
      /\ parent \in [Id -> Id \cup {NULL}] /\ mem \in [Server -> Ledger]
      /\ out \in [Process -> Ledger] /\ file \in Ledger
      /\ pruned \in [Server -> SUBSET Id] /\ gone \in SUBSET Id
  BY ConstantsOK DEF TypeOK, Process
<1>p. ProxyInv'
  BY ProxyNext
<1>fresh. FreshLedger \in Ledger /\ \A X : Sound(FreshLedger, X)
  BY FreshOK DEF Sound, ClosedBut
<1>bare. BareLedger \in Ledger /\ \A X : Sound(BareLedger, X)
  BY FreshOK DEF Sound, ClosedBut
\* what is left to show when no id is created
<1>q. ASSUME UNCHANGED histVars, TypeOK', gone \subseteq gone',
             Sound(file', gone') \/ file' = file,
             \A s \in Server : \/ mem'[s] = mem[s] /\ pruned'[s] = pruned[s]
                              \/ Sound(mem'[s], pruned'[s] \cup gone'),
             \A p \in Process : out'[p] = out[p] \/ Sound(out'[p], gone')
      PROVE  Inv'
  <2>1. Sound(file', gone')
    BY <1>q, SoundGrows
  <2>2. ASSUME NEW s \in Server PROVE Sound(mem'[s], pruned'[s] \cup gone')
    <3>1. CASE mem'[s] = mem[s] /\ pruned'[s] = pruned[s]
      <4>1. pruned[s] \cup gone \subseteq pruned'[s] \cup gone' /\ Sound(mem[s], pruned[s] \cup gone)
        BY <1>q, <3>1
      <4> QED BY <3>1, <4>1, SoundGrows
    <3> QED BY <1>q, <3>1
  <2>3. ASSUME NEW p \in Process PROVE Sound(out'[p], gone')
    BY <1>q, SoundGrows
  <2>4. Sound(file, gone)' /\ \A s \in Server : Sound(mem[s], pruned[s] \cup gone)'
    BY <1>q, <2>1, <2>2 DEF Sound, ClosedBut, histVars
  <2>5. \A p \in Process : Sound(out[p], gone)'
    BY <1>q, <2>3 DEF Sound, ClosedBut, histVars
  <2>6. QED
    BY <1>q, <1>p, <2>4, <2>5
\* and when one is
<1>n. ASSUME NEW i \in Id, i \notin used, used' = used \cup {i}, TypeOK',
             NEW x \in Id \cup {NULL}, parent' = [parent EXCEPT ![i] = x],
             UNCHANGED <<file, pruned, gone>>,
             \A s \in Server : \/ mem'[s] = mem[s]
                              \/ SoundIn(mem'[s], parent', used', pruned[s] \cup gone),
             \A p \in Process : out'[p] = out[p] \/ SoundIn(out'[p], parent', used', gone)
      PROVE  Inv'
  <2>1. ASSUME NEW L \in Ledger, NEW X, Sound(L, X) PROVE SoundIn(L, parent', used', X)
    <3>1. SoundIn(L, parent, used, X)
      BY <2>1 DEF Sound, SoundIn, ClosedBut
    <3>2. used \in SUBSET Id /\ i \in Id \ used
      BY <1>n, <1>t DEF TypeOK
    <3> QED BY <1>n, <1>t, <3>1, <3>2, NewIdKeepsSound
  <2>2. SoundIn(file, parent', used', gone)
    BY <1>t, <2>1
  <2>3. \A s \in Server : SoundIn(mem'[s], parent', used', pruned[s] \cup gone)
    BY <1>n, <1>t, <2>1
  <2>4. \A p \in Process : SoundIn(out'[p], parent', used', gone)
    BY <1>n, <1>t, <2>1
  <2>5. Sound(file, gone)' /\ \A s \in Server : Sound(mem[s], pruned[s] \cup gone)'
    BY <1>n, <2>2, <2>3 DEF Sound, SoundIn, ClosedBut
  <2>6. \A p \in Process : Sound(out[p], gone)'
    BY <1>n, <2>4 DEF Sound, SoundIn, ClosedBut
  <2>7. QED
    BY <1>n, <1>p, <2>5, <2>6
<1>1. ASSUME NEW s \in Server, Load(s) PROVE Inv'
  <2>1. LoadsFrom \in Ledger /\ Sound(LoadsFrom, gone)
    BY <1>t, <1>fresh DEF LoadsFrom, OnDisk
  <2>2. TypeOK'
    BY <1>1, <1>t, <2>1 DEF Load, TypeOK, diskVars, histVars
  <2>3. Sound(mem'[s], pruned'[s] \cup gone')
    BY <1>1, <1>t, <2>1, SoundGrows DEF Load
  <2>4. QED
    BY <1>1, <1>t, <1>q, <2>2, <2>3 DEF Load, diskVars, histVars
<1>2. ASSUME NEW s \in Server, NEW b \in Branch, NEW i \in Id, Append(s, b, i)
      PROVE  Inv'
  <2>1. mem' = [mem EXCEPT ![s] = AddEntry(mem[s], b, i)] /\ AddEntry(mem[s], b, i) \in Ledger
    BY <1>2, <1>t, AddEntryOK DEF Append
  <2>2. TipOf(mem[s], b) \in Id \cup {NULL}
    BY DEF TipOf
  <2>3. TypeOK'
    BY <1>2, <1>t, <2>1, <2>2 DEF Append, TypeOK, diskVars, Saving, Spinning
  <2>4. /\ i \notin used /\ used' = used \cup {i}
        /\ parent' = [parent EXCEPT ![i] = TipOf(mem[s], b)]
        /\ UNCHANGED <<file, out, pruned, gone>>
    BY <1>2 DEF Append, diskVars
  <2>5. SoundIn(AddEntry(mem[s], b, i), parent', used', pruned[s] \cup gone)
    <3>1. SoundIn(mem[s], parent, used, pruned[s] \cup gone)
      BY <1>t DEF Sound, SoundIn, ClosedBut
    <3>2. mem[s] \in Ledger /\ used \in SUBSET Id /\ i \in Id \ used /\ b \in Branch
      BY <1>t, <2>4 DEF TypeOK
    <3>3. QED
      BY <1>t, <2>4, <3>1, <3>2, AppendSound
  <2>6. \A t \in Server : \/ mem'[t] = mem[t]
                         \/ SoundIn(mem'[t], parent', used', pruned[t] \cup gone)
    BY <1>t, <2>1, <2>5
  <2>7. QED
    BY <1>n, <2>2, <2>3, <2>4, <2>6
<1>3. ASSUME NEW s \in Server, NEW name \in Branch, NEW from \in Branch,
             NEW L, L = [mem[s] EXCEPT !.tips[name] = TipOf(mem[s], from)]
      PROVE  L \in Ledger /\ Sound(L, pruned[s] \cup gone)
  <2>1. TipOf(mem[s], from) \in mem[s].entries \cup pruned[s] \cup gone \cup {NULL}
    BY <1>t DEF Sound, ClosedBut, TipOf
  <2>2. /\ L \in Ledger /\ L.entries = mem[s].entries
        /\ L.tips = [mem[s].tips EXCEPT ![name] = TipOf(mem[s], from)]
    BY <1>3, <1>t, <2>1 DEF Ledger
  <2>3. QED
    BY <2>1, <2>2, <1>t, ConstantsOK DEF Sound, ClosedBut, Ledger
<1>4. ASSUME NEW s \in Server, NEW name \in Branch, NEW from \in Branch,
             CreateBranch(s, name, from)
      PROVE  Inv'
  <2>1. /\ mem' = [mem EXCEPT ![s] = [mem[s] EXCEPT !.tips[name] = TipOf(mem[s], from)]]
        /\ UNCHANGED <<file, out, pruned, gone, parent, used>>
    BY <1>4, <1>t DEF CreateBranch, diskVars, histVars, Ledger
  <2>2. mem'[s] \in Ledger /\ Sound(mem'[s], pruned[s] \cup gone)
    BY <1>3, <1>t, <2>1
  <2>3. TypeOK'
    BY <1>4, <2>1, <2>2, <1>t DEF CreateBranch, TypeOK, diskVars, histVars, Saving, Spinning
  <2>4. QED
    BY <1>q, <1>t, <2>1, <2>2, <2>3 DEF histVars
<1>5. ASSUME NEW s \in Server, NEW b \in Branch, Prune(s, b) PROVE Inv'
  <2>1. CASE pc' = [pc EXCEPT ![s] = "spin"] /\ touched' = [touched EXCEPT ![s] = Archive]
               /\ mem' = [mem EXCEPT ![s].tips[Archive] = TipOf(mem[s], b)]
    <3>1. /\ mem' = [mem EXCEPT ![s] = [mem[s] EXCEPT !.tips[Archive] = TipOf(mem[s], b)]]
          /\ UNCHANGED <<file, out, pruned, gone, parent, used>> /\ Archive \in Branch
      BY <1>5, <1>t, <2>1, ConstantsOK DEF Prune, diskVars, histVars, Ledger
    <3>2. mem'[s] \in Ledger /\ Sound(mem'[s], pruned[s] \cup gone)
      BY <1>3, <1>t, <3>1
    <3>3. TypeOK'
      BY <1>5, <2>1, <3>1, <3>2, <1>t DEF Prune, TypeOK, diskVars, histVars, Saving, Spinning
    <3>4. QED
      BY <1>q, <1>t, <3>1, <3>2, <3>3 DEF histVars
  <2>2. CASE pc' = [pc EXCEPT ![s] = "cut"] /\ UNCHANGED <<mem, touched>>
    <3>1. TypeOK'
      BY <1>5, <2>2, <1>t DEF Prune, TypeOK, diskVars, histVars
    <3>2. QED
      BY <1>5, <1>q, <2>2, <3>1 DEF Prune, diskVars, histVars
  <2>3. QED
    BY <1>5, <2>1, <2>2 DEF Prune
<1>6. ASSUME NEW s \in Server, Cut(s) PROVE Inv'
  <2>6. /\ mem' \in [Server -> Ledger] /\ pruned' \in [Server -> SUBSET Id]
        /\ mem'[s].entries \subseteq mem[s].entries
        /\ mem[s].entries \subseteq mem'[s].entries \cup pruned'[s]
        /\ pruned[s] \subseteq pruned'[s]
        /\ \A b \in Branch : \/ mem'[s].tips[b] = mem[s].tips[b]
                            \/ mem'[s].tips[b] \in mem[s].entries \cup {NULL}
        /\ \A t \in Server : t # s => mem'[t] = mem[t] /\ pruned'[t] = pruned[t]
    BY <1>6, <1>t, CutDrops
  <2>7. Sound(mem'[s], pruned'[s] \cup gone)
    <3>1. Sound(mem[s], pruned[s] \cup gone) /\ NULL \notin Id
      BY <1>t, ConstantsOK
    <3>2. QED
      BY <2>6, <3>1 DEF Sound, ClosedBut
  <2>8. UNCHANGED <<file, out, gone, histVars>>
    BY <1>6 DEF Cut, diskVars
  <2>9. TypeOK'
    BY <1>6, <2>6, <1>t DEF Cut, TypeOK, diskVars, histVars, Saving, Spinning
  <2>10. QED
    BY <1>q, <2>6, <2>7, <2>8, <2>9
<1>7. ASSUME NEW s \in Server, SaveStep(s) PROVE Inv'
  <2>1. CASE Acquire(s) \/ Refused(s) \/ GiveUp(s) \/ Unlink(s)
    <3>1. TypeOK'
      BY <2>1, <1>t, <1>fresh DEF Acquire, Refused, GiveUp, Unlink, Over, TypeOK, diskVars,
                        histVars, Saving, Spinning, Critical
    <3>2. \A p \in Process : out'[p] = out[p] \/ out'[p] = FreshLedger
      BY <2>1, <1>t DEF Acquire, Refused, GiveUp, Unlink, Over
    <3>3. QED
      BY <2>1, <3>1, <3>2, <1>q, <1>fresh DEF Acquire, Refused, GiveUp, Unlink, diskVars, histVars
  <2>2. CASE ReadAndMerge(s)
    <3> DEFINE W == IF fstate = "ok" THEN Merge(file, mem[s]) ELSE mem[s]
    <3>1. /\ out' = [out EXCEPT ![s] = W] /\ gone' = gone \cup (pruned[s] \ W.entries)
          /\ UNCHANGED <<file, mem, pruned, histVars>>
      BY <2>2, <1>t DEF ReadAndMerge, diskVars
    <3>2. W \in Ledger /\ Sound(W, gone \cup (pruned[s] \ W.entries))
      <4>1. CASE fstate = "ok"
        BY <4>1, <1>t, MergeOK, MergeSound
      <4>2. CASE fstate # "ok"
        BY <4>2, <1>t DEF Sound, ClosedBut
      <4>3. QED
        BY <4>1, <4>2
    <3> HIDE DEF W
    <3>3. /\ gone \subseteq gone' /\ gone' \subseteq Id /\ out' \in [Process -> Ledger]
          /\ Sound(out'[s], gone') /\ \A p \in Process : p # s => out'[p] = out[p]
      BY <3>1, <3>2, <1>t
    <3>4. TypeOK'
      BY <2>2, <3>3, <1>t DEF ReadAndMerge, TypeOK, diskVars, histVars, Saving, Critical
    <3>5. QED
      BY <1>q, <3>1, <3>3, <3>4
  <2>3. CASE Truncate(s)
    <3>1. TypeOK'
      BY <2>3, <1>t DEF Truncate, TypeOK, histVars, Saving, Critical
    <3>2. QED
      BY <2>3, <3>1, <1>q DEF Truncate
  <2>4. CASE Write(s)
    <3>1. TypeOK'
      BY <2>4, <1>t, <1>fresh DEF Write, PutBytes, TypeOK, histVars, Saving, Critical
    <3>2. Sound(file', gone) /\ \A p \in Process : out'[p] = out[p] \/ out'[p] = FreshLedger
      BY <2>4, <1>t DEF Write, PutBytes
    <3>3. QED
      BY <2>4, <3>1, <3>2, <1>q, <1>fresh DEF Write, histVars
  <2>5. QED
    BY <1>7, <2>1, <2>2, <2>3, <2>4 DEF SaveStep
<1>8. ASSUME NEW s \in Server, Exit(s) \/ Kill(s) PROVE Inv'
  <2>1. TypeOK'
    BY <1>8, <1>t, <1>fresh DEF Exit, Kill, Over, TypeOK, diskVars, histVars
  <2>2. /\ UNCHANGED <<file, gone, histVars>>
        /\ mem'[s] = FreshLedger
        /\ \A t \in Server : t # s => mem'[t] = mem[t] /\ pruned'[t] = pruned[t]
        /\ \A p \in Process : out'[p] = out[p] \/ out'[p] = FreshLedger
    BY <1>8, <1>t DEF Exit, Kill, Over, diskVars
  <2>3. QED
    BY <2>1, <2>2, <1>q, <1>fresh
<1>9. ASSUME NEW i \in Id, ProxyRead(i) PROVE Inv'
  <2> DEFINE L == OnDisk(BareLedger)
  <2>1. L \in Ledger /\ Sound(L, gone) /\ Coord \in Branch
    BY <1>t, <1>bare, ConstantsOK DEF OnDisk
  <2>2. AddEntry(L, Coord, i) \in Ledger /\ TipOf(L, Coord) \in Id \cup {NULL}
    BY <2>1, AddEntryOK DEF TipOf
  <2>3. /\ i \notin used /\ used' = used \cup {i}
        /\ parent' = [parent EXCEPT ![i] = TipOf(L, Coord)]
        /\ out' = [out EXCEPT ![Proxy] = AddEntry(L, Coord, i)]
        /\ UNCHANGED <<fstate, file, lock, mem, owed, acked, events, pruned, gone>>
    BY <1>9 DEF ProxyRead, diskVars
  <2> HIDE DEF L
  <2>4. TypeOK'
    <3>1. /\ cur' = [cur EXCEPT ![Proxy] = i]
          /\ touched' = [touched EXCEPT ![Proxy] = Coord]
          /\ pc' = [pc EXCEPT ![Proxy] = "trunc"]
      BY <1>9 DEF ProxyRead
    <3>2. QED
      BY <3>1, <1>t, <2>1, <2>2, <2>3 DEF TypeOK, Saving, Critical
  <2>5. SoundIn(AddEntry(L, Coord, i), parent', used', gone)
    <3>1. SoundIn(L, parent, used, gone)
      BY <1>t, <2>1 DEF Sound, SoundIn, ClosedBut
    <3>2. L \in Ledger /\ used \in SUBSET Id /\ i \in Id \ used /\ Coord \in Branch
      BY <1>t, <2>1, <2>3 DEF TypeOK
    <3>3. QED
      BY <1>t, <2>3, <3>1, <3>2, AppendSound
  <2>6. \A p \in Process : out'[p] = out[p] \/ SoundIn(out'[p], parent', used', gone)
    BY <1>t, <2>3, <2>5
  <2>7. QED
    BY <1>n, <2>2, <2>3, <2>4, <2>6
<1>12. CASE Truncate(Proxy)
  <2>1. TypeOK'
    BY <1>12, <1>t DEF Truncate, TypeOK, histVars, Saving, Critical
  <2>2. QED
    BY <1>12, <2>1, <1>q DEF Truncate
<1>13. CASE ProxyWrite
  <2>1. TypeOK'
    BY <1>13, <1>t, <1>fresh DEF ProxyWrite, PutBytes, Over, TypeOK, ProxyInv, histVars, Critical
  <2>2. Sound(file', gone) /\ \A p \in Process : out'[p] = out[p] \/ out'[p] = FreshLedger
    BY <1>13, <1>t DEF ProxyWrite, PutBytes, Over
  <2>3. QED
    BY <1>13, <2>1, <2>2, <1>q, <1>fresh DEF ProxyWrite, histVars
<1>14. CASE ProxyKill
  <2>1. TypeOK'
    BY <1>14, <1>t, <1>fresh DEF ProxyKill, Over, TypeOK, diskVars, histVars
  <2>2. \A p \in Process : out'[p] = out[p] \/ out'[p] = FreshLedger
    BY <1>14, <1>t DEF ProxyKill, Over
  <2>3. QED
    BY <1>14, <2>1, <2>2, <1>q, <1>fresh DEF ProxyKill, diskVars, histVars
<1>10. CASE UNCHANGED vars
  <2>1. TypeOK'
    BY <1>10, <1>t DEF vars, TypeOK, diskVars, histVars, procVars
  <2>2. QED
    BY <1>10, <2>1, <1>q DEF vars, diskVars, histVars, procVars
<1>11. QED
  BY <1>1, <1>2, <1>4, <1>5, <1>6, <1>7, <1>8, <1>9, <1>10, <1>12, <1>13, <1>14
     DEF Next, ServerStep, ProxyStep

(* TypeOK: the shape of every variable, in every reachable state.          *)
THEOREM TypeCorrect == Spec => []TypeOK
<1>1. Inv => TypeOK
  BY DEF Inv
<1>2. QED
  BY InitInv, NextInv, <1>1, PTL DEF Spec

(* Whatever deadlines expire, processes die or write without the lock, a   *)
(* file that parses has no dangling parentId or branch tip, but for entries*)
(* a server had pruned from the memory that a save of its wrote without    *)
(* them.                                                                   *)
THEOREM DiskAlwaysClosed == Spec => []DiskClosed
<1>1. Inv => DiskClosed
  BY DEF Inv, Sound, DiskClosed
<1>2. QED
  BY InitInv, NextInv, <1>1, PTL DEF Spec

(* Neither has any server's memory, but for those and what it has pruned   *)
(* itself since it was started.                                            *)
THEOREM MemAlwaysClosed == Spec => []MemClosed
<1>1. Inv => MemClosed
  BY DEF Inv, Sound, MemClosed
<1>2. QED
  BY InitInv, NextInv, <1>1, PTL DEF Spec

-----------------------------------------------------------------------------
(* The servers alone, when no deadline expires and nothing is killed.      *)

NoFaults == ~DeadlinesExpire /\ ~Kills /\ ~ProxyRuns

\* L has the entries of M and a tip for every branch that has one in M
Extends(L, M) ==
    /\ M.entries \subseteq L.entries
    /\ \A b \in Branch : M.tips[b] \in Id => L.tips[b] \in Id

(* Who is past the lock owns it, the file is torn exactly while its owner  *)
(* writes, and what is about to be written extends what is on disk.        *)
LockInv ==
    /\ pc[Proxy] = "idle"
    /\ \A s \in Server : pc[s] \in Critical => lock = s
FileInv ==
    /\ fstate = "torn" => \E s \in Server : pc[s] = "write"
    /\ fstate = "absent" => file.entries = {} /\ \A b \in Branch : file.tips[b] \notin Id
    /\ \A s \in Server : pc[s] = "write" => fstate = "torn"
SaveInv ==
    /\ \A s \in Server : pc[s] \in {"trunc", "write"} =>
          Extends(out[s], file) /\ mem[s].entries \subseteq out[s].entries
    /\ \A s \in Server : pc[s] \in {"idle", "unlink", "cut"} => mem[s].entries \subseteq file.entries
    /\ \A s \in Server : cur[s] \in mem[s].entries \cup {NULL}
    /\ \A s \in Server : pc[s] \in {"idle", "down", "cut"} => cur[s] = NULL
    /\ acked \subseteq file.entries

(* What is pruned is only pruned from memory: the file has it, and the next*)
(* merge finds it there.                                                   *)
PruneInv ==
    /\ gone = {}
    /\ \A s \in Server : pruned[s] \subseteq file.entries

SafeInv == LockInv /\ FileInv /\ SaveInv /\ PruneInv

(* Without faults: the lock, file and save invariants hold initially ...   *)
LEMMA SafeInit == Init => SafeInv
BY FreshOK, ConstantsOK
   DEF Init, SafeInv, LockInv, FileInv, SaveInv, PruneInv, Process, Critical, Saving, FreshLedger

(* The proxy does nothing when it does not run.                            *)
LEMMA NoProxyStep ==
    ASSUME NoFaults, LockInv PROVE ~ProxyStep
BY DEF NoFaults, LockInv, ProxyStep, ProxyRead, Truncate, ProxyWrite, ProxyKill, Critical

(* A complete file is only replaced by one that extends it, and no entry   *)
(* leaves a server's memory that the file does not have.                   *)
LEMMA SafeNext ==
    ASSUME NoFaults, Inv, SafeInv, [Next]_vars
    PROVE  SafeInv'
<1>t. /\ pc \in [Process -> {"down", "idle", "cut"} \cup Saving]
      /\ cur \in [Process -> Id \cup {NULL}]
      /\ out \in [Process -> Ledger] /\ mem \in [Server -> Ledger] /\ file \in Ledger
      /\ lock \in Server \cup {NULL} /\ pruned \in [Server -> SUBSET Id]
      /\ Proxy \notin Server /\ Proxy \in Process /\ Server \subseteq Process
      /\ NULL \notin Id /\ NULL \notin Server
  BY ConstantsOK DEF Inv, TypeOK, Process
<1>i. LockInv /\ FileInv /\ SaveInv /\ PruneInv
  BY DEF SafeInv
<1>1. ASSUME NEW s \in Server, Load(s) PROVE SafeInv'
  <2>1. /\ mem' = [mem EXCEPT ![s] = LoadsFrom] /\ pc' = [pc EXCEPT ![s] = "idle"]
        /\ UNCHANGED <<fstate, file, lock, out, cur, acked, pruned, gone>> /\ pc[s] = "down"
    BY <1>1 DEF Load, diskVars
  <2>2. LoadsFrom.entries \subseteq file.entries
    BY FreshOK DEF LoadsFrom, OnDisk
  <2>3. LockInv' /\ FileInv' /\ PruneInv'
    BY <2>1, <1>t, <1>i DEF LockInv, FileInv, PruneInv, Critical
  <2>4. SaveInv'
    BY <2>1, <2>2, <1>t, <1>i DEF SaveInv, Extends
  <2>5. QED
    BY <2>3, <2>4 DEF SafeInv
<1>2. ASSUME NEW s \in Server, NEW b \in Branch, NEW i \in Id, Append(s, b, i)
      PROVE  SafeInv'
  <2>1. /\ pc[s] = "idle" /\ pc' = [pc EXCEPT ![s] = "spin"]
        /\ mem' = [mem EXCEPT ![s] = AddEntry(mem[s], b, i)]
        /\ cur' = [cur EXCEPT ![s] = i]
        /\ UNCHANGED <<fstate, file, lock, out, acked, pruned, gone>>
    BY <1>2 DEF Append, diskVars
  <2>2. AddEntry(mem[s], b, i).entries = mem[s].entries \cup {i}
    BY <1>t, AddEntryOK
  <2>3. LockInv' /\ FileInv' /\ PruneInv'
    BY <2>1, <1>t, <1>i DEF LockInv, FileInv, PruneInv, Critical
  <2>4. SaveInv'
    BY <2>1, <2>2, <1>t, <1>i DEF SaveInv, Extends
  <2>5. QED
    BY <2>3, <2>4 DEF SafeInv
<1>3. ASSUME NEW s \in Server, NEW name \in Branch, NEW from \in Branch,
             CreateBranch(s, name, from)
      PROVE  SafeInv'
  <2>1. /\ pc[s] = "idle" /\ pc' = [pc EXCEPT ![s] = "spin"]
        /\ \A t \in Server : mem'[t].entries = mem[t].entries
        /\ UNCHANGED <<fstate, file, lock, out, cur, acked, pruned, gone>>
    BY <1>3, <1>t DEF CreateBranch, diskVars, Ledger
  <2>2. LockInv' /\ FileInv' /\ PruneInv'
    BY <2>1, <1>t, <1>i DEF LockInv, FileInv, PruneInv, Critical
  <2>3. SaveInv'
    BY <2>1, <1>t, <1>i DEF SaveInv, Extends
  <2>4. QED
    BY <2>2, <2>3 DEF SafeInv
<1>14. ASSUME NEW s \in Server, NEW b \in Branch, Prune(s, b) PROVE SafeInv'
  <2>1. /\ pc[s] = "idle" /\ pc'[s] \in {"spin", "cut"}
        /\ \A p \in Process : p # s => pc'[p] = pc[p]
        /\ \A t \in Server : mem'[t].entries = mem[t].entries
        /\ UNCHANGED <<fstate, file, lock, out, cur, acked, pruned, gone>>
    <3>1. CASE /\ mem' = [mem EXCEPT ![s].tips[Archive] = TipOf(mem[s], b)]
               /\ pc' = [pc EXCEPT ![s] = "spin"]
      BY <1>14, <1>t, <3>1 DEF Prune, diskVars, Ledger
    <3>2. CASE pc' = [pc EXCEPT ![s] = "cut"] /\ UNCHANGED mem
      BY <1>14, <1>t, <3>2 DEF Prune, diskVars
    <3> QED BY <1>14, <3>1, <3>2 DEF Prune
  <2>2. LockInv' /\ FileInv' /\ PruneInv'
    BY <2>1, <1>t, <1>i DEF LockInv, FileInv, PruneInv, Critical
  <2>3. SaveInv'
    BY <2>1, <1>t, <1>i DEF SaveInv, Extends
  <2>4. QED
    BY <2>2, <2>3 DEF SafeInv
<1>15. ASSUME NEW s \in Server, Cut(s) PROVE SafeInv'
  <2>1. /\ pc[s] = "cut" /\ pc' = [pc EXCEPT ![s] = "spin"]
        /\ UNCHANGED <<fstate, file, lock, out, cur, acked, gone>>
    BY <1>15 DEF Cut, diskVars
  <2>2. mem[s].entries \subseteq file.entries /\ cur[s] = NULL
    BY <2>1, <1>i DEF SaveInv
  <2>3. /\ mem'[s].entries \subseteq mem[s].entries
        /\ pruned'[s] \subseteq pruned[s] \cup mem[s].entries
        /\ \A t \in Server : t # s => mem'[t] = mem[t] /\ pruned'[t] = pruned[t]
    BY <1>15, <1>t, CutDrops
  <2>4. LockInv' /\ FileInv'
    BY <2>1, <1>t, <1>i DEF LockInv, FileInv, Critical
  <2>5. PruneInv'
    BY <2>1, <2>2, <2>3, <1>t, <1>i DEF PruneInv
  <2>6. SaveInv'
    BY <2>1, <2>2, <2>3, <1>t, <1>i DEF SaveInv, Extends
  <2>7. QED
    BY <2>4, <2>5, <2>6 DEF SafeInv
<1>4. ASSUME NEW s \in Server, Acquire(s) PROVE SafeInv'
  <2>1. /\ pc[s] \in Spinning /\ lock = NULL /\ lock' = s
        /\ pc' = [pc EXCEPT ![s] = "read"]
        /\ UNCHANGED <<fstate, file, mem, out, cur, acked, pruned, gone>>
    BY <1>4 DEF Acquire, LockFree
  <2>2. LockInv'
    BY <2>1, <1>t, <1>i DEF LockInv, Critical
  <2>3. FileInv' /\ SaveInv' /\ PruneInv'
    BY <2>1, <1>t, <1>i DEF FileInv, SaveInv, PruneInv, Extends, Spinning
  <2>4. QED
    BY <2>2, <2>3 DEF SafeInv
<1>5. ASSUME NEW s \in Server, Refused(s) PROVE SafeInv'
  BY <1>5, <1>t, <1>i
     DEF Refused, diskVars, SafeInv, LockInv, FileInv, SaveInv, PruneInv, Extends, Critical
<1>6. ASSUME NEW s \in Server, GiveUp(s) \/ Kill(s) PROVE SafeInv'
  BY <1>6 DEF GiveUp, Kill, NoFaults
<1>7. ASSUME NEW s \in Server, ReadAndMerge(s) PROVE SafeInv'
  <2>1. /\ pc[s] = "read" /\ pc' = [pc EXCEPT ![s] = "trunc"]
        /\ out' = [out EXCEPT ![s] = IF fstate = "ok" THEN Merge(file, mem[s]) ELSE mem[s]]
        /\ gone' = gone \cup (pruned[s] \ out'[s].entries)
        /\ UNCHANGED <<fstate, file, lock, mem, cur, acked, pruned>>
    BY <1>7 DEF ReadAndMerge, diskVars
  <2>2. fstate # "torn"
    BY <2>1, <1>t, <1>i DEF LockInv, FileInv, Critical
  <2>3. fstate \in {"absent", "torn", "ok"}
    BY DEF Inv, TypeOK
  <2>4. Extends(out'[s], file) /\ mem[s].entries \subseteq out'[s].entries
    <3>1. CASE fstate = "ok"
      BY <3>1, <2>1, <1>t, MergeOK DEF Extends
    <3>2. CASE fstate = "absent"
      BY <3>2, <2>1, <1>t, <1>i DEF Extends, FileInv
    <3>3. QED
      BY <3>1, <3>2, <2>2, <2>3
  <2>5. LockInv' /\ FileInv'
    BY <2>1, <1>t, <1>i DEF LockInv, FileInv, Critical
  <2>8. PruneInv'
    <3>1. file.entries \subseteq out'[s].entries
      BY <2>4 DEF Extends
    <3> QED BY <2>1, <3>1, <1>i DEF PruneInv
  <2>6. SaveInv'
    BY <2>1, <2>4, <1>t, <1>i DEF SaveInv, Extends
  <2>7. QED
    BY <2>5, <2>6, <2>8 DEF SafeInv
<1>8. ASSUME NEW s \in Server, Truncate(s) PROVE SafeInv'
  <2>1. /\ pc[s] = "trunc" /\ pc' = [pc EXCEPT ![s] = "write"] /\ fstate' = "torn"
        /\ UNCHANGED <<file, lock, mem, out, cur, acked, pruned, gone>>
    BY <1>8 DEF Truncate
  <2>2. LockInv' /\ FileInv' /\ PruneInv'
    BY <2>1, <1>t, <1>i DEF LockInv, FileInv, PruneInv, Critical
  <2>3. SaveInv'
    BY <2>1, <1>t, <1>i DEF SaveInv, Extends
  <2>4. QED
    BY <2>2, <2>3 DEF SafeInv
<1>9. ASSUME NEW s \in Server, Write(s) PROVE SafeInv'
  <2>1. /\ pc[s] = "write" /\ pc' = [pc EXCEPT ![s] = "unlink"]
        /\ UNCHANGED <<lock, mem, cur, acked, pruned, gone>>
        /\ out' = [out EXCEPT ![s] = FreshLedger]
    BY <1>9 DEF Write
  <2>2. fstate' = "ok" /\ file' = out[s]
    BY <1>9, <2>1, <1>i DEF Write, PutBytes, FileInv
  <2>3. Extends(out[s], file) /\ mem[s].entries \subseteq out[s].entries
    BY <2>1, <1>i DEF SaveInv
  <2>4. \A t \in Server : t # s => pc[t] \notin Critical
    BY <2>1, <1>i DEF LockInv, Critical
  <2>5. LockInv' /\ FileInv' /\ PruneInv'
    BY <2>1, <2>2, <2>3, <2>4, <1>t, <1>i DEF LockInv, FileInv, PruneInv, Extends, Critical
  <2>6. SaveInv'
    BY <2>1, <2>2, <2>3, <2>4, <1>t, <1>i DEF SaveInv, Extends, Critical
  <2>7. QED
    BY <2>5, <2>6 DEF SafeInv
<1>10. ASSUME NEW s \in Server, Unlink(s) PROVE SafeInv'
  <2>1. /\ pc[s] = "unlink" /\ pc'[s] \in {"idle", "cut"} /\ lock' = NULL
        /\ \A p \in Process : p # s => pc'[p] = pc[p] /\ out'[p] = out[p]
        /\ acked' = IF cur[s] = NULL THEN acked ELSE acked \cup {cur[s]}
        /\ cur' = [cur EXCEPT ![s] = NULL]
        /\ UNCHANGED <<fstate, file, mem, pruned, gone>>
    BY <1>10, <1>t DEF Unlink, Over
  <2>2. \A t \in Server : t # s => pc[t] \notin Critical
    BY <2>1, <1>i DEF LockInv, Critical
  <2>3. LockInv' /\ FileInv' /\ PruneInv'
    BY <2>1, <2>2, <1>t, <1>i DEF LockInv, FileInv, PruneInv, Critical
  <2>4. SaveInv'
    BY <2>1, <1>t, <1>i DEF SaveInv, Extends
  <2>5. QED
    BY <2>3, <2>4 DEF SafeInv
<1>11. ASSUME NEW s \in Server, Exit(s) PROVE SafeInv'
  <2>1. /\ pc[s] = "idle" /\ pc' = [pc EXCEPT ![s] = "down"]
        /\ mem' = [mem EXCEPT ![s] = FreshLedger]
        /\ pruned' = [pruned EXCEPT ![s] = {}]
        /\ UNCHANGED <<fstate, file, lock, out, cur, acked, gone>>
    BY <1>11 DEF Exit, diskVars
  <2>2. LockInv' /\ FileInv' /\ PruneInv'
    BY <2>1, <1>t, <1>i DEF LockInv, FileInv, PruneInv, Critical
  <2>3. SaveInv'
    BY <2>1, <1>t, <1>i, FreshOK DEF SaveInv, Extends
  <2>4. QED
    BY <2>2, <2>3 DEF SafeInv
<1>12. CASE UNCHANGED vars
  BY <1>12, <1>i DEF vars, diskVars, procVars, SafeInv, LockInv, FileInv, SaveInv, PruneInv, Extends
<1>13. QED
  BY <1>1, <1>2, <1>3, <1>4, <1>5, <1>6, <1>7, <1>8, <1>9, <1>10, <1>11, <1>12, <1>14, <1>15, <1>i, NoProxyStep
     DEF Next, ServerStep, SaveStep

(* ... and in every reachable state.                                       *)
LEMMA SafeAlways == ASSUME NoFaults PROVE Spec => [](Inv /\ SafeInv)
<1>1. Init => Inv /\ SafeInv
  BY InitInv, SafeInit
<1>2. Inv /\ SafeInv /\ [Next]_vars => (Inv /\ SafeInv)'
  BY NextInv, SafeNext
<1>3. QED
  BY <1>1, <1>2, PTL DEF Spec

(* The lock excludes: two servers are never past it together.              *)
THEOREM LockExcludes == ASSUME NoFaults PROVE Spec => []MutualExclusion
<1>1. SafeInv => MutualExclusion
  BY DEF SafeInv, LockInv, MutualExclusion
<1>2. QED
  BY SafeAlways, <1>1, PTL

(* No acknowledged entry of either server is ever lost from the file.      *)
THEOREM AckedNeverLost == ASSUME NoFaults PROVE Spec => []AckedDurable
<1>1. SafeInv => AckedDurable
  BY DEF SafeInv, SaveInv, AckedDurable
<1>2. QED
  BY SafeAlways, <1>1, PTL

(* A server that is idle has everything it knows on disk.                  *)
THEOREM IdleAlwaysSynced == ASSUME NoFaults PROVE Spec => []IdleSynced
<1>1. SafeInv => IdleSynced
  BY DEF SafeInv, SaveInv, IdleSynced
<1>2. QED
  BY SafeAlways, <1>1, PTL

-----------------------------------------------------------------------------
(* Refinement: a step that changes the file is a commit of DurableLedger,  *)
(* every other step leaves the durable ledger as it is.                    *)

(* A step without faults commits, or changes nothing of the abstract       *)
(* ledger.                                                                 *)
LEMMA DurableStep ==
    ASSUME NoFaults, Inv, SafeInv, [Next]_vars, Inv', SafeInv'
    PROVE  [Durable!Commit]_(Durable!vars)
<1>t. /\ file \in Ledger /\ parent \in [Id -> Id \cup {NULL}]
      /\ file.entries \subseteq used
      /\ NULL \notin Id
  BY ConstantsOK DEF Inv, TypeOK, Sound
\* no step changes the parent of an entry on disk
<1>1. \A i \in file.entries : parent'[i] = parent[i]
  <2>1. CASE \E s \in Server, b \in Branch, i \in Id : Append(s, b, i)
    BY <2>1, <1>t DEF Append, Ledger
  <2>2. CASE \E i \in Id : ProxyRead(i)
    BY <2>2 DEF ProxyRead, NoFaults
  <2>3. CASE parent' = parent
    BY <2>3
  <2>4. parent' = parent \/ (\E s \in Server, b \in Branch, i \in Id : Append(s, b, i))
                         \/ (\E i \in Id : ProxyRead(i))
    BY DEF Next, ServerStep, SaveStep, ProxyStep, Load, CreateBranch, Prune, Cut, Acquire, Refused,
           GiveUp, ReadAndMerge, Truncate, Write, Unlink, Exit, Kill, ProxyWrite,
           ProxyKill, vars, histVars
  <2>5. QED
    BY <2>1, <2>2, <2>3, <2>4
\* the file changes only by a write that extends it
<1>2. Extends(file', file)
  <2>1. CASE \E s \in Server : Write(s)
    <3>1. PICK s \in Server : Write(s)
      BY <2>1
    <3>2. pc[s] = "write" /\ file' = out[s]
      BY <3>1 DEF Write, PutBytes, SafeInv, FileInv
    <3>3. QED
      BY <3>2 DEF SafeInv, SaveInv
  <2>2. CASE file' = file
    BY <2>2 DEF Extends
  <2>3. file' = file \/ (\E s \in Server : Write(s)) \/ ProxyStep
    BY DEF Next, ServerStep, SaveStep, Load, Append, CreateBranch, Prune, Cut, Acquire, Refused,
           GiveUp, ReadAndMerge, Truncate, Unlink, Exit, Kill, vars, diskVars
  <2>4. QED
    BY <2>1, <2>2, <2>3, NoProxyStep DEF SafeInv
\* and stays closed
<1>3. ClosedBut(file, {})'
  BY DEF Inv, Sound, SafeInv, PruneInv
<1>4. Durable!Immutable
  BY <1>1, <1>2 DEF Durable!Immutable, Extends
<1>5. Durable!BranchesKept
  BY <1>2 DEF Durable!BranchesKept, Extends
<1>6. Durable!Closed'
  BY <1>3 DEF Durable!Closed, ClosedBut
<1>7. QED
  BY <1>4, <1>5, <1>6 DEF Durable!Commit

(* The lock-respecting servers implement the grow-only durable ledger.     *)
THEOREM FileIsDurable == ASSUME NoFaults PROVE Spec => ImplementsDurable
<1>1. Init => Durable!Init
  BY FreshOK, ConstantsOK DEF Init, Durable!Init
<1>2. Inv /\ SafeInv /\ [Next]_vars /\ (Inv /\ SafeInv)' => [Durable!Commit]_(Durable!vars)
  BY DurableStep
<1>3. Spec => [](Inv /\ SafeInv)
  BY SafeAlways
<1>4. QED
  BY <1>1, <1>2, <1>3, PTL DEF Spec, ImplementsDurable, Durable!Spec
=============================================================================
