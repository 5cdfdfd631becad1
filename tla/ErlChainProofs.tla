---------------------------- MODULE ErlChainProofs ----------------------------
(***************************************************************************)
(* Proofs about ErlChain, for any bounds:                                  *)
(*                                                                         *)
(*   - with any servers, tools and kills: the types, the chains of the     *)
(*     file, what a prune by age rebuilds;                                 *)
(*   - where a prune by age is called on session_context only (Apart):     *)
(*     that unfolding restores the branch;                                 *)
(*   - for a server that has the file to itself (Single): what checkpoints *)
(*     do for verification, until its first keep-last prune;               *)
(*   - for one that boots before it takes calls and is not killed within   *)
(*     one (Booted): what it bootstraps, until then, and that a restart    *)
(*     changes none of its answers.                                        *)
(*                                                                         *)
(* Chains and selections are recursive functions.  What is true of all of  *)
(* them is proved by the least counterexample (LeastOf).                   *)
(***************************************************************************)
EXTENDS ErlChain, FiniteSetTheorems, WellFoundedInduction, TLAPS

(* What takes the place of induction: the least counterexample.            *)
LEMMA LeastOf ==
    ASSUME NEW S \in SUBSET Nat, S # {}
    PROVE  \E x \in S : \A y \in S : x <= y
<1> DEFINE R == OpToRel(<, Nat)
<1>1. \A x, y \in Nat : x < y => <<x, y>> \in R
  BY DEF OpToRel
<1>2. IsWellFoundedOn(R, Nat)
  BY NatLessThanWellFounded
<1> HIDE DEF R
<1>3. PICK x \in S : \A y \in S : ~ (<<y, x>> \in R)
  BY <1>2, WFMin
<1>4. \A y \in S : ~ (y < x)
  BY <1>1, <1>3
<1>5. QED
  BY <1>4

(* One more element on top of a sequence.                                  *)
LEMMA OnTop ==
    ASSUME NEW S, NEW x \in S, NEW c \in Seq(S)
    PROVE  <<x>> \o c \in Seq(S)
OBVIOUS

-----------------------------------------------------------------------------
(* Walking a chain.                                                        *)

(* The entries of a ledger have been created, and are younger than their   *)
(* parents.                                                                *)
Walkable(L) ==
    /\ info \in Seq(Info) /\ Len(info) <= MaxId
    /\ \A i \in Entry : info[i].parent < i
    /\ L.ids \subseteq Entry

(* f walks the chains of L.                                                *)
IsWalk(L, f) ==
    f = [i \in 0..MaxId |-> IF i \in L.ids THEN <<i>> \o f[info[i].parent] ELSE <<>>]

Walk(L) == CHOOSE f : IsWalk(L, f)

(* The parent of an entry is a smaller number, or null.                    *)
LEMMA ParentsOlder ==
    ASSUME NEW L, Walkable(L), NEW i \in L.ids
    PROVE  i \in 1..MaxId /\ info[i].parent \in 0 .. i - 1
<1>1. i \in 1 .. Len(info) /\ Len(info) \in Nat /\ MaxId \in Nat
  BY ConstantsOK DEF Walkable, Entry
<1>2. info[i] \in Info /\ info[i].parent < i /\ Len(info) <= MaxId
  BY <1>1 DEF Walkable, Entry
<1>3. info[i].parent \in 0..MaxId
  BY <1>2 DEF Info
<1>4. QED
  BY <1>1, <1>2, <1>3

(* A walk up to n can be extended to n + 1.                                *)
LEMMA WalkExists ==
    ASSUME NEW L, Walkable(L)
    PROVE  \E f : IsWalk(L, f)
<1> DEFINE Upto(n) == \E f : /\ DOMAIN f = 0..n
                             /\ \A i \in 0..n : f[i] = IF i \in L.ids
                                                      THEN <<i>> \o f[info[i].parent] ELSE <<>>
           Bad == {n \in 0..MaxId : ~ Upto(n)}
<1>1. MaxId \in Nat /\ 0 \notin L.ids
  BY ConstantsOK, ParentsOlder
<1>2. Upto(0)
  <2>1. /\ DOMAIN [i \in 0..0 |-> <<>>] = 0..0
        /\ \A i \in 0..0 : i \notin L.ids /\ [j \in 0..0 |-> <<>>][i] = <<>>
    BY <1>1
  <2>2. QED
    BY <2>1
<1>3. ASSUME NEW n \in 0..MaxId, n # 0, Upto(n - 1) PROVE Upto(n)
  <2>1. PICK f : /\ DOMAIN f = 0 .. n - 1
                 /\ \A i \in 0 .. n - 1 : f[i] = IF i \in L.ids
                                                THEN <<i>> \o f[info[i].parent] ELSE <<>>
    BY <1>3
  <2> DEFINE g == [i \in 0..n |-> IF i < n THEN f[i]
                                  ELSE IF n \in L.ids THEN <<n>> \o f[info[n].parent] ELSE <<>>]
  <2>2. n \in Nat /\ DOMAIN g = 0..n
    OBVIOUS
  <2>3. \A i \in 0 .. n - 1 : g[i] = f[i]
    OBVIOUS
  <2>4. \A i \in 0..n : i \in L.ids => info[i].parent \in 0 .. n - 1 /\ info[i].parent \in 0 .. i - 1
    BY <2>2, ParentsOlder
  <2>5. g[n] = IF n \in L.ids THEN <<n>> \o f[info[n].parent] ELSE <<>>
    OBVIOUS
  <2> HIDE DEF g
  <2>6. ASSUME NEW i \in 0..n
        PROVE  g[i] = IF i \in L.ids THEN <<i>> \o g[info[i].parent] ELSE <<>>
    <3>1. CASE i = n
      BY <2>3, <2>4, <2>5, <3>1
    <3>2. CASE i # n
      <4>1. i \in 0 .. n - 1
        BY <3>2
      <4>2. i \in L.ids => g[info[i].parent] = f[info[i].parent]
        BY <2>3, <2>4
      <4>3. QED
        BY <2>1, <2>3, <4>1, <4>2
    <3>3. QED
      BY <3>1, <3>2
  <2>7. QED
    BY <2>2, <2>6
<1> HIDE DEF Upto
<1>4. Bad = {}
  <2>1. SUFFICES ASSUME Bad # {} PROVE FALSE
    OBVIOUS
  <2>2. PICK n \in Bad : \A m \in Bad : n <= m
    <3>1. Bad \in SUBSET Nat
      BY <1>1
    <3> HIDE DEF Bad
    <3>2. QED
      BY <2>1, <3>1, LeastOf
  <2>3. n # 0 /\ n - 1 \in 0..MaxId /\ n - 1 \notin Bad
    BY <1>1, <1>2, <2>2
  <2>4. QED
    BY <1>3, <2>2, <2>3
<1>5. Upto(MaxId)
  BY <1>1, <1>4
<1>6. PICK f : /\ DOMAIN f = 0..MaxId
               /\ \A i \in 0..MaxId : f[i] = IF i \in L.ids
                                             THEN <<i>> \o f[info[i].parent] ELSE <<>>
  BY <1>5 DEF Upto
<1> DEFINE g == [i \in 0..MaxId |-> f[i]]
<1>7. \A i \in L.ids : info[i].parent \in 0..MaxId
  BY <1>1, ParentsOlder
<1>8. g = [i \in 0..MaxId |-> IF i \in L.ids THEN <<i>> \o g[info[i].parent] ELSE <<>>]
  BY <1>6, <1>7
<1>9. QED
  BY <1>8 DEF IsWalk

(* The recursion of erlHistory, on any tip a ledger may have.              *)
LEMMA ChainStep ==
    ASSUME NEW L, Walkable(L), NEW tip \in Int, tip <= MaxId
    PROVE  ChainFrom(L, tip) = IF tip \in L.ids
                               THEN <<tip>> \o ChainFrom(L, info[tip].parent) ELSE <<>>
<1>1. IsWalk(L, Walk(L))
  BY WalkExists DEF Walk
<1>2. \A i \in Int : ChainFrom(L, i) = IF i > 0 THEN Walk(L)[i] ELSE <<>>
  BY DEF ChainFrom, Walk, IsWalk
<1> DEFINE f == Walk(L)
<1>3. \A i \in 0..MaxId : f[i] = IF i \in L.ids THEN <<i>> \o f[info[i].parent] ELSE <<>>
  BY <1>1 DEF IsWalk
<1> HIDE DEF f
<1>4. \A i \in L.ids : i \in 1..MaxId /\ info[i].parent \in 0..MaxId
  BY ParentsOlder, ConstantsOK
<1>5. 0 \in 0..MaxId /\ 0 \notin L.ids
  BY <1>4, ConstantsOK
<1>6. f[0] = <<>>
  BY <1>3, <1>5
<1>7. \A i \in 0..MaxId : ChainFrom(L, i) = f[i]
  BY <1>2, <1>6 DEF f
<1>8. CASE tip > 0
  <2>0. tip \in 0..MaxId
    BY <1>8, ConstantsOK
  <2>1. ChainFrom(L, tip) = f[tip]
    BY <1>7, <2>0
  <2>2. CASE tip \in L.ids
    <3>1. f[tip] = <<tip>> \o f[info[tip].parent]
      BY <1>3, <2>0, <2>2, Zenon
    <3>2. f[info[tip].parent] = ChainFrom(L, info[tip].parent)
      BY <1>4, <1>7, <2>2
    <3>3. QED
      BY <2>1, <2>2, <3>1, <3>2
  <2>3. CASE tip \notin L.ids
    BY <1>3, <2>0, <2>1, <2>3, Zenon
  <2>4. QED
    BY <2>2, <2>3
<1>9. CASE tip <= 0
  BY <1>2, <1>4, <1>9
<1>10. QED
  BY <1>8, <1>9

(* A chain is made of entries of its ledger.                               *)
LEMMA ChainOK ==
    ASSUME NEW L, Walkable(L), NEW tip \in Int, tip <= MaxId
    PROVE  ChainFrom(L, tip) \in Seq(L.ids)
<1> DEFINE Bad == {n \in 0..MaxId : ChainFrom(L, n) \notin Seq(L.ids)}
<1>1. Bad = {}
  <2>1. SUFFICES ASSUME Bad # {} PROVE FALSE
    OBVIOUS
  <2>2. PICK n \in Bad : \A m \in Bad : n <= m
    <3>1. Bad \in SUBSET Nat
      BY ConstantsOK
    <3> HIDE DEF Bad
    <3>2. QED
      BY <2>1, <3>1, LeastOf
  <2>3. ChainFrom(L, n) = IF n \in L.ids THEN <<n>> \o ChainFrom(L, info[n].parent) ELSE <<>>
    BY ChainStep, ConstantsOK
  <2>4. n \in L.ids
    <3>1. <<>> \in Seq(L.ids)
      OBVIOUS
    <3>2. ChainFrom(L, n) # <<>>
      BY <2>2, <3>1
    <3>3. QED
      BY <2>3, <3>2
  <2>5. info[n].parent \in 0..MaxId /\ info[n].parent \notin Bad
    BY <2>2, <2>4, ParentsOlder, ConstantsOK
  <2>6. QED
    <3> DEFINE c == ChainFrom(L, info[n].parent)
    <3>1. c \in Seq(L.ids)
      BY <2>5
    <3> HIDE DEF c
    <3>2. <<n>> \o c \in Seq(L.ids)
      BY <2>4, <3>1, OnTop
    <3>3. QED
      BY <2>2, <2>3, <2>4, <3>2 DEF c
<1>2. CASE tip \in 0..MaxId
  BY <1>1, <1>2
<1>3. CASE tip < 0
  <2>1. tip \notin L.ids
    BY <1>3, ParentsOlder
  <2>2. ChainFrom(L, tip) = <<>>
    BY <2>1, ChainStep
  <2>3. QED
    BY <2>2
<1>4. QED
  BY <1>2, <1>3, ConstantsOK

-----------------------------------------------------------------------------
(* Picking the elements of a sequence that are in S.                       *)

IsOnly(seq, S, f) ==
    f = [n \in 0..Len(seq) |->
           IF n = 0 THEN <<>>
           ELSE IF seq[n] \in S THEN Append(f[n - 1], seq[n]) ELSE f[n - 1]]

(* ... and there is one.                                                   *)
LEMMA OnlyExists ==
    ASSUME NEW T, NEW seq \in Seq(T), NEW S
    PROVE  \E f : IsOnly(seq, S, f)
<1> DEFINE Next1(f, i) == IF i = 0 THEN <<>>
                          ELSE IF seq[i] \in S THEN Append(f[i - 1], seq[i]) ELSE f[i - 1]
           Upto(n) == \E f : DOMAIN f = 0..n /\ \A i \in 0..n : f[i] = Next1(f, i)
           Bad == {n \in 0..Len(seq) : ~ Upto(n)}
<1>1. Len(seq) \in Nat
  OBVIOUS
<1>2. Upto(0)
  <2>1. /\ DOMAIN [i \in 0..0 |-> <<>>] = 0..0
        /\ \A i \in 0..0 : i = 0 /\ [j \in 0..0 |-> <<>>][i] = <<>>
    OBVIOUS
  <2>2. QED
    BY <2>1
<1>3. ASSUME NEW n \in 0..Len(seq), n # 0, Upto(n - 1) PROVE Upto(n)
  <2>1. PICK f : DOMAIN f = 0 .. n - 1 /\ \A i \in 0 .. n - 1 : f[i] = Next1(f, i)
    BY <1>3
  <2> DEFINE g == [i \in 0..n |-> IF i < n THEN f[i] ELSE Next1(f, n)]
  <2>2. n \in Nat /\ DOMAIN g = 0..n /\ g[n] = Next1(f, n)
    OBVIOUS
  <2>3. \A i \in 0 .. n - 1 : g[i] = f[i]
    OBVIOUS
  <2> HIDE DEF g
  <2>4. ASSUME NEW i \in 0..n PROVE g[i] = Next1(g, i)
    <3>1. CASE i = 0
      BY <1>3, <2>1, <2>3, <3>1
    <3>2. CASE i # 0
      <4>1. i - 1 \in 0 .. n - 1 /\ g[i - 1] = f[i - 1]
        BY <2>2, <2>3, <3>2
      <4>2. g[i] = Next1(f, i)
        BY <2>1, <2>2, <2>3
      <4>3. QED
        BY <4>1, <4>2
    <3>3. QED
      BY <3>1, <3>2
  <2>5. QED
    BY <2>2, <2>4
<1> HIDE DEF Upto
<1>4. Bad = {}
  <2>1. SUFFICES ASSUME Bad # {} PROVE FALSE
    OBVIOUS
  <2>2. PICK n \in Bad : \A m \in Bad : n <= m
    <3>1. Bad \in SUBSET Nat
      BY <1>1
    <3> HIDE DEF Bad
    <3>2. QED
      BY <2>1, <3>1, LeastOf
  <2>3. n # 0 /\ n - 1 \in 0..Len(seq) /\ n - 1 \notin Bad
    BY <1>1, <1>2, <2>2
  <2>4. QED
    BY <1>3, <2>2, <2>3
<1>5. PICK f : DOMAIN f = 0..Len(seq) /\ \A i \in 0..Len(seq) : f[i] = Next1(f, i)
  BY <1>1, <1>4 DEF Upto
<1> DEFINE g == [i \in 0..Len(seq) |-> f[i]]
<1>6. g = [i \in 0..Len(seq) |-> Next1(g, i)]
  BY <1>1, <1>5
<1>7. QED
  BY <1>6 DEF IsOnly

(* What is picked comes from both.                                         *)
LEMMA OnlyOK ==
    ASSUME NEW T, NEW seq \in Seq(T), NEW S
    PROVE  Only(seq, S) \in Seq(T \cap S)
<1> DEFINE f == CHOOSE g : IsOnly(seq, S, g)
           Bad == {n \in 0..Len(seq) : f[n] \notin Seq(T \cap S)}
<1>1. IsOnly(seq, S, f)
  BY OnlyExists
<1>2. Only(seq, S) = f[Len(seq)]
  BY DEF Only, IsOnly
<1> HIDE DEF f
<1>3. Len(seq) \in Nat /\ \A n \in 0..Len(seq) : n # 0 => seq[n] \in T
  OBVIOUS
<1>4. \A n \in 0..Len(seq) :
         f[n] = IF n = 0 THEN <<>>
                ELSE IF seq[n] \in S THEN Append(f[n - 1], seq[n]) ELSE f[n - 1]
  BY <1>1 DEF IsOnly
<1>5. Bad = {}
  <2>1. SUFFICES ASSUME Bad # {} PROVE FALSE
    OBVIOUS
  <2>2. PICK n \in Bad : \A m \in Bad : n <= m
    <3>1. Bad \in SUBSET Nat
      BY <1>3
    <3> HIDE DEF Bad
    <3>2. QED
      BY <2>1, <3>1, LeastOf
  <2>3. CASE n = 0
    <3>1. f[n] = <<>>
      BY <1>4, <2>2, <2>3
    <3>2. <<>> \in Seq(T \cap S)
      OBVIOUS
    <3>3. QED
      BY <2>2, <3>1, <3>2
  <2>4. CASE n # 0
    <3>1. n - 1 \in 0..Len(seq) /\ n - 1 \notin Bad
      BY <1>3, <2>2, <2>4
    <3> DEFINE before == f[n - 1]
               x == seq[n]
    <3>2. before \in Seq(T \cap S) /\ x \in T
      BY <1>3, <2>2, <2>4, <3>1
    <3>3. f[n] = IF x \in S THEN Append(before, x) ELSE before
      BY <1>4, <2>2, <2>4
    <3> HIDE DEF before, x
    <3>4. (IF x \in S THEN Append(before, x) ELSE before) \in Seq(T \cap S)
      BY <3>2
    <3>5. QED
      BY <2>2, <3>3, <3>4
  <2>5. QED
    BY <2>3, <2>4
<1>6. QED
  BY <1>2, <1>3, <1>5

(* ... so it stays within any set the sequence stays in.                   *)
LEMMA OnlyIn ==
    ASSUME NEW T, NEW seq \in Seq(T), NEW S
    PROVE  Only(seq, S) \in Seq(T)
<1> DEFINE only == Only(seq, S)
<1>1. only \in Seq(T \cap S)
  BY OnlyOK
<1> HIDE DEF only
<1>2. only \in Seq(T)
  BY <1>1
<1>3. QED
  BY <1>2 DEF only

-----------------------------------------------------------------------------
(* The types.  A ledger whose entries are among E.                         *)
LedgerIn(L, E) ==
    /\ L = [ids |-> L.ids, folded |-> L.folded, tips |-> L.tips, cps |-> L.cps]
    /\ L.ids \subseteq E /\ L.folded \subseteq L.ids
    /\ L.tips \in [Branch -> {undefined, null} \cup E]
    /\ DOMAIN L.cps \subseteq Branch /\ L.cps \in [DOMAIN L.cps -> Seq(E)]

(* A ledger stays one when entries are created.                            *)
LEMMA LedgerGrows ==
    ASSUME NEW L, NEW E, NEW F, E \subseteq F, LedgerIn(L, E)
    PROVE  LedgerIn(L, F)
<1>1. \A b \in DOMAIN L.cps : L.cps[b] \in Seq(F)
  BY DEF LedgerIn
<1>2. L.cps \in [DOMAIN L.cps -> Seq(F)]
  BY <1>1 DEF LedgerIn
<1>3. QED
  BY <1>2 DEF LedgerIn

(* The empty ledger is one, whatever has been created.                     *)
LEMMA EmptyOK == \A E : LedgerIn(EmptyLedger, E)
BY DEF EmptyLedger, LedgerIn, Branch

(* The types, in the form the proofs use.                                  *)
LEMMA TypesAre ==
    TypeOK <=>
      /\ info \in Seq(Info) /\ Len(info) <= MaxId
      /\ \A i \in Entry : info[i].parent < i
      /\ LedgerIn(disk, Entry) /\ mem = [s \in Server |-> mem[s]]
      /\ \A s \in Server : LedgerIn(mem[s], Entry)
      /\ up \subseteq Server /\ exists \in BOOLEAN
      /\ job \in [Server -> Seq(SaveStep)]
      /\ inited \in [Server -> BOOLEAN] /\ failed \in [Server -> BOOLEAN]
BY DEF TypeOK, LedgerOK, LedgerIn

(* A save leaves a ledger of both, and changes one memory.                 *)
LEMMA MergeOK ==
    ASSUME NEW E, NEW L, LedgerIn(disk, E), LedgerIn(L, E)
    PROVE  LedgerIn(Merged(L), E)
<1> DEFINE M == Merged(L)
<1>1. /\ M = [ids |-> M.ids, folded |-> M.folded, tips |-> M.tips, cps |-> M.cps]
      /\ M.ids = disk.ids \cup L.ids
      /\ M.folded = (disk.folded \ L.ids) \cup L.folded
      /\ M.tips = [b \in Branch |-> IF L.tips[b] > 0 THEN L.tips[b] ELSE disk.tips[b]]
      /\ M.cps = [b \in DOMAIN L.cps \cup DOMAIN disk.cps |->
                    IF b \in DOMAIN L.cps THEN L.cps[b] ELSE disk.cps[b]]
  BY DEF Merged
<1> HIDE DEF M
<1>2. M.ids \subseteq E /\ M.folded \subseteq M.ids
  BY <1>1 DEF LedgerIn
<1>3. M.tips \in [Branch -> {undefined, null} \cup E]
  BY <1>1 DEF LedgerIn
<1>4. DOMAIN M.cps \subseteq Branch /\ M.cps \in [DOMAIN M.cps -> Seq(E)]
  BY <1>1 DEF LedgerIn
<1>5. QED
  BY <1>1, <1>2, <1>3, <1>4 DEF LedgerIn, M

(* A save of a ledger leaves ledgers in the file and in every memory.      *)
LEMMA SaveOK ==
    ASSUME NEW E, NEW s \in Server, NEW L, LedgerIn(disk, E), LedgerIn(L, E),
           mem = [t \in Server |-> mem[t]], \A t \in Server : LedgerIn(mem[t], E), Save(s, L)
    PROVE  /\ LedgerIn(disk', E) /\ mem' = [t \in Server |-> mem'[t]]
           /\ \A t \in Server : LedgerIn(mem'[t], E)
           /\ exists' = TRUE
<1>1. LedgerIn(disk', E)
  BY MergeOK DEF Save
<1>2. mem' = [mem EXCEPT ![s] = L]
  BY DEF Save
<1>3. mem' = [t \in Server |-> mem'[t]] /\ \A t \in Server : mem'[t] = L \/ mem'[t] = mem[t]
  BY <1>2
<1>4. QED
  BY <1>1, <1>3 DEF Save

(* What erlAppend does, without its checkpoints.                           *)
Appended(s, b, parent) ==
    /\ NewId <= MaxId /\ parent \in 0 .. NewId - 1
    /\ \E e \in Info : e.parent = parent /\ info' = Append(info, e)
    /\ \E L : /\ LedgerIn(L, Entry \cup {NewId}) /\ Save(s, L)
              /\ L.ids = mem[s].ids \cup {NewId}
              /\ L.tips = [mem[s].tips EXCEPT ![b] = NewId]

(* An append is such a step, whatever it appends.                          *)
LEMMA AppendOK ==
    ASSUME TypeOK, NEW s \in Server, NEW b \in Branch, NEW prot \in BOOLEAN,
           NEW form \in {"plain", "folded"}, NEW payload \in 1..MaxId,
           AppendEntry(s, b, prot, form, payload)
    PROVE  Appended(s, b, ParentIn(mem[s], b))
<1> DEFINE i == NewId
           M == mem[s]
           E == Entry \cup {i}
           parent == ParentIn(M, b)
           chain  == <<i>> \o ChainFrom(M, parent)
           cps    == CheckpointsAfter(chain, Checkpoints(M, b))
           lists  == [c \in DOMAIN M.cps \cup {b} |-> IF c = b THEN cps ELSE M.cps[c]]
           L == [ids |-> M.ids \cup {i},
                 folded |-> IF form = "folded" THEN M.folded \cup {i} ELSE M.folded,
                 tips |-> [M.tips EXCEPT ![b] = i], cps |-> lists]
           e == [parent |-> parent, form |-> form, prot |-> prot, payload |-> payload]
<1>1. i <= MaxId /\ info' = Append(info, e) /\ Save(s, L)
  BY DEF AppendEntry
<1>2. LedgerIn(M, Entry) /\ info \in Seq(Info)
  BY TypesAre
<1>3. Len(info) \in Nat /\ MaxId \in Nat /\ i = Len(info) + 1 /\ Entry = 1..Len(info)
  BY <1>2, ConstantsOK DEF NewId, Entry
<1>4. parent \in 0 .. i - 1 /\ parent \in 0..MaxId
  <2>1. M.tips[b] \in {-1, 0} \cup 1..Len(info)
    BY <1>2, <1>3 DEF LedgerIn, null, undefined
  <2>2. parent \in 0..Len(info)
    BY <1>3, <2>1 DEF ParentIn, null
  <2> HIDE DEF parent, M
  <2>3. QED
    BY <1>1, <1>3, <2>2
<1>5. e \in Info /\ e.parent = parent
  BY <1>4 DEF Info
<1>6. cps \in Seq(E)
  <2>1. Checkpoints(M, b) \in Seq(E)
    BY <1>2 DEF Checkpoints, LedgerIn
  <2>2. Walkable(M)
    BY <1>2, TypesAre DEF Walkable, LedgerIn
  <2>3. ChainFrom(M, parent) \in Seq(M.ids)
    BY <1>4, <2>2, ChainOK
  <2>4. Head(chain) = i
    BY <2>3
  <2>5. Append(Checkpoints(M, b), i) \in Seq(E)
    BY <2>1
  <2>6. QED
    BY <2>1, <2>4, <2>5 DEF CheckpointsAfter
<1> HIDE DEF i, parent, chain, cps
<1>7. DOMAIN lists \subseteq Branch /\ lists \in [DOMAIN lists -> Seq(E)]
  <2>1. /\ DOMAIN M.cps \subseteq Branch
        /\ \A c \in DOMAIN M.cps : M.cps[c] \in Seq(E)
    BY <1>2 DEF LedgerIn
  <2> HIDE DEF M, E
  <2>2. DOMAIN lists = DOMAIN M.cps \cup {b}
    OBVIOUS
  <2>3. \A c \in DOMAIN lists : lists[c] \in Seq(E)
    BY <1>6, <2>1
  <2>4. QED
    BY <2>1, <2>2, <2>3
<1> HIDE DEF lists
<1>8. [M.tips EXCEPT ![b] = i] \in [Branch -> {undefined, null} \cup E]
  BY <1>2 DEF LedgerIn
<1>9. LedgerIn(L, E)
  BY <1>2, <1>7, <1>8 DEF LedgerIn
<1>10. L.ids = M.ids \cup {i} /\ L.tips = [M.tips EXCEPT ![b] = i]
  OBVIOUS
<1> HIDE DEF L, e
<1>11. QED
  BY <1>1, <1>4, <1>5, <1>9, <1>10 DEF Appended, i, parent

(* The types of the ledgers, and those of the calls.                       *)
Stored ==
    /\ info \in Seq(Info) /\ Len(info) <= MaxId
    /\ \A i \in Entry : info[i].parent < i
    /\ LedgerIn(disk, Entry) /\ mem = [s \in Server |-> mem[s]]
    /\ \A s \in Server : LedgerIn(mem[s], Entry)
    /\ exists \in BOOLEAN
Calls ==
    /\ up \subseteq Server /\ job \in [Server -> Seq(SaveStep)]
    /\ inited \in [Server -> BOOLEAN] /\ failed \in [Server -> BOOLEAN]

(* The type invariant in two parts, before and after a step.               *)
LEMMA TypeParts == /\ TypeOK <=> Stored /\ Calls
                   /\ TypeOK' <=> Stored' /\ Calls'
BY DEF TypeOK, LedgerOK, LedgerIn, Stored, Calls

(* After an append there is one entry more and the others are as they      *)
(* were.                                                                   *)
LEMMA AppendGrows ==
    ASSUME TypeOK, NEW s \in Server, NEW b \in Branch, NEW parent, Appended(s, b, parent)
    PROVE  /\ Entry' = Entry \cup {NewId} /\ NewId \notin Entry
           /\ info'[NewId].parent = parent /\ parent < NewId
           /\ \A i \in Entry : info'[i] = info[i]
           /\ info' \in Seq(Info) /\ Len(info') <= MaxId
<1>1. info \in Seq(Info) /\ Len(info) \in Nat /\ MaxId \in Nat
  BY TypesAre, ConstantsOK
<1>2. PICK e \in Info : e.parent = parent /\ info' = Append(info, e)
  BY DEF Appended
<1>3. /\ info' \in Seq(Info) /\ Len(info') = Len(info) + 1 /\ info'[Len(info) + 1] = e
      /\ \A i \in 1..Len(info) : info'[i] = info[i]
  BY <1>1, <1>2
<1>4. QED
  BY <1>1, <1>2, <1>3 DEF Appended, Entry, NewId

(* An append keeps the types of what is stored.                            *)
LEMMA AppendStores ==
    ASSUME TypeOK, NEW s \in Server, NEW b \in Branch, NEW parent, Appended(s, b, parent)
    PROVE  Stored' /\ Entry \subseteq Entry'
<1>1. /\ Entry' = Entry \cup {NewId} /\ info' \in Seq(Info) /\ Len(info') <= MaxId
      /\ \A i \in Entry' : info'[i].parent < i
  BY AppendGrows, TypesAre
<1>2. PICK L : LedgerIn(L, Entry') /\ Save(s, L)
  BY <1>1 DEF Appended
<1>3. /\ LedgerIn(disk, Entry') /\ mem = [t \in Server |-> mem[t]]
      /\ \A t \in Server : LedgerIn(mem[t], Entry')
  BY <1>1, LedgerGrows, TypesAre
<1> DEFINE E == Entry'
<1> HIDE DEF E
<1>4. /\ LedgerIn(disk', E) /\ mem' = [t \in Server |-> mem'[t]]
      /\ \A t \in Server : LedgerIn(mem'[t], E)
      /\ exists' = TRUE
  BY <1>2, <1>3, SaveOK DEF E
<1>5. QED
  BY <1>1, <1>4 DEF Stored, E

(* So does a save that makes no entry.                                     *)
LEMMA SaveStores ==
    ASSUME TypeOK, NEW s \in Server, NEW L, LedgerIn(L, Entry), Save(s, L), UNCHANGED info
    PROVE  Stored' /\ Entry' = Entry
<1>1. Entry' = Entry
  BY DEF Entry
<1>2. /\ LedgerIn(disk', Entry) /\ mem' = [t \in Server |-> mem'[t]]
      /\ \A t \in Server : LedgerIn(mem'[t], Entry)
      /\ exists' = TRUE
  BY SaveOK, TypesAre
<1>3. QED
  BY <1>1, <1>2, TypesAre DEF Stored

(* The ledgers the tools save, but for the appends.                        *)
LEMMA EditsOK ==
    ASSUME TypeOK, NEW s \in Server, NEW b \in Branch, NEW F,
           NEW tip \in {undefined, null} \cup Entry
    PROVE  /\ LedgerIn([mem[s] EXCEPT !.tips[b] = tip], Entry)
           /\ LedgerIn([mem[s] EXCEPT !.folded = @ \ F], Entry)
           /\ F \subseteq mem[s].ids => LedgerIn([mem[s] EXCEPT !.folded = @ \cup F], Entry)
           /\ LedgerIn([ids |-> mem[s].ids \ F, folded |-> mem[s].folded \ F,
                        tips |-> [mem[s].tips EXCEPT ![b] = tip], cps |-> mem[s].cps], Entry)
<1> DEFINE M == mem[s]
           E == Entry
<1>1. LedgerIn(M, E) /\ tip \in {undefined, null} \cup E
  BY TypesAre
<1> HIDE DEF M, E
<1>2. [M.tips EXCEPT ![b] = tip] \in [Branch -> {undefined, null} \cup E]
  BY <1>1 DEF LedgerIn
<1>3. LedgerIn([M EXCEPT !.tips[b] = tip], E)
  BY <1>1, <1>2 DEF LedgerIn
<1> DEFINE As(ids, folded, tips) == [ids |-> ids, folded |-> folded, tips |-> tips,
                                      cps |-> M.cps]
<1>4. M = As(M.ids, M.folded, M.tips)
  BY <1>1 DEF LedgerIn
<1>5. \A ids, folded, tips :
         /\ ids \subseteq E /\ folded \subseteq ids
         /\ tips \in [Branch -> {undefined, null} \cup E]
         => LedgerIn(As(ids, folded, tips), E)
  BY <1>1 DEF LedgerIn
<1>6. /\ M.ids \subseteq E /\ M.folded \subseteq M.ids
      /\ M.tips \in [Branch -> {undefined, null} \cup E]
  BY <1>1 DEF LedgerIn
<1>7. LedgerIn([M EXCEPT !.folded = @ \ F], E)
  <2>1. [M EXCEPT !.folded = @ \ F] = As(M.ids, M.folded \ F, M.tips)
    BY <1>4
  <2>2. LedgerIn(As(M.ids, M.folded \ F, M.tips), E)
    BY <1>5, <1>6
  <2>3. QED
    BY <2>1, <2>2
<1>8. F \subseteq M.ids => LedgerIn([M EXCEPT !.folded = @ \cup F], E)
  <2>1. [M EXCEPT !.folded = @ \cup F] = As(M.ids, M.folded \cup F, M.tips)
    BY <1>4
  <2>2. F \subseteq M.ids => LedgerIn(As(M.ids, M.folded \cup F, M.tips), E)
    BY <1>5, <1>6
  <2>3. QED
    BY <2>1, <2>2
<1>9. LedgerIn(As(M.ids \ F, M.folded \ F, [M.tips EXCEPT ![b] = tip]), E)
  BY <1>2, <1>5, <1>6
<1>10. QED
  BY <1>3, <1>7, <1>8, <1>9 DEF M, E

(* The history of a branch is a sequence of entries of the ledger.         *)
LEMMA HistoryOK ==
    ASSUME TypeOK, NEW s \in Server, NEW b \in Branch
    PROVE  History(mem[s], b) \in Seq(mem[s].ids) /\ mem[s].ids \subseteq Entry
<1>1. Walkable(mem[s]) /\ mem[s].ids \subseteq Entry
  BY TypesAre DEF Walkable, LedgerIn
<1>2. mem[s].tips[b] \in Int /\ mem[s].tips[b] <= MaxId
  <2>1. mem[s].tips[b] \in {-1, 0} \cup Entry
    BY TypesAre DEF LedgerIn, null, undefined
  <2>2. info \in Seq(Info) /\ Len(info) <= MaxId /\ MaxId \in Nat
    BY TypesAre, ConstantsOK
  <2>3. QED
    BY <2>1, <2>2 DEF Entry
<1>3. QED
  BY <1>1, <1>2, ChainOK DEF History

(* The parent of the next entry of a branch is null or an entry.           *)
LEMMA ParentOK ==
    ASSUME TypeOK, NEW s \in Server, NEW b \in Branch
    PROVE  ParentIn(mem[s], b) \in {undefined, null} \cup Entry
BY TypesAre DEF ParentIn, LedgerIn

(* The saves of a call, by their kind.                                     *)
LEMMA StepIs ==
    ASSUME NEW o \in SaveStep
    PROVE  /\ o.op = "append" => /\ o.branch \in Branch /\ o.prot \in BOOLEAN
                                  /\ o.copy \in {0} \cup Entry
           /\ o.op = "branch" => o.name \in Branch /\ o.from \in Branch
           /\ o.op = "null" => o.name \in Branch
           /\ o.op = "cut" => o.tip \in Entry
BY DEF SaveStep

(* What is a save.                                                         *)
LEMMA StepOK ==
    /\ \A b \in Branch, prot \in BOOLEAN, i \in {0} \cup Entry :
          [op |-> "append", branch |-> b, prot |-> prot, copy |-> i] \in SaveStep
    /\ \A b \in Branch, from \in Branch :
          [op |-> "branch", name |-> b, from |-> from] \in SaveStep
    /\ \A b \in Branch : [op |-> "null", name |-> b] \in SaveStep
    /\ \A i \in Entry, drop \in SUBSET Entry :
          [op |-> "cut", tip |-> i, drop |-> drop] \in SaveStep
BY DEF SaveStep

(* Saves stay saves when entries are created.                              *)
LEMMA StepsGrow ==
    ASSUME Entry \subseteq Entry', job \in [Server -> Seq(SaveStep)]
    PROVE  job \in [Server -> Seq(SaveStep')]
<1>1. SaveStep \subseteq SaveStep'
  BY DEF SaveStep
<1>2. \A s \in Server : job[s] \in Seq(SaveStep')
  BY <1>1
<1>3. QED
  BY <1>2

(* A tool that ends within the step, a call that begins, a call that goes  *)
(* on.                                                                     *)
LEMMA ReturnedOK ==
    ASSUME TypeOK, NEW s \in Server, Returned(s), Entry \subseteq Entry'
    PROVE  Calls'
BY TypeParts, StepsGrow DEF Calls, Returned

(* The calls keep their types when a save of one is done.                  *)
LEMMA ProceedOK ==
    ASSUME TypeOK, NEW s \in Server, Proceed(s), job[s] # <<>>, Entry \subseteq Entry'
    PROVE  Calls'
<1>1. job \in [Server -> Seq(SaveStep')]
  BY StepsGrow, TypeParts DEF Calls
<1>2. Tail(job[s]) \in Seq(SaveStep')
  BY <1>1
<1>3. job' = [job EXCEPT ![s] = Tail(job[s])]
  BY DEF Proceed
<1>4. job' \in [Server -> Seq(SaveStep')]
  BY <1>1, <1>2, <1>3
<1>5. QED
  BY <1>4, TypeParts DEF Calls, Proceed

(* A call that begins keeps the types.                                     *)
LEMMA CallOK ==
    ASSUME TypeOK, NEW s \in Server, NEW saves \in Seq(SaveStep), NEW owed,
           Call(s, saves, owed), inited' \in [Server -> BOOLEAN]
    PROVE  TypeOK'
<1>1. Stored' /\ SaveStep' = SaveStep
  BY TypeParts DEF Call, Stored, Entry, NewId, SaveStep
<1>2. job' \in [Server -> Seq(SaveStep)]
  BY TypeParts DEF Call, Calls
<1>3. QED
  BY <1>1, <1>2, TypeParts DEF Call, Calls

(* The copies of entries are saves.                                        *)
LEMMA CopiesOK ==
    ASSUME TypeOK, NEW b \in Branch, NEW ids \in Seq(Entry)
    PROVE  Copies(b, ids) \in Seq(SaveStep)
<1>1. \A k \in 1..Len(ids) : ids[k] \in Entry /\ info[ids[k]].prot \in BOOLEAN
  <2>1. \A i \in Entry : info[i] \in Info
    BY TypesAre DEF Entry
  <2>2. \A k \in 1..Len(ids) : ids[k] \in Entry
    OBVIOUS
  <2>3. QED
    BY <2>1, <2>2 DEF Info
<1>2. \A k \in 1..Len(ids) :
         [op |-> "append", branch |-> b, prot |-> info[ids[k]].prot, copy |-> ids[k]]
           \in SaveStep
  BY <1>1, StepOK
<1>3. QED
  BY <1>2 DEF Copies

(* The cuts among the saves go to entries of D.                            *)
CutsIn(saves, D) == \A k \in 1..Len(saves) : saves[k].op = "cut" => saves[k].tip \in D

(* One list of saves after another cuts to where the two cut to.           *)
LEMMA CatCuts ==
    ASSUME NEW S, NEW a \in Seq(S), NEW b \in Seq(S), NEW D, CutsIn(a, D), CutsIn(b, D)
    PROVE  a \o b \in Seq(S) /\ CutsIn(a \o b, D)
<1> DEFINE ab == a \o b
<1>1. ab \in Seq(S)
  OBVIOUS
<1>2. \A k \in 1..Len(ab) : \/ k \in 1..Len(a) /\ ab[k] = a[k]
                            \/ k - Len(a) \in 1..Len(b) /\ ab[k] = b[k - Len(a)]
  OBVIOUS
<1> HIDE DEF ab
<1>3. CutsIn(ab, D)
  BY <1>2 DEF CutsIn
<1>4. QED
  BY <1>1, <1>3 DEF ab

(* Copies cut nothing.                                                     *)
LEMMA CopiesNoCut == \A b, ids, D : CutsIn(Copies(b, ids), D)
BY DEF CutsIn, Copies

(* A sequence reversed has the same elements.                              *)
LEMMA ReverseOK ==
    ASSUME NEW S, NEW seq \in Seq(S)
    PROVE  Reverse(seq) \in Seq(S)
BY DEF Reverse

(* The calls of several saves.                                             *)
Begins(s) == \E saves \in Seq(SaveStep) : \E owed :
                /\ Call(s, saves, owed) /\ inited' \in [Server -> BOOLEAN]
                /\ CutsIn(saves, mem[s].ids)

(* The bootstrap begins a call.                                            *)
LEMMA InitCallOK ==
    ASSUME TypeOK, NEW s \in Server, StandardInit(s)
    PROVE  Begins(s)
<1> DEFINE fact == [op |-> "append", branch |-> Session, prot |-> TRUE, copy |-> 0]
           open == [op |-> "branch", name |-> Session, from |-> Main]
           saves == IF mem[s].tips[Session] > 0 THEN <<>> ELSE <<open, fact, fact>>
<1>1. Call(s, saves, NoPromise) /\ inited' = [inited EXCEPT ![s] = TRUE]
  BY DEF StandardInit
<1>2. fact \in SaveStep /\ open \in SaveStep
  BY StepOK DEF Branch
<1> HIDE DEF fact, open
<1>3. saves \in Seq(SaveStep)
  BY <1>2
<1>4. inited' \in [Server -> BOOLEAN]
  BY <1>1, TypeParts DEF Calls
<1>5. CutsIn(saves, mem[s].ids)
  BY DEF CutsIn, fact, open
<1> HIDE DEF saves
<1>6. QED
  BY <1>1, <1>3, <1>4, <1>5 DEF Begins

(* The prune by age begins a call.                                         *)
LEMMA PruneAgeOK ==
    ASSUME TypeOK, NEW s \in Server, NEW cutoff \in Entry, PruneAge(s, cutoff)
    PROVE  Begins(s)
<1> DEFINE history == History(mem[s], PruneBranch)
           keep    == Only(history, Entry \ Old(cutoff))
           archive == Only(history, Old(cutoff))
           open    == IF mem[s].tips[Archive] = undefined
                      THEN <<[op |-> "null", name |-> Archive]>> ELSE <<>>
           empty   == <<[op |-> "null", name |-> PruneBranch]>>
           saves   == open \o Copies(Archive, Reverse(archive)) \o empty
                        \o Copies(PruneBranch, RebuildOrder(keep))
           owed    == [kept |-> Payloads(keep), archived |-> Range(Payloads(archive))]
<1>1. Call(s, saves, owed) /\ UNCHANGED inited
  BY DEF PruneAge
<1>2. Archive \in Branch /\ PruneBranch \in Branch
  BY ConstantsOK DEF Branch
<1>3. history \in Seq(Entry)
  BY <1>2, HistoryOK
<1> HIDE DEF history
<1>4. keep \in Seq(Entry) /\ archive \in Seq(Entry)
  BY <1>3, OnlyIn
<1>5. open \in Seq(SaveStep) /\ empty \in Seq(SaveStep)
  BY <1>2, StepOK
<1> DEFINE D == mem[s].ids
<1>6. CutsIn(open, D) /\ CutsIn(empty, D)
  BY DEF CutsIn
<1> HIDE DEF keep, archive, open, empty
<1> DEFINE moved   == Copies(Archive, Reverse(archive))
           rebuilt == Copies(PruneBranch, RebuildOrder(keep))
<1>7. /\ moved \in Seq(SaveStep) /\ rebuilt \in Seq(SaveStep)
      /\ CutsIn(moved, D) /\ CutsIn(rebuilt, D)
  BY <1>2, <1>4, CopiesOK, CopiesNoCut, ReverseOK DEF RebuildOrder
<1> HIDE DEF moved, rebuilt, D
<1> DEFINE first == open \o moved
           most  == first \o empty
           all   == most \o rebuilt
<1>8. first \in Seq(SaveStep) /\ CutsIn(first, D)
  BY <1>5, <1>6, <1>7, CatCuts
<1> HIDE DEF first
<1>9. most \in Seq(SaveStep) /\ CutsIn(most, D)
  BY <1>5, <1>6, <1>8, CatCuts
<1> HIDE DEF most
<1>10. all \in Seq(SaveStep) /\ CutsIn(all, D)
  BY <1>7, <1>9, CatCuts
<1>11. saves \in Seq(SaveStep) /\ CutsIn(saves, D)
  BY <1>10 DEF first, most, moved, rebuilt
<1> HIDE DEF saves, owed
<1>12. QED
  BY <1>1, <1>11, TypeParts DEF Calls, Begins, D

(* The keep-last prune begins a call, and cuts to an entry it has.         *)
LEMMA PruneLastOK ==
    ASSUME TypeOK, NEW s \in Server, PruneLast(s)
    PROVE  Begins(s)
<1> DEFINE history  == History(mem[s], PruneBranch)
           keepable == Only(history, Prunable)
           open     == IF mem[s].tips[ArchiveLast] <= 0
                       THEN <<[op |-> "branch", name |-> ArchiveLast, from |-> PruneBranch]>>
                       ELSE <<>>
           drop     == Range(SubSeq(keepable, KeepLast + 1, Len(keepable)))
           cut      == [op |-> "cut", tip |-> keepable[KeepLast], drop |-> drop]
           saves    == open \o <<cut>>
<1>1. Len(keepable) > KeepLast /\ Call(s, saves, NoPromise) /\ UNCHANGED inited
  BY DEF PruneLast
<1>2. ArchiveLast \in Branch /\ PruneBranch \in Branch
  BY ConstantsOK DEF Branch
<1> DEFINE D == mem[s].ids
<1>3. history \in Seq(D) /\ D \subseteq Entry
  BY <1>2, HistoryOK
<1> HIDE DEF history, D
<1>4. keepable \in Seq(D)
  BY <1>3, OnlyIn
<1>5. open \in Seq(SaveStep)
  BY <1>2, StepOK
<1>6. CutsIn(open, D)
  BY DEF CutsIn
<1> HIDE DEF keepable, open
<1>7. KeepLast \in 1..Len(keepable) /\ KeepLast \in Nat
  BY <1>1, <1>4, ConstantsOK
<1>8. keepable[KeepLast] \in D
  BY <1>4, <1>7
<1>9. SubSeq(keepable, KeepLast + 1, Len(keepable)) \in Seq(D)
  BY <1>4, <1>7
<1>10. drop \subseteq Entry
  <2> DEFINE rest == SubSeq(keepable, KeepLast + 1, Len(keepable))
  <2>1. rest \in Seq(D)
    BY <1>9
  <2> HIDE DEF rest
  <2>2. Range(rest) \subseteq Entry
    BY <1>3, <2>1 DEF Range
  <2>3. QED
    BY <2>2 DEF rest
<1> HIDE DEF drop
<1>11. cut \in SaveStep
  BY <1>3, <1>8, <1>10, StepOK
<1>12. CutsIn(<<cut>>, D)
  BY <1>8 DEF CutsIn
<1> HIDE DEF cut
<1>13. <<cut>> \in Seq(SaveStep)
  BY <1>11
<1> DEFINE last == <<cut>>
<1> HIDE DEF last
<1>14. open \o last \in Seq(SaveStep) /\ CutsIn(open \o last, D)
  BY <1>5, <1>12, <1>6, <1>13, CatCuts DEF last
<1>15. saves \in Seq(SaveStep) /\ CutsIn(saves, D)
  BY <1>14 DEF last
<1> HIDE DEF saves
<1>16. QED
  BY <1>1, <1>15, TypeParts DEF Calls, Begins, D

(* The step of a call that appends: one entry, a new one or a copy.        *)
LEMMA JobAppendIs ==
    ASSUME TypeOK, NEW s \in Server, job[s] # <<>>, JobAppend(s)
    PROVE  \E b \in Branch : Appended(s, b, ParentIn(mem[s], b))
<1> DEFINE o == Head(job[s])
<1>1. o \in SaveStep
  BY TypeParts DEF Calls
<1> HIDE DEF o
<1>2. o.op = "append" /\ o.branch \in Branch /\ o.prot \in BOOLEAN /\ o.copy \in {0} \cup Entry
  BY <1>1, StepIs DEF JobAppend, o
<1>3. Len(info) \in Nat
  BY TypesAre
<1>4. CASE o.copy = 0
  <2>1. AppendEntry(s, o.branch, o.prot, "plain", NewId)
    BY <1>4 DEF JobAppend, o
  <2>2. NewId \in 1..MaxId
    BY <1>3, <2>1, ConstantsOK DEF AppendEntry, NewId
  <2>3. QED
    BY <1>2, <2>1, <2>2, AppendOK
<1>5. CASE o.copy # 0
  <2> DEFINE form == IF o.copy \in mem[s].folded THEN "folded" ELSE "plain"
  <2>1. AppendEntry(s, o.branch, o.prot, form, info[o.copy].payload)
    BY <1>5 DEF JobAppend, o
  <2>2. form \in {"plain", "folded"}
    OBVIOUS
  <2> HIDE DEF form
  <2>3. info[o.copy] \in Info
    BY <1>2, <1>5, TypesAre DEF Entry
  <2>4. info[o.copy].payload \in 1..MaxId
    BY <2>3 DEF Info
  <2>5. QED
    BY <1>2, <2>1, <2>2, <2>4, AppendOK
<1>6. QED
  BY <1>4, <1>5

(* A tool that appends appends.                                            *)
LEMMA AppendToolIs ==
    ASSUME TypeOK, NEW s \in Server, NEW b \in Branch, AppendTool(s, b)
    PROVE  Appended(s, b, ParentIn(mem[s], b))
<1>0. Len(info) \in Nat
  BY TypesAre
<1>1. AppendEntry(s, b, FALSE, "plain", NewId)
  BY DEF AppendTool
<1>2. NewId \in 1..MaxId
  BY <1>0, <1>1, ConstantsOK DEF AppendEntry, NewId
<1>3. QED
  BY <1>1, <1>2, AppendOK

(* The other saves, as the ledger that is saved.                           *)
LEMMA NewBranchIs ==
    ASSUME TypeOK, NEW s \in Server, NEW b \in Branch, NEW from \in Branch,
           NewBranch(s, b, from)
    PROVE  /\ Save(s, [mem[s] EXCEPT !.tips[b] = ParentIn(mem[s], from)])
           /\ LedgerIn([mem[s] EXCEPT !.tips[b] = ParentIn(mem[s], from)], Entry)
           /\ UNCHANGED info
BY ParentOK, EditsOK DEF NewBranch

(* erl_fold saves a ledger with more folded entries.                       *)
LEMMA FoldIs ==
    ASSUME TypeOK, NEW s \in Server, NEW b \in Branch,
           NEW F \in SUBSET Range(History(mem[s], b)), Fold(s, b, F)
    PROVE  /\ Save(s, [mem[s] EXCEPT !.folded = @ \cup F])
           /\ LedgerIn([mem[s] EXCEPT !.folded = @ \cup F], Entry)
           /\ UNCHANGED info
<1> DEFINE history == History(mem[s], b)
<1>1. history \in Seq(mem[s].ids)
  BY HistoryOK
<1> HIDE DEF history
<1>2. Range(history) \subseteq mem[s].ids
  BY <1>1 DEF Range
<1>3. F \subseteq mem[s].ids
  BY <1>2 DEF history
<1>4. LedgerIn([mem[s] EXCEPT !.folded = @ \cup F], Entry)
  BY <1>3, EditsOK
<1>5. QED
  BY <1>4 DEF Fold

(* erl_unfold saves one with fewer.                                        *)
LEMMA UnfoldIs ==
    ASSUME TypeOK, NEW s \in Server, NEW b \in Branch, Unfold(s, b)
    PROVE  \E F : /\ Save(s, [mem[s] EXCEPT !.folded = @ \ F])
                  /\ LedgerIn([mem[s] EXCEPT !.folded = @ \ F], Entry)
                  /\ UNCHANGED info
<1> DEFINE F == UnfoldsIn(mem[s], b)
<1>1. Save(s, [mem[s] EXCEPT !.folded = @ \ F]) /\ UNCHANGED info
  BY DEF Unfold
<1> HIDE DEF F
<1>2. LedgerIn([mem[s] EXCEPT !.folded = @ \ F], Entry)
  BY EditsOK
<1>3. QED
  BY <1>1, <1>2

(* Emptying a branch saves a ledger with one tip null.                     *)
LEMMA JobNullIs ==
    ASSUME TypeOK, NEW s \in Server, job[s] # <<>>, JobNull(s)
    PROVE  \E b \in Branch : /\ Save(s, [mem[s] EXCEPT !.tips[b] = null])
                             /\ LedgerIn([mem[s] EXCEPT !.tips[b] = null], Entry)
                             /\ UNCHANGED info
<1> DEFINE b == Head(job[s]).name
<1>1. b \in Branch
  BY StepIs, TypeParts DEF Calls, JobNull
<1>2. Save(s, [mem[s] EXCEPT !.tips[b] = null]) /\ UNCHANGED info
  BY DEF JobNull
<1> HIDE DEF b
<1>3. LedgerIn([mem[s] EXCEPT !.tips[b] = null], Entry)
  BY <1>1, EditsOK
<1>4. QED
  BY <1>1, <1>2, <1>3

CutTo(s, tip, drop) ==
    [ids |-> mem[s].ids \ drop, folded |-> mem[s].folded \ drop,
     tips |-> [mem[s].tips EXCEPT ![PruneBranch] = tip], cps |-> mem[s].cps]

(* A cut saves a ledger with fewer entries and the tip of the call.        *)
LEMMA JobCutIs ==
    ASSUME TypeOK, NEW s \in Server, job[s] # <<>>, JobCut(s)
    PROVE  \E drop : LET L == CutTo(s, Head(job[s]).tip, drop)
                     IN  Save(s, L) /\ LedgerIn(L, Entry) /\ UNCHANGED info
<1> DEFINE tip  == Head(job[s]).tip
           drop == Head(job[s]).drop
<1>1. tip \in Entry /\ PruneBranch \in Branch
  BY StepIs, TypeParts, ConstantsOK DEF Calls, JobCut, Branch
<1>2. Save(s, CutTo(s, tip, drop)) /\ UNCHANGED info
  BY DEF JobCut, CutTo
<1> HIDE DEF tip, drop
<1>3. LedgerIn(CutTo(s, tip, drop), Entry)
  BY <1>1, EditsOK DEF CutTo
<1>4. QED
  BY <1>2, <1>3 DEF tip

(* The types hold at first.                                                *)
LEMMA InitType == Init => TypeOK
<1> SUFFICES ASSUME Init PROVE TypeOK
  OBVIOUS
<1>1. info \in Seq(Info) /\ Len(info) = 0 /\ Entry = {}
  BY DEF Init, Entry
<1>2. /\ LedgerIn(disk, Entry) /\ mem = [s \in Server |-> mem[s]]
      /\ \A s \in Server : LedgerIn(mem[s], Entry)
  BY EmptyOK DEF Init
<1>3. MaxId \in Nat
  BY ConstantsOK
<1>4. Stored
  <2>1. exists \in BOOLEAN
    BY DEF Init
  <2>2. Len(info) <= MaxId
    BY <1>1, <1>3
  <2>3. \A i \in Entry : info[i].parent < i
    BY <1>1
  <2>4. QED
    BY <1>1, <1>2, <2>1, <2>2, <2>3 DEF Stored
<1>5. Calls
  BY DEF Init, Calls
<1>6. QED
  BY <1>4, <1>5, TypeParts

(* The next save of a call keeps the types.                                *)
LEMMA RunJobType ==
    ASSUME TypeOK, NEW s \in Server, RunJob(s)
    PROVE  TypeOK'
<1>1. job[s] # <<>>
  BY DEF RunJob
<1>2. CASE JobAppend(s)
  <2>1. Stored' /\ Entry \subseteq Entry'
    BY <1>1, <1>2, JobAppendIs, AppendStores
  <2>2. QED
    BY <1>1, <1>2, <2>1, ProceedOK, TypeParts DEF JobAppend
<1>3. CASE JobBranch(s)
  <2>1. Head(job[s]).name \in Branch /\ Head(job[s]).from \in Branch
    BY <1>1, <1>3, StepIs, TypeParts DEF Calls, JobBranch
  <2>2. Stored' /\ Entry' = Entry
    BY <1>3, <2>1, NewBranchIs, SaveStores DEF JobBranch
  <2>3. QED
    BY <1>1, <1>3, <2>2, ProceedOK, TypeParts DEF JobBranch
<1>4. CASE JobThrow(s)
  <2>1. Stored' /\ SaveStep' = SaveStep
    BY <1>4, TypeParts DEF JobThrow, Stored, Entry, NewId, SaveStep
  <2>2. QED
    BY <1>4, <2>1, TypeParts DEF JobThrow, Calls
<1>5. CASE JobNull(s)
  <2>1. Stored' /\ Entry' = Entry
    BY <1>1, <1>5, JobNullIs, SaveStores
  <2>2. QED
    BY <1>1, <1>5, <2>1, ProceedOK, TypeParts DEF JobNull
<1>6. CASE JobCut(s)
  <2>1. Stored' /\ Entry' = Entry
    BY <1>1, <1>6, JobCutIs, SaveStores
  <2>2. QED
    BY <1>1, <1>6, <2>1, ProceedOK, TypeParts DEF JobCut
<1>7. QED
  BY <1>2, <1>3, <1>4, <1>5, <1>6 DEF RunJob

(* Every step keeps the types.                                             *)
LEMMA StepType == TypeOK /\ [Next]_vars => TypeOK'
<1> SUFFICES ASSUME TypeOK, [Next]_vars PROVE TypeOK'
  OBVIOUS
<1>1. ASSUME NEW s \in Server, Start(s) PROVE TypeOK'
  <2>1. LedgerIn(disk, Entry) /\ LedgerIn(EmptyLedger, Entry) /\ Entry' = Entry
    BY <1>1, TypesAre, EmptyOK DEF Start, Entry
  <2>2. /\ mem' = [t \in Server |-> mem'[t]]
        /\ \A t \in Server : mem'[t] \in {disk, EmptyLedger, mem[t]}
    BY <1>1, TypesAre DEF Start
  <2>3. \A t \in Server : LedgerIn(mem'[t], Entry)
    BY <2>1, <2>2, TypesAre
  <2>4. Stored'
    BY <1>1, <2>1, <2>2, <2>3, TypeParts DEF Start, Stored
  <2>5. Calls'
    BY <1>1, TypeParts DEF Start, Calls, SaveStep, Entry, NewId
  <2>6. QED
    BY <2>4, <2>5, TypeParts
<1>2. ASSUME NEW s \in Server, Stop(s) PROVE TypeOK'
  <2>1. LedgerIn(EmptyLedger, Entry) /\ Entry' = Entry /\ SaveStep' = SaveStep
    BY <1>2, EmptyOK DEF Stop, Entry, SaveStep
  <2>2. /\ mem' = [t \in Server |-> mem'[t]]
        /\ \A t \in Server : mem'[t] \in {EmptyLedger, mem[t]}
    BY <1>2, TypesAre DEF Stop
  <2>3. \A t \in Server : LedgerIn(mem'[t], Entry)
    BY <2>1, <2>2, TypesAre
  <2>4. Stored'
    BY <1>2, <2>1, <2>2, <2>3, TypeParts DEF Stop, Stored
  <2>5. job' \in [Server -> Seq(SaveStep)]
    BY <1>2, TypeParts DEF Stop, Calls
  <2>6. Calls'
    BY <1>2, <2>1, <2>5, TypeParts DEF Stop, Calls
  <2>7. QED
    BY <2>4, <2>6, TypeParts
<1>3. ASSUME NEW s \in Server, NEW b \in {Main, Session}, AppendTool(s, b) PROVE TypeOK'
  <2>1. b \in Branch
    BY DEF Branch
  <2>2. Stored' /\ Entry \subseteq Entry'
    BY <1>3, <2>1, AppendToolIs, AppendStores
  <2>3. QED
    BY <1>3, <2>2, ReturnedOK, TypeParts DEF AppendTool
<1>4. ASSUME NEW s \in Server, NEW name \in {Session}, NEW from \in {Main},
             BranchTool(s, name, from)
      PROVE  TypeOK'
  <2>1. name \in Branch /\ from \in Branch
    BY DEF Branch
  <2>2. Stored' /\ Entry' = Entry
    BY <1>4, <2>1, NewBranchIs, SaveStores DEF BranchTool
  <2>3. QED
    BY <1>4, <2>2, ReturnedOK, TypeParts DEF BranchTool
<1>5. ASSUME NEW s \in Server, NEW b \in Branch, NEW F \in SUBSET Range(History(mem[s], b)),
             Fold(s, b, F)
      PROVE  TypeOK'
  <2>1. Stored' /\ Entry' = Entry
    BY <1>5, FoldIs, SaveStores
  <2>2. QED
    BY <1>5, <2>1, ReturnedOK, TypeParts DEF Fold
<1>6. ASSUME NEW s \in Server, NEW b \in Branch, Unfold(s, b) PROVE TypeOK'
  <2>1. Stored' /\ Entry' = Entry
    BY <1>6, UnfoldIs, SaveStores
  <2>2. QED
    BY <1>6, <2>1, ReturnedOK, TypeParts DEF Unfold
<1>7. CASE UNCHANGED vars
  BY <1>7, TypeParts DEF vars, Stored, Calls, Entry, NewId, SaveStep
<1>8. ASSUME NEW s \in Server, Begins(s) PROVE TypeOK'
  BY <1>8, CallOK DEF Begins
<1>9. QED
  BY <1>1, <1>2, <1>3, <1>4, <1>5, <1>6, <1>7, <1>8, InitCallOK, PruneAgeOK, PruneLastOK,
     RunJobType DEF Next

(* Whatever tools run and wherever the servers die, the ledgers hold       *)
(* entries that exist, parents older than their children, and calls under  *)
(* way copy and cut to entries that exist.                                 *)
THEOREM TypeCorrect == Spec => []TypeOK
<1>1. QED
  BY InitType, StepType, PTL DEF Spec

-----------------------------------------------------------------------------
(* The file.                                                               *)

(* Nobody knows a tip or an entry the file does not have.                  *)
EmptyBefore == ~exists => disk.ids = {} /\ \A b \in Branch : ~ (disk.tips[b] > 0)
InFile(L) ==
    L.ids \subseteq disk.ids /\ \A b \in Branch : L.tips[b] > 0 => L.tips[b] \in disk.ids
MemInFile  == \A s \in Server : InFile(mem[s])
CutsInFile == \A s \in Server : CutsIn(job[s], disk.ids)
FileInv == TypeOK /\ ChainsWhole /\ EmptyBefore /\ MemInFile /\ CutsInFile

(* A save adds the entries of the server that saves, and takes tips of     *)
(* either.                                                                 *)
LEMMA SaveIs ==
    ASSUME FileInv, NEW s \in Server, NEW L, Save(s, L)
    PROVE  /\ disk'.ids = disk.ids \cup L.ids
           /\ \A b \in Branch : disk'.tips[b] > 0 => disk'.tips[b] \in {L.tips[b], disk.tips[b]}
           /\ \A t \in Server : mem'[t] = IF t = s THEN L ELSE mem[t]
           /\ exists'
<1>1. \A t \in Server : mem'[t] = IF t = s THEN L ELSE mem[t]
  BY TypesAre DEF Save, FileInv
<1>2. CASE exists
  <2>1. disk' = Merged(L)
    BY <1>2 DEF Save
  <2>2. /\ disk'.ids = disk.ids \cup L.ids
        /\ \A b \in Branch : disk'.tips[b] = IF L.tips[b] > 0 THEN L.tips[b] ELSE disk.tips[b]
    BY <2>1 DEF Merged
  <2>3. QED
    BY <1>1, <2>2 DEF Save
<1>3. CASE ~exists
  <2>1. disk' = L /\ disk.ids = {}
    BY <1>3 DEF Save, FileInv, EmptyBefore
  <2>2. QED
    BY <1>1, <2>1 DEF Save
<1>4. QED
  BY <1>2, <1>3

(* A save keeps the file whole when the new entries it brings, and its     *)
(* tips, hang on entries of the file.                                      *)
Hangs(L) ==
    /\ \A i \in L.ids \ disk.ids : info'[i].parent \in disk.ids \cup {null}
    /\ \A b \in Branch : L.tips[b] > 0 => L.tips[b] \in disk.ids \cup L.ids

(* A save of entries that hang on the file keeps its chains whole.         *)
LEMMA SaveFile ==
    ASSUME FileInv, NEW s \in Server, NEW L, Save(s, L), Hangs(L),
           \A i \in disk.ids : info'[i] = info[i]
    PROVE  /\ ChainsWhole' /\ EmptyBefore' /\ MemInFile'
           /\ disk.ids \subseteq disk'.ids
<1>1. /\ disk'.ids = disk.ids \cup L.ids
      /\ \A b \in Branch : disk'.tips[b] > 0 => disk'.tips[b] \in {L.tips[b], disk.tips[b]}
      /\ \A t \in Server : mem'[t] = IF t = s THEN L ELSE mem[t]
      /\ exists'
  BY SaveIs
<1>2. \A i \in disk'.ids : info'[i].parent \in disk'.ids \cup {null}
  <2>1. ASSUME NEW i \in disk.ids PROVE info'[i].parent \in disk'.ids \cup {null}
    BY <1>1 DEF FileInv, ChainsWhole
  <2>2. ASSUME NEW i \in L.ids \ disk.ids PROVE info'[i].parent \in disk'.ids \cup {null}
    BY <1>1 DEF Hangs
  <2>3. QED
    BY <1>1, <2>1, <2>2
<1>3. \A b \in Branch : disk'.tips[b] > 0 => disk'.tips[b] \in disk'.ids
  BY <1>1 DEF FileInv, ChainsWhole, Hangs
<1>4. MemInFile'
  <2>1. \A b \in Branch : L.tips[b] > 0 => L.tips[b] \in disk'.ids
    BY <1>1 DEF Hangs
  <2>2. ASSUME NEW t \in Server PROVE InFile(mem[t])'
    <3>1. CASE t = s
      BY <1>1, <2>1, <3>1 DEF InFile
    <3>2. CASE t # s
      BY <1>1, <3>2 DEF FileInv, MemInFile, InFile
    <3>3. QED
      BY <3>1, <3>2
  <2>3. QED
    BY <2>2 DEF MemInFile
<1>5. QED
  BY <1>1, <1>2, <1>3, <1>4 DEF ChainsWhole, EmptyBefore

(* The saves that append nothing hang on what was there.                   *)
LEMMA EditFile ==
    ASSUME FileInv, NEW s \in Server, NEW L, Save(s, L), UNCHANGED info,
           L.ids \subseteq mem[s].ids,
           \A b \in Branch : L.tips[b] > 0 => L.tips[b] \in disk.ids
    PROVE  /\ ChainsWhole' /\ EmptyBefore' /\ MemInFile'
           /\ disk.ids \subseteq disk'.ids
<1>1. mem[s].ids \subseteq disk.ids
  BY DEF FileInv, MemInFile, InFile
<1>2. Hangs(L)
  BY <1>1 DEF Hangs
<1>3. QED
  BY <1>2, SaveFile

(* An append hangs on the tip of its branch.                               *)
LEMMA AppendFile ==
    ASSUME FileInv, NEW s \in Server, NEW b \in Branch, Appended(s, b, ParentIn(mem[s], b))
    PROVE  /\ ChainsWhole' /\ EmptyBefore' /\ MemInFile'
           /\ disk.ids \subseteq disk'.ids
<1> DEFINE parent == ParentIn(mem[s], b)
<1>1. /\ info'[NewId].parent = parent
      /\ \A i \in Entry : info'[i] = info[i]
  BY AppendGrows DEF FileInv
<1>2. PICK L : /\ Save(s, L) /\ L.ids = mem[s].ids \cup {NewId}
               /\ L.tips = [mem[s].tips EXCEPT ![b] = NewId]
  BY DEF Appended
<1>3. InFile(mem[s]) /\ disk.ids \subseteq Entry
  BY TypesAre DEF FileInv, MemInFile, LedgerIn
<1>4. parent \in disk.ids \cup {null}
  BY <1>3 DEF ParentIn, InFile
<1>5. mem[s].tips \in [Branch -> {undefined, null} \cup Entry]
  BY TypesAre DEF FileInv, LedgerIn
<1> HIDE DEF parent
<1>6. \A i \in L.ids \ disk.ids : i = NewId
  BY <1>2, <1>3 DEF InFile
<1>7. \A c \in Branch : L.tips[c] = IF c = b THEN NewId ELSE mem[s].tips[c]
  BY <1>2, <1>5
<1>8. Hangs(L)
  BY <1>1, <1>2, <1>3, <1>4, <1>6, <1>7 DEF Hangs, InFile
<1>9. \A i \in disk.ids : info'[i] = info[i]
  BY <1>1, <1>3
<1>10. QED
  BY <1>2, <1>8, <1>9, SaveFile

(* The tips after an edit of one branch.                                   *)
LEMMA EditTips ==
    ASSUME FileInv, NEW s \in Server, NEW b \in Branch, NEW tip,
           tip > 0 => tip \in disk.ids, NEW tips, tips = [mem[s].tips EXCEPT ![b] = tip]
    PROVE  \A c \in Branch : tips[c] > 0 => tips[c] \in disk.ids
<1>1. mem[s].tips \in [Branch -> {undefined, null} \cup Entry] /\ InFile(mem[s])
  BY TypesAre DEF FileInv, LedgerIn, MemInFile
<1>2. QED
  BY <1>1 DEF InFile

Left(s) == \/ job'[s] \in {job[s], <<>>}
           \/ job[s] # <<>> /\ job'[s] = Tail(job[s])

(* Calls under way go on cutting to entries of the file.                   *)
LEMMA CutsStay ==
    ASSUME FileInv, disk.ids \subseteq disk'.ids, \A s \in Server : Left(s)
    PROVE  CutsInFile'
<1>1. ASSUME NEW s \in Server PROVE CutsIn(job'[s], disk'.ids)
  <2>1. CutsIn(job[s], disk'.ids)
    BY DEF FileInv, CutsInFile, CutsIn
  <2>2. job[s] \in Seq(SaveStep)
    BY TypeParts DEF FileInv, Calls
  <2>3. CASE job'[s] = job[s]
    BY <2>1, <2>3
  <2>4. CASE job'[s] = <<>>
    BY <2>4 DEF CutsIn
  <2>5. CASE job[s] # <<>> /\ job'[s] = Tail(job[s])
    <3> DEFINE saves == job[s]
               rest  == Tail(saves)
    <3>1. \A k \in 1..Len(rest) : k + 1 \in 1..Len(saves) /\ rest[k] = saves[k + 1]
      BY <2>2, <2>5
    <3> HIDE DEF rest
    <3>2. CutsIn(rest, disk'.ids)
      BY <2>1, <3>1 DEF CutsIn
    <3>3. QED
      BY <2>5, <3>2 DEF rest
  <2>6. QED
    BY <2>3, <2>4, <2>5 DEF Left
<1>2. QED
  BY <1>1 DEF CutsInFile

(* What a step of a call leaves to be done.                                *)
LEMMA ProceedLeaves ==
    ASSUME TypeOK, NEW s \in Server, Proceed(s), job[s] # <<>>, NEW t \in Server
    PROVE  Left(t)
BY TypeParts DEF Proceed, Calls, Left

(* All but the last two conjuncts of FileInv', and the growth of the file. *)
FileKept == /\ ChainsWhole' /\ EmptyBefore' /\ MemInFile'
            /\ disk.ids \subseteq disk'.ids

(* The invariant of the file holds at first.                               *)
LEMMA InitFile == Init => FileInv
<1> SUFFICES ASSUME Init PROVE FileInv
  OBVIOUS
<1>1. TypeOK
  BY InitType
<1>2. disk = EmptyLedger /\ disk.ids = {} /\ \A b \in Branch : ~ (disk.tips[b] > 0)
  BY DEF Init, EmptyLedger, null, undefined
<1>3. \A s \in Server : mem[s] = disk /\ job[s] = <<>>
  BY DEF Init
<1>4. QED
  BY <1>1, <1>2, <1>3
     DEF FileInv, ChainsWhole, EmptyBefore, MemInFile, InFile, CutsInFile, CutsIn

(* The next save of a call keeps it.                                       *)
LEMMA RunJobFile ==
    ASSUME FileInv, NEW s \in Server, RunJob(s)
    PROVE  FileKept /\ CutsInFile'
<1>1. job[s] # <<>> /\ TypeOK /\ InFile(mem[s]) /\ null <= 0
  BY DEF RunJob, FileInv, MemInFile, null
<1>2. CASE JobAppend(s)
  <2>1. FileKept
    BY <1>1, <1>2, JobAppendIs, AppendFile DEF FileKept
  <2>2. QED
    BY <1>1, <1>2, <2>1, ProceedLeaves, CutsStay DEF JobAppend, FileKept
<1>3. CASE JobBranch(s)
  <2> DEFINE b    == Head(job[s]).name
             from == Head(job[s]).from
             L    == [mem[s] EXCEPT !.tips[b] = ParentIn(mem[s], from)]
  <2>1. b \in Branch /\ from \in Branch
    BY <1>1, <1>3, StepIs, TypeParts DEF Calls, JobBranch
  <2>2. Save(s, L) /\ LedgerIn(mem[s], Entry) /\ UNCHANGED info
    BY <1>1, <1>3, <2>1, NewBranchIs, TypesAre DEF JobBranch
  <2> HIDE DEF b, from
  <2>3. ParentIn(mem[s], from) > 0 => ParentIn(mem[s], from) \in disk.ids
    BY <1>1, <2>1 DEF ParentIn, InFile, null
  <2>4. L.ids = mem[s].ids /\ L.tips = [mem[s].tips EXCEPT ![b] = ParentIn(mem[s], from)]
    BY <2>2 DEF LedgerIn
  <2> HIDE DEF L
  <2>5. FileKept
    BY <2>1, <2>2, <2>3, <2>4, EditTips, EditFile DEF FileKept
  <2>6. QED
    BY <1>1, <1>3, <2>5, ProceedLeaves, CutsStay DEF JobBranch, FileKept
<1>4. CASE JobThrow(s)
  <2>1. FileKept
    BY <1>4 DEF JobThrow, FileInv, FileKept, ChainsWhole, EmptyBefore, MemInFile, InFile
  <2>2. \A t \in Server : Left(t)
    BY <1>1, <1>4, TypeParts DEF JobThrow, Calls, Left
  <2>3. QED
    BY <2>1, <2>2, CutsStay DEF FileKept
<1>5. CASE JobNull(s)
  <2>1. PICK b \in Branch : /\ Save(s, [mem[s] EXCEPT !.tips[b] = null])
                           /\ LedgerIn(mem[s], Entry)
                           /\ UNCHANGED info
    BY <1>1, <1>5, JobNullIs, TypesAre
  <2> DEFINE L == [mem[s] EXCEPT !.tips[b] = null]
  <2>2. L.ids = mem[s].ids /\ L.tips = [mem[s].tips EXCEPT ![b] = null]
    BY <2>1 DEF LedgerIn
  <2>3. Save(s, L)
    BY <2>1
  <2> HIDE DEF L
  <2>4. ~ (null > 0)
    BY DEF null
  <2>5. FileKept
    BY <2>1, <2>2, <2>3, <2>4, EditTips, EditFile DEF FileKept
  <2>6. QED
    BY <1>1, <1>5, <2>5, ProceedLeaves, CutsStay DEF JobNull, FileKept
<1>6. CASE JobCut(s)
  <2> DEFINE tip == Head(job[s]).tip
  <2>1. PICK drop : Save(s, CutTo(s, tip, drop)) /\ UNCHANGED info
    BY <1>1, <1>6, JobCutIs
  <2>2. tip \in disk.ids
    <3>1. job[s] \in Seq(SaveStep)
      BY <1>1, TypeParts DEF Calls
    <3>2. 1 \in 1..Len(job[s]) /\ Head(job[s]) = job[s][1]
      BY <1>1, <3>1
    <3>3. job[s][1].op = "cut"
      BY <1>6, <3>2 DEF JobCut
    <3>4. QED
      BY <3>2, <3>3 DEF FileInv, CutsInFile, CutsIn
  <2> HIDE DEF tip
  <2>3. /\ CutTo(s, tip, drop).ids \subseteq mem[s].ids
        /\ CutTo(s, tip, drop).tips = [mem[s].tips EXCEPT ![PruneBranch] = tip]
    BY DEF CutTo
  <2>4. PruneBranch \in Branch
    BY ConstantsOK DEF Branch
  <2>5. FileKept
    BY <2>1, <2>2, <2>3, <2>4, EditTips, EditFile DEF FileKept
  <2>6. QED
    BY <1>1, <1>6, <2>5, ProceedLeaves, CutsStay DEF JobCut, FileKept
<1>7. QED
  BY <1>2, <1>3, <1>4, <1>5, <1>6 DEF RunJob

(* A tool that ends within its step leaves the calls as they are.          *)
LEMMA ReturnedFile ==
    ASSUME FileInv, NEW s \in Server, Returned(s), FileKept
    PROVE  FileKept /\ CutsInFile'
<1>1. \A t \in Server : Left(t)
  BY DEF Returned, Left
<1>2. QED
  BY <1>1, CutsStay DEF FileKept

(* So does a call that begins.                                             *)
LEMMA CallFile ==
    ASSUME FileInv, NEW s \in Server, Begins(s)
    PROVE  FileKept /\ CutsInFile'
<1>1. PICK saves \in Seq(SaveStep) : \E owed : Call(s, saves, owed) /\ CutsIn(saves, mem[s].ids)
  BY DEF Begins
<1>2. UNCHANGED <<info, disk, exists, mem>> /\ job' = [job EXCEPT ![s] = saves]
  BY <1>1 DEF Call
<1>3. FileKept
  BY <1>2 DEF FileInv, FileKept, ChainsWhole, EmptyBefore, MemInFile, InFile
<1>4. CutsIn(saves, disk.ids)
  BY <1>1 DEF FileInv, MemInFile, InFile, CutsIn
<1>5. \A t \in Server : job'[t] = IF t = s THEN saves ELSE job[t]
  BY <1>2, TypeParts DEF FileInv, Calls
<1>6. CutsInFile'
  BY <1>2, <1>4, <1>5 DEF FileInv, CutsInFile, CutsIn
<1>7. QED
  BY <1>3, <1>6

(* Every step keeps it, and loses no entry of the file.                    *)
LEMMA StepFile == FileInv /\ [Next]_vars => FileKept /\ CutsInFile'
<1> SUFFICES ASSUME FileInv, [Next]_vars PROVE FileKept /\ CutsInFile'
  OBVIOUS
<1>0. TypeOK /\ ~ (null > 0) /\ ~ (undefined > 0)
  BY DEF FileInv, null, undefined
<1>1. ASSUME NEW s \in Server, Start(s) PROVE FileKept /\ CutsInFile'
  <2>1. \A t \in Server : mem'[t] \in {disk, EmptyLedger, mem[t]} /\ Left(t)
    BY <1>0, <1>1, TypesAre DEF Start, Left
  <2>2. UNCHANGED <<info, disk, exists>>
    BY <1>1 DEF Start
  <2>3. InFile(disk) /\ InFile(EmptyLedger) /\ \A t \in Server : InFile(mem[t])
    BY <1>0 DEF FileInv, ChainsWhole, MemInFile, InFile, EmptyLedger, null, undefined
  <2>4. MemInFile'
    BY <2>1, <2>2, <2>3 DEF MemInFile, InFile
  <2>5. FileKept
    BY <2>2, <2>4 DEF FileInv, FileKept, ChainsWhole, EmptyBefore
  <2>6. QED
    BY <2>1, <2>5, CutsStay DEF FileKept
<1>2. ASSUME NEW s \in Server, Stop(s) PROVE FileKept /\ CutsInFile'
  <2>1. \A t \in Server : mem'[t] \in {EmptyLedger, mem[t]} /\ Left(t)
    BY <1>0, <1>2, TypesAre, TypeParts DEF Stop, Calls, Left
  <2>2. UNCHANGED <<info, disk, exists>>
    BY <1>2 DEF Stop
  <2>3. InFile(EmptyLedger) /\ \A t \in Server : InFile(mem[t])
    BY <1>0 DEF FileInv, MemInFile, InFile, EmptyLedger, null, undefined
  <2>4. MemInFile'
    BY <2>1, <2>2, <2>3 DEF MemInFile, InFile
  <2>5. FileKept
    BY <2>2, <2>4 DEF FileInv, FileKept, ChainsWhole, EmptyBefore
  <2>6. QED
    BY <2>1, <2>5, CutsStay DEF FileKept
<1>3. ASSUME NEW s \in Server, NEW b \in {Main, Session}, AppendTool(s, b)
      PROVE  FileKept /\ CutsInFile'
  <2>1. b \in Branch
    BY DEF Branch
  <2>2. FileKept
    BY <1>0, <1>3, <2>1, AppendToolIs, AppendFile DEF FileKept
  <2>3. QED
    BY <1>3, <2>2, ReturnedFile DEF AppendTool
<1>4. ASSUME NEW s \in Server, NEW name \in {Session}, NEW from \in {Main},
             BranchTool(s, name, from)
      PROVE  FileKept /\ CutsInFile'
  <2> DEFINE L == [mem[s] EXCEPT !.tips[name] = ParentIn(mem[s], from)]
  <2>1. name \in Branch /\ from \in Branch
    BY DEF Branch
  <2>2. Save(s, L) /\ LedgerIn(mem[s], Entry) /\ UNCHANGED info
    BY <1>0, <1>4, <2>1, NewBranchIs, TypesAre DEF BranchTool
  <2>3. ParentIn(mem[s], from) > 0 => ParentIn(mem[s], from) \in disk.ids
    BY <1>0, <2>1 DEF ParentIn, FileInv, MemInFile, InFile
  <2>4. L.ids = mem[s].ids /\ L.tips = [mem[s].tips EXCEPT ![name] = ParentIn(mem[s], from)]
    BY <2>2 DEF LedgerIn
  <2> HIDE DEF L
  <2>5. FileKept
    BY <2>1, <2>2, <2>3, <2>4, EditTips, EditFile DEF FileKept
  <2>6. QED
    BY <1>4, <2>5, ReturnedFile DEF BranchTool
<1>5. ASSUME NEW s \in Server, NEW b \in Branch, NEW F \in SUBSET Range(History(mem[s], b)),
             Fold(s, b, F)
      PROVE  FileKept /\ CutsInFile'
  <2> DEFINE L == [mem[s] EXCEPT !.folded = @ \cup F]
  <2>1. Save(s, L) /\ UNCHANGED info /\ LedgerIn(mem[s], Entry)
    BY <1>0, <1>5, FoldIs, TypesAre
  <2>2. L.ids = mem[s].ids /\ L.tips = mem[s].tips
    BY <2>1 DEF LedgerIn
  <2> HIDE DEF L
  <2>3. FileKept
    BY <2>1, <2>2, EditFile DEF FileKept, FileInv, MemInFile, InFile
  <2>4. QED
    BY <1>5, <2>3, ReturnedFile DEF Fold
<1>6. ASSUME NEW s \in Server, NEW b \in Branch, Unfold(s, b)
      PROVE  FileKept /\ CutsInFile'
  <2>1. PICK F : Save(s, [mem[s] EXCEPT !.folded = @ \ F]) /\ UNCHANGED info
    BY <1>0, <1>6, UnfoldIs
  <2> DEFINE L == [mem[s] EXCEPT !.folded = @ \ F]
  <2>2. L.ids = mem[s].ids /\ L.tips = mem[s].tips
    BY <1>0, TypesAre DEF LedgerIn
  <2>3. Save(s, L)
    BY <2>1
  <2> HIDE DEF L
  <2>4. FileKept
    BY <2>1, <2>2, <2>3, EditFile DEF FileKept, FileInv, MemInFile, InFile
  <2>5. QED
    BY <1>6, <2>4, ReturnedFile DEF Unfold
<1>7. CASE UNCHANGED vars
  <2>1. FileKept
    BY <1>7 DEF vars, FileInv, FileKept, ChainsWhole, EmptyBefore, MemInFile, InFile
  <2>2. \A t \in Server : Left(t)
    BY <1>7 DEF vars, Left
  <2>3. QED
    BY <2>1, <2>2, CutsStay DEF FileKept
<1>8. QED
  BY <1>0, <1>1, <1>2, <1>3, <1>4, <1>5, <1>6, <1>7, InitCallOK, PruneAgeOK, PruneLastOK,
     CallFile, RunJobFile DEF Next

(* The inductive invariant of the file: its chains are whole, an absent    *)
(* file has no entry, and no memory or pending cut has an entry or a tip   *)
(* that the file does not have.                                            *)
THEOREM FileAlways == Spec => []FileInv
<1>1. FileInv /\ [Next]_vars => FileInv'
  BY StepFile, StepType DEF FileInv, FileKept
<1>2. QED
  BY <1>1, InitFile, PTL DEF Spec

(* Every chain in the file is whole, for any number of servers, any        *)
(* checkpoint interval and any prunes, also when the servers die between   *)
(* the saves of a call: what a cut or a new tip leads to, the file has.    *)
THEOREM ChainsAlwaysWhole == Spec => []ChainsWhole
<1>1. FileInv => ChainsWhole
  BY DEF FileInv
<1>2. QED
  BY <1>1, FileAlways, PTL

(* Nothing is ever deleted from the file, whatever a keep-last prune       *)
(* deletes from the memory of its server.                                  *)
THEOREM FileAlwaysGrows == Spec => FileOnlyGrows
<1>1. FileInv /\ [Next]_vars => [disk.ids \subseteq disk'.ids]_vars
  BY StepFile DEF FileKept
<1>2. QED
  BY <1>1, FileAlways, PTL DEF Spec, FileOnlyGrows

-----------------------------------------------------------------------------
(* How a step changes the chains in memory.                                *)

Unfolds ==
    \A L : \A tip \in Int : Walkable(L) /\ tip <= MaxId =>
        ChainFrom(L, tip) = IF tip \in L.ids
                            THEN <<tip>> \o ChainFrom(L, info[tip].parent) ELSE <<>>
(* ChainStep, in the state before a step and in the state after it.        *)
LEMMA ChainsUnfold == Unfolds /\ Unfolds'
<1>1. Unfolds
  BY ChainStep DEF Unfolds
<1>2. Unfolds'
  BY <1>1, PTL
<1>3. QED
  BY <1>1, <1>2

(* Two walks over the same parents agree.                                  *)
Walks(n, ids, par, f) ==
    \A i \in 0..n : f[i] = IF i \in ids THEN <<i>> \o f[par[i]] ELSE <<>>
Older(n, ids, par) == \A i \in 0..n : i \in ids => par[i] \in 0 .. i - 1

(* Two walks over the same entries and parents are the same.               *)
LEMMA WalksAgree ==
    ASSUME NEW n \in Nat, NEW ids, NEW par, NEW f, NEW g,
           Older(n, ids, par), Walks(n, ids, par, f), Walks(n, ids, par, g)
    PROVE  \A i \in 0..n : g[i] = f[i]
<1> DEFINE Bad == {m \in 0..n : g[m] # f[m]}
<1>1. SUFFICES ASSUME Bad # {} PROVE FALSE
  OBVIOUS
<1>2. PICK m \in Bad : \A k \in Bad : m <= k
  <2>1. Bad \in SUBSET Nat
    OBVIOUS
  <2> HIDE DEF Bad
  <2>2. QED
    BY <1>1, <2>1, LeastOf
<1>3. CASE m \in ids
  <2>1. par[m] \in 0 .. m - 1
    BY <1>2, <1>3 DEF Older
  <2>2. g[par[m]] = f[par[m]]
    BY <1>2, <2>1
  <2>3. QED
    BY <1>2, <1>3, <2>2 DEF Walks
<1>4. CASE m \notin ids
  BY <1>2, <1>4 DEF Walks
<1>5. QED
  BY <1>3, <1>4

(* A chain stays as long as the ledger has the same entries up to its tip. *)
LEMMA ChainStays ==
    ASSUME NEW L, NEW K, Walkable(L), Walkable(K)', NEW n \in 0..MaxId,
           \A i \in 0..n : /\ i \in K.ids <=> i \in L.ids
                           /\ i \in L.ids => info'[i].parent = info[i].parent,
           NEW tip \in Int, tip <= n
    PROVE  ChainFrom(K, tip)' = ChainFrom(L, tip)
<1> DEFINE f == [m \in 0..n |-> ChainFrom(L, m)]
           g == [m \in 0..n |-> ChainFrom(K, m)']
           par == [m \in 0..n |-> info[m].parent]
<1>0. n \in Nat /\ MaxId \in Nat /\ n <= MaxId
  BY ConstantsOK
<1>1. /\ \A m \in Int : m <= n => ChainFrom(L, m) = IF m \in L.ids
                               THEN <<m>> \o ChainFrom(L, info[m].parent) ELSE <<>>
      /\ \A m \in Int : m <= n => ChainFrom(K, m)' = IF m \in K.ids
                               THEN <<m>> \o ChainFrom(K, info[m].parent)' ELSE <<>>
  BY <1>0, ChainsUnfold DEF Unfolds
<1>2. \A i \in L.ids : info[i].parent \in 0 .. i - 1
  BY ParentsOlder
<1>3. \A i \in 0..n : i \in L.ids => par[i] \in 0 .. i - 1 /\ par[i] \in 0..n
  BY <1>2
<1>4. \A i \in 0..n : f[i] = IF i \in L.ids THEN <<i>> \o f[par[i]] ELSE <<>>
  BY <1>0, <1>1, <1>3
<1>5. \A i \in 0..n : g[i] = IF i \in L.ids THEN <<i>> \o g[par[i]] ELSE <<>>
  <2> SUFFICES ASSUME NEW i \in 0..n
               PROVE  g[i] = IF i \in L.ids THEN <<i>> \o g[par[i]] ELSE <<>>
    OBVIOUS
  <2>1. g[i] = ChainFrom(K, i)'
    OBVIOUS
  <2>2. ChainFrom(K, i)' = IF i \in L.ids THEN <<i>> \o ChainFrom(K, info[i].parent)' ELSE <<>>
    BY <1>0, <1>1
  <2>3. i \in L.ids => ChainFrom(K, info[i].parent)' = g[par[i]]
    BY <1>3
  <2>4. QED
    BY <2>1, <2>2, <2>3
<1> HIDE DEF f, g, par
<1>a. Older(n, L.ids, par) /\ Walks(n, L.ids, par, f) /\ Walks(n, L.ids, par, g)
  BY <1>3, <1>4, <1>5 DEF Older, Walks
<1>6. \A i \in 0..n : g[i] = f[i]
  BY <1>0, <1>a, WalksAgree
<1>7. CASE tip >= 0
  BY <1>0, <1>6, <1>7 DEF f, g
<1>8. CASE tip < 0
  <2>1. tip \notin L.ids /\ tip \notin K.ids
    <3>1. \A i \in L.ids : i \in 1..MaxId
      BY ParentsOlder
    <3>2. \A i \in K.ids : i \in 1..MaxId
      BY <1>0 DEF Walkable, Entry
    <3>3. QED
      BY <1>8, <3>1, <3>2
  <2>2. QED
    BY <1>0, <1>1, <1>8, <2>1
<1>9. QED
  BY <1>0, <1>7, <1>8

(* A chain stays in a set that has its tip and the parents of its entries. *)
LEMMA ChainWithin ==
    ASSUME NEW L, Walkable(L), NEW tip \in Int, tip <= MaxId, NEW G,
           tip \in L.ids => tip \in G,
           \A i \in L.ids : i \in G /\ info[i].parent \in L.ids => info[i].parent \in G
    PROVE  ChainFrom(L, tip) \in Seq(G)
<1> DEFINE Bad == {n \in 0..MaxId : /\ n \in L.ids => n \in G
                                    /\ ChainFrom(L, n) \notin Seq(G)}
<1>1. Bad = {}
  <2>1. SUFFICES ASSUME Bad # {} PROVE FALSE
    OBVIOUS
  <2>2. PICK n \in Bad : \A m \in Bad : n <= m
    <3>1. Bad \in SUBSET Nat
      BY ConstantsOK
    <3> HIDE DEF Bad
    <3>2. QED
      BY <2>1, <3>1, LeastOf
  <2>3. ChainFrom(L, n) = IF n \in L.ids THEN <<n>> \o ChainFrom(L, info[n].parent) ELSE <<>>
    BY ChainStep, ConstantsOK
  <2>4. n \in L.ids
    <3>1. <<>> \in Seq(G)
      OBVIOUS
    <3>2. ChainFrom(L, n) # <<>>
      BY <2>2, <3>1
    <3>3. QED
      BY <2>3, <3>2
  <2> DEFINE p == info[n].parent
  <2>5. p \in 0..MaxId /\ p < n
    BY <2>2, <2>4, ParentsOlder, ConstantsOK
  <2>6. p \in L.ids => p \in G
    BY <2>2, <2>4
  <2> DEFINE c == ChainFrom(L, p)
  <2>7. c \in Seq(G)
    BY <2>2, <2>5, <2>6
  <2> HIDE DEF c, p
  <2>8. <<n>> \o c \in Seq(G)
    BY <2>2, <2>4, <2>7, OnTop
  <2>9. QED
    BY <2>2, <2>3, <2>4, <2>8 DEF c, p
<1>2. CASE tip \in 0..MaxId
  BY <1>1, <1>2
<1>3. CASE tip < 0
  <2>1. tip \notin L.ids
    BY <1>3, ParentsOlder
  <2>2. ChainFrom(L, tip) = <<>>
    BY <2>1, ChainStep
  <2>3. QED
    BY <2>2
<1>4. QED
  BY <1>2, <1>3, ConstantsOK

-----------------------------------------------------------------------------
(* The chains of the ledgers before and after a step.                      *)

EntriesStay == \A i \in Entry : i \in Entry' /\ info'[i] = info[i]

(* A ledger can be walked, before a step and after it.                     *)
LEMMA Walkables ==
    /\ \A L : TypeOK /\ LedgerIn(L, Entry) => Walkable(L)
    /\ \A L : TypeOK' /\ LedgerIn(L, Entry') => Walkable(L)'
BY TypesAre, TypeParts DEF Walkable, LedgerIn, Stored

(* A tip is a number, no greater than the entries created.                 *)
LEMMA TipsAre ==
    ASSUME TypeOK
    PROVE  /\ Len(info) \in 0..MaxId
           /\ \A tip \in {undefined, null} \cup Entry : tip \in Int /\ tip <= Len(info)
BY TypesAre, ConstantsOK DEF Entry, undefined, null

(* A chain of old entries is the same after a step.                        *)
LEMMA HistoryStays ==
    ASSUME TypeOK, TypeOK', EntriesStay,
           NEW L, LedgerIn(L, Entry), NEW K, LedgerIn(K, Entry'), K.ids \cap Entry = L.ids,
           NEW tip \in {undefined, null} \cup Entry
    PROVE  ChainFrom(K, tip)' = ChainFrom(L, tip)
<1> DEFINE n == Len(info)
<1>1. n \in 0..MaxId /\ tip \in Int /\ tip <= n /\ Entry = 1..n
  BY TipsAre DEF Entry
<1>2. Walkable(L) /\ Walkable(K)'
  BY Walkables
<1>3. L.ids \subseteq Entry /\ K.ids \subseteq Entry' /\ 0 \notin Entry'
  BY DEF LedgerIn, Entry
<1> HIDE DEF n
<1>4. \A i \in 0..n : /\ i \in K.ids <=> i \in L.ids
                      /\ i \in L.ids => info'[i].parent = info[i].parent
  BY <1>1, <1>3 DEF EntriesStay
<1>5. QED
  BY <1>1, <1>2, <1>4, ChainStays

-----------------------------------------------------------------------------
(* What a step does to the chains in memory.                               *)

(* The entry an append creates.                                            *)
LEMMA NewInfo ==
    ASSUME TypeOK, NEW e \in Info, info' = Append(info, e)
    PROVE  /\ NewId = Len(info) + 1 /\ NewId \notin Entry
           /\ Entry' = Entry \cup {NewId} /\ info'[NewId] = e /\ EntriesStay
<1>1. info \in Seq(Info) /\ Len(info) \in Nat
  BY TypesAre
<1>2. /\ info' \in Seq(Info) /\ Len(info') = Len(info) + 1 /\ info'[Len(info) + 1] = e
      /\ \A i \in 1..Len(info) : info'[i] = info[i]
  BY <1>1
<1>3. QED
  BY <1>1, <1>2 DEF Entry, NewId, EntriesStay

(* An append of an entry that is given.                                    *)
Puts(s, b, e) ==
    /\ NewId <= MaxId /\ e \in Info /\ e.parent = ParentIn(mem[s], b)
    /\ info' = Append(info, e)
    /\ \A t \in Server \ {s} : mem'[t] = mem[t]
    /\ mem'[s].ids = mem[s].ids \cup {NewId}
    /\ mem'[s].tips = [mem[s].tips EXCEPT ![b] = NewId]

(* An append puts its entry on its branch.                                 *)
LEMMA PutsIs ==
    ASSUME TypeOK, NEW s \in Server, NEW b \in Branch, NEW prot \in BOOLEAN,
           NEW form \in {"plain", "folded"}, NEW payload \in 1..MaxId,
           AppendEntry(s, b, prot, form, payload)
    PROVE  Puts(s, b, [parent |-> ParentIn(mem[s], b), form |-> form, prot |-> prot,
                       payload |-> payload])
<1> DEFINE e == [parent |-> ParentIn(mem[s], b), form |-> form, prot |-> prot,
                 payload |-> payload]
<1>1. NewId <= MaxId /\ info' = Append(info, e)
  BY DEF AppendEntry
<1>2. ParentIn(mem[s], b) \in 0 .. NewId - 1
  BY AppendOK DEF Appended
<1>3. e \in Info
  <2>1. ParentIn(mem[s], b) \in 0..MaxId
    BY <1>1, <1>2, TypesAre, ConstantsOK DEF NewId
  <2>2. QED
    BY <2>1 DEF Info
<1>4. PICK L : /\ Save(s, L) /\ L.ids = mem[s].ids \cup {NewId}
               /\ L.tips = [mem[s].tips EXCEPT ![b] = NewId]
  BY AppendOK DEF Appended
<1>5. \A t \in Server : mem'[t] = IF t = s THEN L ELSE mem[t]
  BY <1>4, TypesAre DEF Save
<1> HIDE DEF e
<1>6. e.parent = ParentIn(mem[s], b)
  BY DEF e
<1>7. Puts(s, b, e)
  BY <1>1, <1>3, <1>4, <1>5, <1>6 DEF Puts
<1>8. QED
  BY <1>7 DEF e

(* ... and the history of the branch grows by it; no other one changes.    *)
LEMMA PutsHistory ==
    ASSUME TypeOK, TypeOK', NEW s \in Server, NEW b \in Branch, NEW e, Puts(s, b, e)
    PROVE  /\ History(mem[s], b)' = <<NewId>> \o History(mem[s], b)
           /\ \A c \in Branch : c # b => History(mem[s], c)' = History(mem[s], c)
           /\ \A t \in Server, c \in Branch : t # s => History(mem[t], c)' = History(mem[t], c)
<1>1. NewId = Len(info) + 1 /\ NewId \notin Entry /\ info'[NewId] = e /\ EntriesStay
  BY NewInfo DEF Puts
<1>2. /\ \A t \in Server : LedgerIn(mem[t], Entry) /\ LedgerIn(mem'[t], Entry')
      /\ Len(info) \in Nat
  BY TypesAre, TypeParts DEF Stored
<1>3. \A t \in Server, c \in Branch : mem[t].tips[c] \in {undefined, null} \cup Entry
  BY <1>2 DEF LedgerIn
<1>4. \A t \in Server : t # s => mem'[t].ids \cap Entry = mem[t].ids /\ mem'[t] = mem[t]
  BY <1>2 DEF Puts, LedgerIn
<1>5. mem'[s].ids \cap Entry = mem[s].ids
  BY <1>1, <1>2 DEF Puts, LedgerIn
<1>6. \A c \in Branch : mem'[s].tips[c] = IF c = b THEN NewId ELSE mem[s].tips[c]
  BY <1>2 DEF Puts, LedgerIn
<1>7. ASSUME NEW t \in Server, NEW tip \in {undefined, null} \cup Entry
      PROVE  ChainFrom(mem[t], tip)' = ChainFrom(mem[t], tip)
  <2>1. LedgerIn(mem[t], Entry) /\ LedgerIn(mem'[t], Entry') /\ mem'[t].ids \cap Entry = mem[t].ids
    BY <1>2, <1>4, <1>5
  <2>2. PICK K : K = mem'[t]
    OBVIOUS
  <2>3. ChainFrom(K, tip)' = ChainFrom(mem[t], tip)
    BY <1>1, <2>1, <2>2, HistoryStays
  <2>4. QED
    BY <2>2, <2>3
<1>8. \A t \in Server, c \in Branch :
         mem'[t].tips[c] = mem[t].tips[c] => History(mem[t], c)' = History(mem[t], c)
  BY <1>3, <1>7 DEF History
<1>9. /\ ParentIn(mem[s], b) \in {undefined, null} \cup Entry
      /\ ChainFrom(mem[s], ParentIn(mem[s], b)) = History(mem[s], b)
  <2>1. ChainFrom(mem[s], null) = <<>>
    BY DEF ChainFrom, null
  <2>2. ~ (mem[s].tips[b] > 0) => History(mem[s], b) = <<>>
    BY DEF History, ChainFrom
  <2>3. QED
    BY <1>3, <2>1, <2>2 DEF ParentIn, History
<1>10. History(mem[s], b)' = <<NewId>> \o History(mem[s], b)
  <2>1. PICK p : p = ParentIn(mem[s], b)
    OBVIOUS
  <2>2. PICK K : K = mem'[s]
    OBVIOUS
  <2>3. PICK i : i = NewId
    OBVIOUS
  <2>4. Walkable(K)' /\ i \in Int /\ i <= MaxId /\ i \in K.ids
    BY <1>1, <1>2, <2>2, <2>3, Walkables DEF Puts
  <2>5. ChainFrom(K, i)' = <<i>> \o ChainFrom(K, info[i].parent)'
    BY <2>4, ChainsUnfold DEF Unfolds
  <2>6. ChainFrom(K, info[i].parent)' = ChainFrom(K, p)'
    BY <1>1, <2>1, <2>3 DEF Puts
  <2>7. ChainFrom(K, p)' = History(mem[s], b)
    BY <1>7, <1>9, <2>1, <2>2
  <2>8. History(mem[s], b)' = ChainFrom(K, i)'
    BY <1>6, <2>2, <2>3 DEF History
  <2>9. QED
    BY <2>3, <2>5, <2>6, <2>7, <2>8
<1>11. QED
  BY <1>4, <1>6, <1>8, <1>10

(* A save that appends nothing and keeps the entries.                      *)
Keeps(s, L) == /\ Save(s, L) /\ UNCHANGED info /\ LedgerIn(L, Entry)
               /\ L.ids = mem[s].ids

(* After it every branch has the history of the tip it now has.            *)
LEMMA KeepsHistory ==
    ASSUME TypeOK, TypeOK', NEW s \in Server, NEW L, Keeps(s, L)
    PROVE  /\ \A t \in Server : mem'[t] = IF t = s THEN L ELSE mem[t]
           /\ \A t \in Server, c \in Branch : t # s => History(mem[t], c)' = History(mem[t], c)
           /\ \A c, d \in Branch :
                 L.tips[c] = mem[s].tips[d] => History(mem[s], c)' = History(mem[s], d)
           /\ \A c \in Branch : L.tips[c] <= 0 => History(mem[s], c)' = <<>>
<1>1. EntriesStay /\ Entry' = Entry
  BY DEF Keeps, EntriesStay, Entry
<1>2. \A t \in Server : LedgerIn(mem[t], Entry) /\ LedgerIn(mem'[t], Entry')
  BY TypesAre, TypeParts DEF Stored
<1>3. \A t \in Server : mem'[t] = IF t = s THEN L ELSE mem[t]
  BY TypesAre DEF Keeps, Save
<1>4. \A t \in Server, c \in Branch : mem[t].tips[c] \in {undefined, null} \cup Entry
  BY <1>2 DEF LedgerIn
<1>5. ASSUME NEW t \in Server, NEW tip \in {undefined, null} \cup Entry
      PROVE  ChainFrom(mem[t], tip)' = ChainFrom(mem[t], tip)
  <2>1. /\ LedgerIn(mem[t], Entry) /\ LedgerIn(mem'[t], Entry')
        /\ mem'[t].ids \cap Entry = mem[t].ids
    BY <1>1, <1>2, <1>3 DEF Keeps, LedgerIn
  <2>2. PICK K : K = mem'[t]
    OBVIOUS
  <2>3. ChainFrom(K, tip)' = ChainFrom(mem[t], tip)
    BY <1>1, <2>1, <2>2, HistoryStays
  <2>4. QED
    BY <2>2, <2>3
<1>6. \A t \in Server : \A c, d \in Branch :
         mem'[t].tips[c] = mem[t].tips[d] => History(mem[t], c)' = History(mem[t], d)
  BY <1>4, <1>5 DEF History
<1>7. \A c \in Branch : L.tips[c] <= 0 => History(mem[s], c)' = <<>>
  <2> SUFFICES ASSUME NEW c \in Branch, L.tips[c] <= 0 PROVE History(mem[s], c)' = <<>>
    OBVIOUS
  <2>1. mem'[s].tips[c] <= 0 /\ mem'[s].tips[c] \in Int
    <3>1. \A tip \in {undefined, null} \cup Entry : tip \in Int
      BY TipsAre
    <3>2. QED
      BY <1>3, <3>1 DEF Keeps, LedgerIn
  <2>2. QED
    BY <2>1 DEF History, ChainFrom
<1>8. QED
  BY <1>3, <1>6, <1>7

(* A step that leaves the entries and a server's ledger alone.             *)
LEMMA SameHistory ==
    ASSUME TypeOK, TypeOK', EntriesStay, NEW t \in Server, mem'[t] = mem[t], NEW c \in Branch
    PROVE  History(mem[t], c)' = History(mem[t], c)
<1>1. LedgerIn(mem[t], Entry) /\ LedgerIn(mem'[t], Entry') /\ mem'[t].ids \cap Entry = mem[t].ids
  BY TypesAre, TypeParts DEF Stored, LedgerIn
<1>2. PICK K : K = mem'[t]
  OBVIOUS
<1>3. PICK tip \in {undefined, null} \cup Entry : tip = mem[t].tips[c]
  BY <1>1 DEF LedgerIn
<1>4. ChainFrom(K, tip)' = ChainFrom(mem[t], tip)
  BY <1>1, <1>2, HistoryStays
<1>5. QED
  BY <1>2, <1>3, <1>4 DEF History

-----------------------------------------------------------------------------
(* What a prune by age owes: that its branch comes to have the contents    *)
(* kept, and the archive the others.  f is info, j the saves left, pr the  *)
(* promise, h and a the chains of the branch and of the archive.           *)

CopyOf(f, o, b, p) == /\ o.op = "append" /\ o.branch = b /\ o.copy # 0
                      /\ f[o.copy].payload = p
Empties(o, b) == o.op = "null" /\ o.name = b
Carried(f, c) == {f[i].payload : i \in Range(c)}

(* The last saves are the copies to the branch, the oldest content first.  *)
LeftToKeep(f, j, kept) ==
    \A k \in 1..Len(kept) : k <= Len(j) => CopyOf(f, j[Len(j) + 1 - k], PruneBranch, kept[k])

(* Before them, at place n, the branch is emptied, and before that the     *)
(* others are copied to the archive, which may have to be opened first.    *)
Archiving(f, j, n, owed, a) ==
    /\ Empties(j[n], PruneBranch)
    /\ \A k \in 1 .. n - 1 :
          \/ j[k].op = "append" /\ j[k].branch = Archive /\ j[k].copy # 0
          \/ k = 1 /\ Empties(j[k], Archive)
    /\ \A p \in owed : \/ \E k \in 1 .. n - 1 : CopyOf(f, j[k], Archive, p)
                       \/ ~Empties(j[1], Archive) /\ p \in Carried(f, a)

(* Once it is empty, the branch has the contents that are no longer left.  *)
Rebuilding(f, j, pr, h, a) ==
    /\ Len(h) = Len(pr.kept) - Len(j)
    /\ \A k \in 1..Len(h) : f[h[k]].payload = pr.kept[Len(j) + k]
    /\ pr.archived \subseteq Carried(f, a)

Owes(f, j, pr, h, a) ==
    /\ pr.kept \in Seq(1..MaxId)
    /\ LeftToKeep(f, j, pr.kept)
    /\ Len(j) > Len(pr.kept) => Archiving(f, j, Len(j) - Len(pr.kept), pr.archived, a)
    /\ Len(j) <= Len(pr.kept) => Rebuilding(f, j, pr, h, a)

PruneInv == /\ promise = [s \in Server |-> promise[s]]
            /\ \A s \in Server :
                  /\ s \notin up => promise[s] = NoPromise
                  /\ promise[s] # NoPromise =>
                        Owes(info, job[s], promise[s], History(mem[s], PruneBranch),
                             History(mem[s], Archive))

(* The tail of a job.                                                      *)
LEMMA TailIs ==
    ASSUME NEW S, NEW j \in Seq(S), j # <<>>
    PROVE  /\ Tail(j) \in Seq(S) /\ Len(Tail(j)) = Len(j) - 1 /\ Len(j) \in Nat /\ Len(j) >= 1
           /\ Head(j) = j[1]
           /\ \A k \in 1 .. Len(j) - 1 : Tail(j)[k] = j[k + 1]
OBVIOUS

(* A chain with one more entry, element by element.                        *)
LEMMA OnTopIs ==
    ASSUME NEW S, NEW c \in Seq(S), NEW x
    PROVE  /\ Len(<<x>> \o c) = Len(c) + 1 /\ (<<x>> \o c)[1] = x
           /\ \A k \in 1..Len(c) : (<<x>> \o c)[k + 1] = c[k]
           /\ Range(<<x>> \o c) = {x} \cup Range(c)
<1>1. c \in Seq(S \cup {x}) /\ <<x>> \in Seq(S \cup {x})
  OBVIOUS
<1> DEFINE d == <<x>> \o c
<1>2. /\ d \in Seq(S \cup {x}) /\ Len(d) = Len(c) + 1 /\ d[1] = x
      /\ \A k \in 1..Len(c) : d[k + 1] = c[k]
  BY <1>1
<1>3. Len(c) \in Nat /\ DOMAIN c = 1..Len(c) /\ DOMAIN d = 1 .. Len(c) + 1
  BY <1>2
<1> HIDE DEF d
<1>4. Range(d) = {x} \cup Range(c)
  <2>1. \A k \in DOMAIN d : k = 1 \/ (k - 1 \in 1..Len(c) /\ d[k] = c[k - 1])
    BY <1>2, <1>3
  <2>2. \A k \in DOMAIN c : k + 1 \in DOMAIN d /\ d[k + 1] = c[k]
    BY <1>2, <1>3
  <2>3. 1 \in DOMAIN d
    BY <1>3
  <2>4. Range(d) \subseteq {x} \cup Range(c)
    <3> SUFFICES ASSUME NEW k \in DOMAIN d PROVE d[k] \in {x} \cup Range(c)
      BY DEF Range
    <3>1. CASE k = 1
      BY <1>2, <3>1
    <3>2. CASE k - 1 \in 1..Len(c) /\ d[k] = c[k - 1]
      BY <1>3, <3>2 DEF Range
    <3>3. QED
      BY <2>1, <3>1, <3>2
  <2>5. Range(c) \subseteq Range(d)
    <3> SUFFICES ASSUME NEW k \in DOMAIN c PROVE c[k] \in Range(d)
      BY DEF Range
    <3>1. QED
      BY <2>2 DEF Range
  <2>6. x \in Range(d)
    BY <1>2, <2>3 DEF Range
  <2>7. QED
    BY <2>4, <2>5, <2>6
<1>5. QED
  BY <1>2, <1>4 DEF d

(* Entries that are created change nothing of what is owed.                *)
LEMMA OwesStays ==
    ASSUME NEW E, NEW f, NEW g, \A i \in E : g[i] = f[i],
           NEW j, \A k \in 1..Len(j) : j[k].op = "append" => j[k].copy \in {0} \cup E,
           Len(j) \in Nat, NEW h \in Seq(E), NEW a \in Seq(E), NEW pr, Owes(f, j, pr, h, a)
    PROVE  Owes(g, j, pr, h, a)
<1>1. ASSUME NEW k \in 1..Len(j), NEW b, NEW p, CopyOf(f, j[k], b, p)
      PROVE  CopyOf(g, j[k], b, p)
  BY <1>1 DEF CopyOf
<1>2. Carried(g, a) = Carried(f, a)
  <2>1. Range(a) \subseteq E
    BY DEF Range
  <2>2. QED
    BY <2>1 DEF Carried
<1>3. pr.kept \in Seq(1..MaxId) /\ Len(pr.kept) \in Nat
  BY DEF Owes
<1>4. LeftToKeep(g, j, pr.kept)
  <2> SUFFICES ASSUME NEW k \in 1..Len(pr.kept), k <= Len(j)
               PROVE  CopyOf(g, j[Len(j) + 1 - k], PruneBranch, pr.kept[k])
    BY DEF LeftToKeep
  <2>1. Len(j) + 1 - k \in 1..Len(j)
    BY <1>3
  <2>2. CopyOf(f, j[Len(j) + 1 - k], PruneBranch, pr.kept[k])
    BY DEF Owes, LeftToKeep
  <2>3. QED
    BY <1>1, <2>1, <2>2
<1>5. ASSUME Len(j) > Len(pr.kept)
      PROVE  Archiving(g, j, Len(j) - Len(pr.kept), pr.archived, a)
  <2> DEFINE n == Len(j) - Len(pr.kept)
  <2>1. n \in 1..Len(j)
    BY <1>3, <1>5
  <2>2. Archiving(f, j, n, pr.archived, a)
    BY <1>5 DEF Owes
  <2> HIDE DEF n
  <2>3. \A k \in 1 .. n - 1 : k \in 1..Len(j)
    BY <2>1
  <2>4. ASSUME NEW p \in pr.archived
        PROVE  \/ \E k \in 1 .. n - 1 : CopyOf(g, j[k], Archive, p)
               \/ ~Empties(j[1], Archive) /\ p \in Carried(g, a)
    <3>1. CASE \E k \in 1 .. n - 1 : CopyOf(f, j[k], Archive, p)
      BY <1>1, <2>3, <3>1
    <3>2. CASE ~Empties(j[1], Archive) /\ p \in Carried(f, a)
      BY <1>2, <3>2
    <3>3. QED
      BY <2>2, <3>1, <3>2 DEF Archiving
  <2>5. Archiving(g, j, n, pr.archived, a)
    BY <2>2, <2>4 DEF Archiving
  <2>6. QED
    BY <2>5 DEF n
<1>6. ASSUME Len(j) <= Len(pr.kept)
      PROVE  Rebuilding(g, j, pr, h, a)
  <2>1. Rebuilding(f, j, pr, h, a)
    BY <1>6 DEF Owes
  <2>2. \A k \in 1..Len(h) : h[k] \in E
    OBVIOUS
  <2>3. QED
    BY <1>2, <2>1, <2>2 DEF Rebuilding
<1>7. QED
  BY <1>3, <1>4, <1>5, <1>6 DEF Owes

(* The copies that are left once the head is made.                         *)
LEMMA KeptTail ==
    ASSUME NEW S, NEW j \in Seq(S), j # <<>>, NEW f, NEW kept \in Seq(1..MaxId),
           LeftToKeep(f, j, kept)
    PROVE  LeftToKeep(f, Tail(j), kept)
<1> DEFINE t == Tail(j)
<1>1. /\ Len(t) = Len(j) - 1 /\ Len(j) \in Nat /\ Len(j) >= 1
      /\ \A k \in 1 .. Len(j) - 1 : t[k] = j[k + 1]
  BY TailIs
<1> HIDE DEF t
<1>2. ASSUME NEW k \in 1..Len(kept), k <= Len(t)
      PROVE  CopyOf(f, t[Len(t) + 1 - k], PruneBranch, kept[k])
  <2>1. Len(kept) \in Nat
    OBVIOUS
  <2>2. Len(t) + 1 - k \in 1 .. Len(j) - 1 /\ Len(t) + 1 - k + 1 = Len(j) + 1 - k /\ k <= Len(j)
    BY <1>1, <1>2, <2>1
  <2>3. t[Len(t) + 1 - k] = j[Len(j) + 1 - k]
    BY <1>1, <2>2
  <2>4. QED
    BY <2>2, <2>3 DEF LeftToKeep
<1>3. QED
  BY <1>2 DEF LeftToKeep, t

(* The branch pruned is not the archive.                                   *)
LEMMA BranchesDiffer == PruneBranch # Archive
BY ConstantsOK DEF Main, Session, Archive

(* What the next save of a prune can be, and where in the job it stands.   *)
LEMMA OwesHead ==
    ASSUME NEW S, NEW j \in Seq(S), j # <<>>, NEW f, NEW pr, NEW h, NEW a,
           Owes(f, j, pr, h, a), NEW n, n = Len(j), NEW r, r = Len(pr.kept)
    PROVE  /\ n \in Nat /\ r \in Nat /\ n >= 1
           /\ \/ /\ n > r + 1 /\ j[1].op = "append" /\ j[1].branch = Archive /\ j[1].copy # 0
              \/ n > r + 1 /\ Empties(j[1], Archive)
              \/ n = r + 1 /\ Empties(j[1], PruneBranch)
              \/ n <= r /\ CopyOf(f, j[1], PruneBranch, pr.kept[n])
<1>1. n \in Nat /\ r \in Nat /\ n >= 1
  BY TailIs DEF Owes
<1>2. CASE n <= r
  <2>1. n \in 1..r /\ n <= n /\ n + 1 - n = 1
    BY <1>1, <1>2
  <2>2. CopyOf(f, j[1], PruneBranch, pr.kept[n])
    BY <2>1 DEF Owes, LeftToKeep
  <2>3. QED
    BY <1>1, <1>2, <2>2
<1>3. CASE n = r + 1
  <2>1. n - r = 1 /\ n > r
    BY <1>1, <1>3
  <2>2. Archiving(f, j, 1, pr.archived, a)
    BY <2>1 DEF Owes
  <2>3. QED
    BY <1>1, <1>3, <2>2 DEF Archiving
<1>4. CASE n > r + 1
  <2>1. n > r /\ 1 \in 1 .. (n - r) - 1
    BY <1>1, <1>4
  <2>2. Archiving(f, j, n - r, pr.archived, a)
    BY <2>1 DEF Owes
  <2>3. \/ j[1].op = "append" /\ j[1].branch = Archive /\ j[1].copy # 0
        \/ Empties(j[1], Archive)
    BY <2>1, <2>2 DEF Archiving
  <2>4. QED
    BY <1>1, <1>4, <2>3
<1>5. QED
  BY <1>1, <1>2, <1>3, <1>4

(* The saves left once the archive is opened or has one more entry.        *)
LEMMA ArchivingTail ==
    ASSUME NEW S, NEW j \in Seq(S), NEW f, NEW m \in Nat, m > 1, m <= Len(j),
           NEW owed, NEW a, NEW b, Archiving(f, j, m, owed, a),
           \A p \in owed : CopyOf(f, j[1], Archive, p) => p \in Carried(f, b),
           ~Empties(j[1], Archive) => Carried(f, a) \subseteq Carried(f, b)
    PROVE  Archiving(f, Tail(j), m - 1, owed, b)
<1> DEFINE t == Tail(j)
<1>0. j # <<>>
  OBVIOUS
<1>1. Len(j) \in Nat /\ \A k \in 1 .. Len(j) - 1 : t[k] = j[k + 1]
  BY <1>0, TailIs
<1> HIDE DEF t
<1>2. \A k \in 1 .. m - 1 : t[k] = j[k + 1] /\ k + 1 \in 1..m
  BY <1>1
<1>3. Empties(t[m - 1], PruneBranch)
  BY <1>2 DEF Archiving
<1>4. \A k \in 1 .. (m - 1) - 1 : t[k].op = "append" /\ t[k].branch = Archive /\ t[k].copy # 0
  <2> SUFFICES ASSUME NEW k \in 1 .. (m - 1) - 1
               PROVE  t[k].op = "append" /\ t[k].branch = Archive /\ t[k].copy # 0
    OBVIOUS
  <2>1. k + 1 \in 1 .. m - 1 /\ k + 1 # 1 /\ t[k] = j[k + 1]
    BY <1>2
  <2>2. QED
    BY <2>1 DEF Archiving
<1>5. ~Empties(t[1], Archive)
  <2>1. CASE m = 2
    BY <1>3, <2>1, BranchesDiffer DEF Empties
  <2>2. CASE m > 2
    BY <1>4, <2>2 DEF Empties
  <2>3. QED
    BY <2>1, <2>2
<1>6. ASSUME NEW p \in owed
      PROVE  \/ \E k \in 1 .. (m - 1) - 1 : CopyOf(f, t[k], Archive, p)
             \/ p \in Carried(f, b)
  <2>1. CASE \E k \in 1 .. m - 1 : CopyOf(f, j[k], Archive, p)
    <3>1. PICK k \in 1 .. m - 1 : CopyOf(f, j[k], Archive, p)
      BY <2>1
    <3>2. CASE k = 1
      BY <3>1, <3>2
    <3>3. CASE k # 1
      <4>1. k - 1 \in 1 .. (m - 1) - 1 /\ t[k - 1] = j[k]
        BY <1>2, <3>3
      <4>2. QED
        BY <3>1, <4>1
    <3>4. QED
      BY <3>2, <3>3
  <2>2. CASE ~Empties(j[1], Archive) /\ p \in Carried(f, a)
    BY <2>2
  <2>3. QED
    BY <2>1, <2>2 DEF Archiving
<1>7. Archiving(f, t, m - 1, owed, b)
  BY <1>3, <1>4, <1>5, <1>6 DEF Archiving
<1>8. QED
  BY <1>7 DEF t

(* A copy to the archive.                                                  *)
LEMMA OwesArchives ==
    ASSUME NEW S, NEW j \in Seq(S), j # <<>>, NEW f, NEW pr, NEW h, NEW E, NEW a \in Seq(E),
           Owes(f, j, pr, h, a), NEW i,
           j[1].op = "append", j[1].branch = Archive, f[i].payload = f[j[1].copy].payload
    PROVE  Owes(f, Tail(j), pr, h, <<i>> \o a)
<1> DEFINE n == Len(j)
           r == Len(pr.kept)
           b == <<i>> \o a
<1>1. n \in Nat /\ r \in Nat /\ n > r + 1
  BY OwesHead, BranchesDiffer DEF Empties, CopyOf
<1>2. Archiving(f, j, n - r, pr.archived, a) /\ LeftToKeep(f, j, pr.kept)
      /\ pr.kept \in Seq(1..MaxId)
  BY <1>1 DEF Owes
<1>3. Range(b) = {i} \cup Range(a)
  BY OnTopIs
<1> HIDE DEF b
<1>4. /\ \A p \in pr.archived : CopyOf(f, j[1], Archive, p) => p \in Carried(f, b)
      /\ Carried(f, a) \subseteq Carried(f, b)
  BY <1>3 DEF CopyOf, Carried
<1>5. n - r \in Nat /\ n - r > 1 /\ n - r <= n /\ (n - r) - 1 = (n - 1) - r /\ n - 1 > r
  BY <1>1
<1>6. Archiving(f, Tail(j), (n - 1) - r, pr.archived, b)
  <2> DEFINE m == n - r
  <2>1. Archiving(f, j, m, pr.archived, a) /\ m \in Nat /\ m > 1 /\ m <= Len(j)
    BY <1>2, <1>5
  <2> HIDE DEF m
  <2>2. Archiving(f, Tail(j), m - 1, pr.archived, b)
    BY <1>4, <2>1, ArchivingTail
  <2>3. QED
    BY <1>5, <2>2 DEF m
<1>7. Len(Tail(j)) = n - 1
  BY TailIs
<1>8. LeftToKeep(f, Tail(j), pr.kept)
  BY <1>2, KeptTail
<1>9. ~ (n - 1 <= r)
  BY <1>1
<1> DEFINE t == Tail(j)
<1> HIDE DEF t
<1>10. Owes(f, t, pr, h, b)
  BY <1>2, <1>6, <1>7, <1>8, <1>9 DEF Owes, t
<1>11. QED
  BY <1>10 DEF t, b

(* The opening of the archive.                                             *)
LEMMA OwesOpens ==
    ASSUME NEW S, NEW j \in Seq(S), j # <<>>, NEW f, NEW pr, NEW h, NEW a,
           Owes(f, j, pr, h, a), Empties(j[1], Archive)
    PROVE  Owes(f, Tail(j), pr, h, <<>>)
<1> DEFINE n == Len(j)
           r == Len(pr.kept)
<1>1. n \in Nat /\ r \in Nat /\ n > r + 1
  BY OwesHead, BranchesDiffer DEF Empties, CopyOf
<1>2. Archiving(f, j, n - r, pr.archived, a) /\ LeftToKeep(f, j, pr.kept)
      /\ pr.kept \in Seq(1..MaxId)
  BY <1>1 DEF Owes
<1>3. \A p \in pr.archived : ~ CopyOf(f, j[1], Archive, p)
  BY DEF CopyOf, Empties
<1>4. n - r \in Nat /\ n - r > 1 /\ n - r <= n /\ (n - r) - 1 = (n - 1) - r /\ n - 1 > r
  BY <1>1
<1>5. Archiving(f, Tail(j), (n - 1) - r, pr.archived, <<>>)
  <2> DEFINE m == n - r
  <2>1. Archiving(f, j, m, pr.archived, a) /\ m \in Nat /\ m > 1 /\ m <= Len(j)
    BY <1>2, <1>4
  <2> HIDE DEF m
  <2>2. Archiving(f, Tail(j), m - 1, pr.archived, <<>>)
    BY <1>3, <2>1, ArchivingTail
  <2>3. QED
    BY <1>4, <2>2 DEF m
<1>6. Len(Tail(j)) = n - 1 /\ LeftToKeep(f, Tail(j), pr.kept) /\ ~ (n - 1 <= r)
  BY <1>1, <1>2, TailIs, KeptTail
<1> DEFINE t == Tail(j)
<1> HIDE DEF t
<1>7. Owes(f, t, pr, h, <<>>)
  BY <1>2, <1>5, <1>6 DEF Owes, t
<1>8. QED
  BY <1>7 DEF t

(* The emptying of the branch: the archive is complete.                    *)
LEMMA OwesEmpties ==
    ASSUME NEW S, NEW j \in Seq(S), j # <<>>, NEW f, NEW pr, NEW h, NEW a,
           Owes(f, j, pr, h, a), Empties(j[1], PruneBranch)
    PROVE  Owes(f, Tail(j), pr, <<>>, a)
<1> DEFINE n == Len(j)
           r == Len(pr.kept)
<1>1. n \in Nat /\ r \in Nat /\ n = r + 1
  BY OwesHead, BranchesDiffer DEF Empties, CopyOf
<1>2. LeftToKeep(f, j, pr.kept) /\ pr.kept \in Seq(1..MaxId)
  BY DEF Owes
<1>3. Archiving(f, j, 1, pr.archived, a)
  <2>1. n > r /\ n - r = 1
    BY <1>1
  <2>2. QED
    BY <2>1 DEF Owes
<1>4. pr.archived \subseteq Carried(f, a)
  BY <1>3 DEF Archiving
<1> DEFINE t == Tail(j)
<1>5. Len(t) = r /\ LeftToKeep(f, t, pr.kept)
  BY <1>1, <1>2, TailIs, KeptTail
<1> HIDE DEF t
<1>6. Rebuilding(f, t, pr, <<>>, a)
  BY <1>1, <1>4, <1>5 DEF Rebuilding
<1>a. ~ (r > r) /\ r <= r
  BY <1>1
<1>7. Owes(f, t, pr, <<>>, a)
  BY <1>a, <1>2, <1>5, <1>6 DEF Owes
<1>8. QED
  BY <1>7 DEF t

(* A copy to the branch.                                                   *)
LEMMA OwesRebuilds ==
    ASSUME NEW S, NEW j \in Seq(S), j # <<>>, NEW f, NEW pr, NEW E, NEW h \in Seq(E), NEW a,
           Owes(f, j, pr, h, a), NEW i,
           j[1].op = "append", j[1].branch = PruneBranch, f[i].payload = f[j[1].copy].payload
    PROVE  Owes(f, Tail(j), pr, <<i>> \o h, a)
<1> DEFINE n == Len(j)
           r == Len(pr.kept)
           c == <<i>> \o h
<1>1. n \in Nat /\ r \in Nat /\ n >= 1 /\ n <= r /\ CopyOf(f, j[1], PruneBranch, pr.kept[n])
  <2>1. j[1].op # "null" /\ j[1].branch # Archive
    BY BranchesDiffer
  <2>2. ~Empties(j[1], Archive) /\ ~Empties(j[1], PruneBranch)
    BY <2>1 DEF Empties
  <2>3. QED
    BY <2>1, <2>2, OwesHead
<1>2. LeftToKeep(f, j, pr.kept) /\ pr.kept \in Seq(1..MaxId)
  BY DEF Owes
<1>3. Rebuilding(f, j, pr, h, a)
  BY <1>1 DEF Owes
<1> DEFINE t == Tail(j)
<1>4. Len(t) = n - 1 /\ LeftToKeep(f, t, pr.kept)
  BY <1>2, TailIs, KeptTail
<1>5. Len(c) = Len(h) + 1 /\ c[1] = i /\ \A k \in 1..Len(h) : c[k + 1] = h[k]
  BY OnTopIs
<1> HIDE DEF t, c
<1>6. Len(h) \in Nat /\ Len(h) = r - n
  BY <1>3 DEF Rebuilding
<1>7. ASSUME NEW k \in 1..Len(c) PROVE f[c[k]].payload = pr.kept[Len(t) + k]
  <2>1. CASE k = 1
    BY <1>1, <1>4, <1>5, <2>1 DEF CopyOf
  <2>2. CASE k # 1
    <3>1. k - 1 \in 1..Len(h) /\ c[k] = h[k - 1] /\ n + (k - 1) = (n - 1) + k
      BY <1>1, <1>5, <1>6, <2>2
    <3>2. f[h[k - 1]].payload = pr.kept[n + (k - 1)]
      BY <1>3, <3>1 DEF Rebuilding
    <3>3. QED
      BY <1>4, <3>1, <3>2
  <2>3. QED
    BY <2>1, <2>2
<1>8. Rebuilding(f, t, pr, c, a)
  BY <1>1, <1>3, <1>4, <1>5, <1>6, <1>7 DEF Rebuilding
<1>a. ~ (n - 1 > r)
  BY <1>1
<1>9. Owes(f, t, pr, c, a)
  BY <1>a, <1>2, <1>4, <1>8 DEF Owes
<1>10. QED
  BY <1>9 DEF t, c

(* The saves that copy entries, one by one.                                *)
LEMMA CopyAt ==
    ASSUME NEW b, NEW ids \in Seq(Entry)
    PROVE  /\ Len(Copies(b, ids)) = Len(ids)
           /\ \A k \in 1..Len(ids) :
                 Copies(b, ids)[k] = [op |-> "append", branch |-> b,
                                      prot |-> info[ids[k]].prot, copy |-> ids[k]]
<1>1. Len(ids) \in Nat
  OBVIOUS
<1>2. QED
  BY <1>1 DEF Copies

(* A sequence reversed, element by element.                                *)
LEMMA ReverseAt ==
    ASSUME NEW E, NEW ids \in Seq(E)
    PROVE  /\ Len(Reverse(ids)) = Len(ids) /\ Reverse(ids) \in Seq(E)
           /\ \A k \in 1..Len(ids) : Reverse(ids)[k] = ids[Len(ids) + 1 - k]
<1>1. Len(ids) \in Nat
  OBVIOUS
<1>2. Reverse(ids) \in Seq(E)
  BY ReverseOK
<1>3. \A k \in 1..Len(ids) : (Len(ids) - k) + 1 = Len(ids) + 1 - k
  BY <1>1
<1>4. QED
  BY <1>1, <1>2, <1>3 DEF Reverse

(* One sequence after another, element by element.                         *)
LEMMA CatAt ==
    ASSUME NEW S, NEW a \in Seq(S), NEW b \in Seq(S)
    PROVE  /\ a \o b \in Seq(S) /\ Len(a \o b) = Len(a) + Len(b)
           /\ Len(a) \in Nat /\ Len(b) \in Nat
           /\ \A k \in 1..Len(a) : (a \o b)[k] = a[k]
           /\ \A k \in 1..Len(b) : (a \o b)[Len(a) + k] = b[k]
OBVIOUS

(* The contents of a sequence of entries, element by element.              *)
LEMMA PayloadsAre ==
    ASSUME TypeOK, NEW ids \in Seq(Entry)
    PROVE  /\ Payloads(ids) \in Seq(1..MaxId) /\ Len(Payloads(ids)) = Len(ids)
           /\ \A k \in 1..Len(ids) : Payloads(ids)[k] = info[ids[k]].payload
<1>1. Len(ids) \in Nat /\ \A k \in 1..Len(ids) : ids[k] \in Entry
  OBVIOUS
<1>2. \A i \in Entry : info[i].payload \in 1..MaxId
  <2>1. \A i \in Entry : info[i] \in Info
    BY TypesAre DEF Entry
  <2>2. \A e \in Info : e.payload \in 1..MaxId
    BY DEF Info
  <2>3. QED
    BY <2>1, <2>2
<1>3. QED
  BY <1>1, <1>2 DEF Payloads

(* The saves of a prune by age, and what they owe.                         *)
LEMMA OwesStarts ==
    ASSUME TypeOK, NEW open \in Seq(SaveStep), NEW keep \in Seq(Entry), NEW archive \in Seq(Entry),
           Len(open) = 0 \/ (Len(open) = 1 /\ Empties(open[1], Archive)),
           NEW h, NEW a
    PROVE  Owes(info, open \o Copies(Archive, Reverse(archive))
                        \o <<[op |-> "null", name |-> PruneBranch]>>
                        \o Copies(PruneBranch, RebuildOrder(keep)),
                [kept |-> Payloads(keep), archived |-> Range(Payloads(archive))], h, a)
<1> DEFINE empty   == <<[op |-> "null", name |-> PruneBranch]>>
           moved   == Copies(Archive, Reverse(archive))
           rebuilt == Copies(PruneBranch, RebuildOrder(keep))
           first   == open \o moved
           most    == first \o empty
           saves   == most \o rebuilt
           x == Len(open)
           y == Len(archive)
           r == Len(keep)
           kept  == Payloads(keep)
           owed  == Range(Payloads(archive))
<1>1. /\ Archive \in Branch /\ PruneBranch \in Branch
      /\ Reverse(archive) \in Seq(Entry) /\ Reverse(keep) \in Seq(Entry)
  BY ConstantsOK, ReverseOK DEF Branch
<1>2. moved \in Seq(SaveStep) /\ rebuilt \in Seq(SaveStep) /\ empty \in Seq(SaveStep)
  BY <1>1, CopiesOK, StepOK DEF RebuildOrder
<1>3. /\ Len(moved) = y /\ x \in Nat /\ y \in Nat
      /\ \A k \in 1..y : /\ moved[k].op = "append" /\ moved[k].branch = Archive
                         /\ moved[k].copy = archive[y + 1 - k]
  <2>1. y \in Nat /\ Len(Reverse(archive)) = y
        /\ \A k \in 1..y : Reverse(archive)[k] = archive[y + 1 - k]
    BY ReverseAt
  <2> DEFINE ids == Reverse(archive)
  <2>2. /\ Len(moved) = Len(ids)
        /\ \A k \in 1..Len(ids) : /\ moved[k].op = "append" /\ moved[k].branch = Archive
                                   /\ moved[k].copy = ids[k]
    <3>1. /\ Len(moved) = Len(ids)
          /\ \A k \in 1..Len(ids) : moved[k] = [op |-> "append", branch |-> Archive,
                                                  prot |-> info[ids[k]].prot, copy |-> ids[k]]
      BY <1>1, CopyAt
    <3> HIDE DEF ids, moved
    <3>2. ASSUME NEW k \in 1..Len(ids)
          PROVE  moved[k].op = "append" /\ moved[k].branch = Archive /\ moved[k].copy = ids[k]
      <4> DEFINE p == info[ids[k]].prot
      <4>1. moved[k] = [op |-> "append", branch |-> Archive, prot |-> p, copy |-> ids[k]]
        BY <3>1
      <4> HIDE DEF p
      <4>2. QED
        BY <4>1
    <3>3. QED
      BY <3>1, <3>2
  <2>3. x \in Nat
    OBVIOUS
  <2> HIDE DEF ids, moved, x
  <2>4. QED
    BY <2>1, <2>2, <2>3 DEF ids
<1>4. /\ Len(rebuilt) = r /\ r \in Nat
      /\ \A k \in 1..r : /\ rebuilt[k].op = "append" /\ rebuilt[k].branch = PruneBranch
                         /\ rebuilt[k].copy = keep[r + 1 - k]
  <2>1. r \in Nat /\ Len(Reverse(keep)) = r
        /\ \A k \in 1..r : Reverse(keep)[k] = keep[r + 1 - k]
    BY ReverseAt
  <2> DEFINE ids == Reverse(keep)
  <2>2. /\ Len(rebuilt) = Len(ids)
        /\ \A k \in 1..Len(ids) : /\ rebuilt[k].op = "append" /\ rebuilt[k].branch = PruneBranch
                                   /\ rebuilt[k].copy = ids[k]
    <3>1. /\ Len(rebuilt) = Len(ids)
          /\ \A k \in 1..Len(ids) : rebuilt[k] = [op |-> "append", branch |-> PruneBranch,
                                                    prot |-> info[ids[k]].prot, copy |-> ids[k]]
      BY <1>1, CopyAt DEF RebuildOrder
    <3> HIDE DEF ids, rebuilt
    <3>2. ASSUME NEW k \in 1..Len(ids)
          PROVE  rebuilt[k].op = "append" /\ rebuilt[k].branch = PruneBranch /\ rebuilt[k].copy = ids[k]
      <4> DEFINE p == info[ids[k]].prot
      <4>1. rebuilt[k] = [op |-> "append", branch |-> PruneBranch, prot |-> p, copy |-> ids[k]]
        BY <3>1
      <4> HIDE DEF p
      <4>2. QED
        BY <4>1
    <3>3. QED
      BY <3>1, <3>2
  <2> HIDE DEF ids, rebuilt
  <2>3. QED
    BY <2>1, <2>2 DEF ids
<1>5. Len(empty) = 1 /\ Empties(empty[1], PruneBranch)
  BY DEF Empties
<1>6. /\ kept \in Seq(1..MaxId) /\ Len(kept) = r
      /\ \A k \in 1..r : kept[k] = info[keep[k]].payload
  BY PayloadsAre
<1>7. \A p \in owed : \E m \in 1..y : p = info[archive[m]].payload
  <2>1. /\ Payloads(archive) \in Seq(1..MaxId) /\ Len(Payloads(archive)) = y
        /\ \A k \in 1..y : Payloads(archive)[k] = info[archive[k]].payload
    BY PayloadsAre
  <2> DEFINE c == Payloads(archive)
  <2> HIDE DEF c
  <2>2. DOMAIN c = 1..y
    BY <2>1 DEF c
  <2>3. QED
    BY <2>1, <2>2 DEF Range, c
<1>8. 0 \notin Entry /\ (\A k \in 1..y : archive[k] \in Entry) /\ (\A k \in 1..r : keep[k] \in Entry)
  BY DEF Entry
<1> HIDE DEF moved, rebuilt, empty, kept, owed
<1>9. /\ first \in Seq(SaveStep) /\ Len(first) = x + y
      /\ \A k \in 1..x : first[k] = open[k]
      /\ \A k \in 1..y : first[x + k] = moved[k]
  <2>1. /\ first \in Seq(SaveStep) /\ Len(first) = x + Len(moved)
        /\ \A k \in 1..x : first[k] = open[k]
        /\ \A k \in 1..Len(moved) : first[x + k] = moved[k]
    BY <1>2, CatAt
  <2>2. QED
    BY <1>3, <2>1
<1> HIDE DEF first
<1>10. /\ most \in Seq(SaveStep) /\ Len(most) = x + y + 1
       /\ \A k \in 1 .. x + y : most[k] = first[k]
       /\ most[x + y + 1] = empty[1]
  <2>1. /\ most \in Seq(SaveStep) /\ Len(most) = Len(first) + Len(empty)
        /\ \A k \in 1..Len(first) : most[k] = first[k]
        /\ \A k \in 1..Len(empty) : most[Len(first) + k] = empty[k]
    <3>1. first \in Seq(SaveStep) /\ empty \in Seq(SaveStep)
      BY <1>2, <1>9
    <3>2. QED
      BY <3>1, CatAt
  <2>2. 1 \in 1..Len(empty)
    BY <1>5
  <2>3. QED
    BY <1>3, <1>5, <1>9, <2>1, <2>2
<1> HIDE DEF most
<1>11. /\ saves \in Seq(SaveStep) /\ Len(saves) = x + y + 1 + r
       /\ \A k \in 1 .. x + y + 1 : saves[k] = most[k]
       /\ \A k \in 1..r : saves[x + y + 1 + k] = rebuilt[k]
  <2>1. /\ saves \in Seq(SaveStep) /\ Len(saves) = Len(most) + Len(rebuilt)
        /\ \A k \in 1..Len(most) : saves[k] = most[k]
        /\ \A k \in 1..Len(rebuilt) : saves[Len(most) + k] = rebuilt[k]
    <3>1. most \in Seq(SaveStep) /\ rebuilt \in Seq(SaveStep)
      BY <1>2, <1>10
    <3>2. QED
      BY <3>1, CatAt
  <2>2. QED
    BY <1>3, <1>4, <1>10, <2>1
<1> HIDE DEF saves
<1>12. LeftToKeep(info, saves, kept)
  <2> SUFFICES ASSUME NEW k \in 1..r, k <= Len(saves)
               PROVE  CopyOf(info, saves[Len(saves) + 1 - k], PruneBranch, kept[k])
    BY <1>6 DEF LeftToKeep
  <2>1. /\ Len(saves) + 1 - k = x + y + 1 + (r + 1 - k) /\ r + 1 - k \in 1..r
        /\ r + 1 - (r + 1 - k) = k
    BY <1>3, <1>4, <1>11
  <2>2. /\ rebuilt[r + 1 - k].op = "append" /\ rebuilt[r + 1 - k].branch = PruneBranch
        /\ rebuilt[r + 1 - k].copy = keep[k]
    BY <1>4, <2>1
  <2>3. saves[Len(saves) + 1 - k] = rebuilt[r + 1 - k]
    BY <1>11, <2>1
  <2>4. QED
    BY <1>6, <1>8, <2>2, <2>3 DEF CopyOf
<1>13. Len(saves) - r = x + y + 1 /\ Len(saves) > r
  BY <1>3, <1>4, <1>11
<1>14. \A k \in 1..y : saves[x + k] = moved[k]
  <2>1. \A k \in 1..y : x + k \in 1 .. x + y /\ x + k \in 1 .. x + y + 1
    BY <1>3
  <2>2. QED
    BY <1>9, <1>10, <1>11, <2>1
<1>15. Archiving(info, saves, x + y + 1, owed, a)
  <2>1. Empties(saves[x + y + 1], PruneBranch)
    BY <1>3, <1>5, <1>10, <1>11
  <2>2. ASSUME NEW k \in 1 .. (x + y + 1) - 1
        PROVE  \/ saves[k].op = "append" /\ saves[k].branch = Archive /\ saves[k].copy # 0
               \/ k = 1 /\ Empties(saves[k], Archive)
    <3>1. CASE k <= x
      <4>1. k = 1 /\ x = 1 /\ k \in 1..x /\ k \in 1 .. x + y /\ k \in 1 .. x + y + 1
        <5>1. x = 0 \/ x = 1
          OBVIOUS
        <5> HIDE DEF x
        <5>2. QED
          BY <1>3, <3>1, <5>1
      <4>2. saves[k] = open[1]
        BY <1>9, <1>10, <1>11, <4>1
      <4>3. QED
        BY <4>1, <4>2
    <3>2. CASE k > x
      <4>1. k - x \in 1..y /\ x + (k - x) = k /\ y + 1 - (k - x) \in 1..y
        BY <1>3, <3>2
      <4>2. saves[k] = moved[k - x]
        BY <1>14, <4>1
      <4>3. QED
        BY <1>3, <1>8, <4>1, <4>2
    <3>3. QED
      BY <1>3, <3>1, <3>2
  <2>3. ASSUME NEW p \in owed
        PROVE  \E k \in 1 .. (x + y + 1) - 1 : CopyOf(info, saves[k], Archive, p)
    <3>1. PICK m \in 1..y : p = info[archive[m]].payload
      BY <1>7
    <3>2. /\ y + 1 - m \in 1..y /\ y + 1 - (y + 1 - m) = m
          /\ x + (y + 1 - m) \in 1 .. (x + y + 1) - 1
      BY <1>3
    <3>3. saves[x + (y + 1 - m)] = moved[y + 1 - m] /\ moved[y + 1 - m].copy = archive[m]
      BY <1>3, <1>14, <3>2
    <3>4. CopyOf(info, saves[x + (y + 1 - m)], Archive, p)
      BY <1>3, <1>8, <3>1, <3>2, <3>3 DEF CopyOf
    <3>5. QED
      BY <3>2, <3>4
  <2>4. QED
    BY <2>1, <2>2, <2>3 DEF Archiving
<1> DEFINE pr == [kept |-> kept, archived |-> owed]
<1>16. Owes(info, saves, pr, h, a)
  <2>1. pr.kept = kept /\ pr.archived = owed
    OBVIOUS
  <2> HIDE DEF pr
  <2>2. ~ (Len(saves) <= r)
    BY <1>4, <1>11, <1>13
  <2>3. QED
    BY <1>6, <1>12, <1>13, <1>15, <2>1, <2>2 DEF Owes
<1>17. QED
  BY <1>16 DEF saves, most, first, moved, rebuilt, empty, kept, owed

(* What a server owes while it does nothing and its peers save.            *)
LEMMA OwesOn ==
    ASSUME TypeOK, TypeOK', EntriesStay, PruneInv, NEW t \in Server,
           mem'[t] = mem[t], job'[t] = job[t], promise'[t] = promise[t],
           promise[t] # NoPromise
    PROVE  Owes(info', job'[t], promise'[t], History(mem[t], PruneBranch)',
                History(mem[t], Archive)')
<1> DEFINE h == History(mem[t], PruneBranch)
           a == History(mem[t], Archive)
           j == job[t]
<1>1. PruneBranch \in Branch /\ Archive \in Branch
  BY ConstantsOK DEF Branch
<1>2. h \in Seq(Entry) /\ a \in Seq(Entry)
  <2>1. \A c \in Seq(mem[t].ids) : mem[t].ids \subseteq Entry => c \in Seq(Entry)
    OBVIOUS
  <2>2. QED
    BY <1>1, <2>1, HistoryOK
<1>3. History(mem[t], PruneBranch)' = h /\ History(mem[t], Archive)' = a
  BY <1>1, SameHistory
<1>4. Owes(info, j, promise[t], h, a)
  BY DEF PruneInv
<1>5. j \in Seq(SaveStep)
  BY TypeParts DEF Calls
<1> HIDE DEF h, a, j
<1>6. /\ Len(j) \in Nat
      /\ \A k \in 1..Len(j) : j[k].op = "append" => j[k].copy \in {0} \cup Entry
  <2>1. \A k \in 1..Len(j) : j[k] \in SaveStep
    BY <1>5
  <2>2. QED
    BY <1>5, <2>1, StepIs
<1>7. \A i \in Entry : info'[i] = info[i]
  BY DEF EntriesStay
<1>8. Owes(info', j, promise[t], h, a)
  BY <1>2, <1>4, <1>6, <1>7, OwesStays
<1>9. QED
  BY <1>3, <1>8 DEF j

(* A step of server s, as far as the promises of the others go.            *)
OthersIdle(s) ==
    /\ EntriesStay /\ promise' = [t \in Server |-> promise'[t]]
    /\ \A t \in Server \ {s} : /\ mem'[t] = mem[t] /\ job'[t] = job[t]
                               /\ promise'[t] = promise[t]
                               /\ t \in up <=> t \in up'

OwedBy(s) == promise'[s] # NoPromise =>
                Owes(info', job'[s], promise'[s], History(mem[s], PruneBranch)',
                     History(mem[s], Archive)')

(* What the other servers owe is as it was.                                *)
LEMMA OnlyOwes ==
    ASSUME TypeOK, TypeOK', PruneInv, NEW s \in Server, OthersIdle(s),
           s \notin up' => promise'[s] = NoPromise, OwedBy(s)
    PROVE  PruneInv'
<1>1. ASSUME NEW t \in Server
      PROVE  t \notin up' => promise'[t] = NoPromise
  BY DEF OthersIdle, PruneInv
<1>2. ASSUME NEW t \in Server, promise'[t] # NoPromise
      PROVE  Owes(info', job'[t], promise'[t], History(mem[t], PruneBranch)',
                  History(mem[t], Archive)')
  <2>1. CASE t = s
    BY <1>2, <2>1 DEF OwedBy
  <2>2. CASE t # s
    BY <1>2, <2>2, OwesOn DEF OthersIdle
  <2>3. QED
    BY <2>1, <2>2
<1>3. QED
  BY <1>1, <1>2 DEF PruneInv, OthersIdle

(* A tool that ends within the step owes nothing.                          *)
LEMMA ReturnedOwes ==
    ASSUME TypeOK, TypeOK', PruneInv, NEW s \in Server, Returned(s), EntriesStay,
           \A t \in Server \ {s} : mem'[t] = mem[t]
    PROVE  PruneInv'
<1>1. promise' = [promise EXCEPT ![s] = NoPromise] /\ UNCHANGED <<up, job>>
  BY DEF Returned
<1>2. promise'[s] = NoPromise
  BY <1>1 DEF PruneInv
<1>3. OthersIdle(s)
  BY <1>1 DEF PruneInv, OthersIdle
<1>4. OwedBy(s)
  BY <1>2 DEF OwedBy
<1>5. QED
  BY <1>2, <1>3, <1>4, OnlyOwes

(* A save leaves the other servers alone.                                  *)
LEMMA SaveSpares ==
    ASSUME TypeOK, NEW s \in Server, NEW L, Save(s, L), UNCHANGED info
    PROVE  EntriesStay /\ \A t \in Server \ {s} : mem'[t] = mem[t]
BY TypesAre DEF Save, EntriesStay, Entry

(* So does an append.                                                      *)
LEMMA AppendSpares ==
    ASSUME TypeOK, NEW s \in Server, NEW b \in Branch, NEW parent, Appended(s, b, parent)
    PROVE  EntriesStay /\ \A t \in Server \ {s} : mem'[t] = mem[t]
<1>1. EntriesStay
  BY AppendGrows DEF EntriesStay
<1>2. PICK L : Save(s, L)
  BY DEF Appended
<1>3. QED
  BY <1>1, <1>2, TypesAre DEF Save

(* The call of a prune by age.                                             *)
LEMMA PruneAgeOwes ==
    ASSUME TypeOK, TypeOK', PruneInv, NEW s \in Server, NEW cutoff \in Entry,
           PruneAge(s, cutoff)
    PROVE  PruneInv'
<1> DEFINE history == History(mem[s], PruneBranch)
           keep    == Only(history, Entry \ Old(cutoff))
           archive == Only(history, Old(cutoff))
           open    == IF mem[s].tips[Archive] = undefined
                      THEN <<[op |-> "null", name |-> Archive]>> ELSE <<>>
           saves   == open \o Copies(Archive, Reverse(archive))
                        \o <<[op |-> "null", name |-> PruneBranch]>>
                        \o Copies(PruneBranch, RebuildOrder(keep))
           owed    == [kept |-> Payloads(keep), archived |-> Range(Payloads(archive))]
<1>1. Call(s, saves, owed)
  BY DEF PruneAge
<1>2. Archive \in Branch /\ PruneBranch \in Branch
  BY ConstantsOK DEF Branch
<1>3. history \in Seq(Entry)
  <2>1. \A c \in Seq(mem[s].ids) : mem[s].ids \subseteq Entry => c \in Seq(Entry)
    OBVIOUS
  <2>2. QED
    BY <1>2, <2>1, HistoryOK
<1> HIDE DEF history
<1>4. keep \in Seq(Entry) /\ archive \in Seq(Entry)
  BY <1>3, OnlyIn
<1>5. open \in Seq(SaveStep) /\ (Len(open) = 0 \/ (Len(open) = 1 /\ Empties(open[1], Archive)))
  BY <1>2, StepOK DEF Empties
<1> HIDE DEF keep, archive, open
<1>6. ASSUME NEW h, NEW a PROVE Owes(info, saves, owed, h, a)
  BY <1>4, <1>5, OwesStarts
<1> HIDE DEF saves, owed
<1>7. /\ job' = [job EXCEPT ![s] = saves] /\ promise' = [promise EXCEPT ![s] = owed]
      /\ UNCHANGED <<info, mem, up>> /\ s \in up
  BY <1>1 DEF Call, Ready
<1>8. job'[s] = saves /\ promise'[s] = owed
  BY <1>7, TypeParts DEF Calls, PruneInv
<1>9. OthersIdle(s)
  BY <1>7, TypeParts DEF OthersIdle, EntriesStay, Entry, Calls, PruneInv
<1>10. OwedBy(s)
  BY <1>6, <1>7, <1>8 DEF OwedBy
<1>11. QED
  BY <1>7, <1>9, <1>10, OnlyOwes

(* The other calls owe nothing.                                            *)
LEMMA CallOwes ==
    ASSUME TypeOK, TypeOK', PruneInv, NEW s \in Server, NEW saves, Call(s, saves, NoPromise)
    PROVE  PruneInv'
<1>1. /\ job' = [job EXCEPT ![s] = saves] /\ promise' = [promise EXCEPT ![s] = NoPromise]
      /\ UNCHANGED <<info, mem, up>> /\ s \in up
  BY DEF Call, Ready
<1>2. promise'[s] = NoPromise
  BY <1>1 DEF PruneInv
<1>3. OthersIdle(s)
  BY <1>1, TypeParts DEF OthersIdle, EntriesStay, Entry, Calls, PruneInv
<1>4. QED
  BY <1>1, <1>2, <1>3, OnlyOwes DEF OwedBy

(* The next save of a call is one more that is not owed.                   *)
LEMMA ProceedOwes ==
    ASSUME TypeOK, TypeOK', PruneInv, NEW s \in Server, Proceed(s), job[s] # <<>>, EntriesStay,
           \A t \in Server \ {s} : mem'[t] = mem[t],
           promise[s] # NoPromise =>
              Owes(info', Tail(job[s]), promise[s], History(mem[s], PruneBranch)',
                   History(mem[s], Archive)')
    PROVE  PruneInv'
<1>1. job' = [job EXCEPT ![s] = Tail(job[s])] /\ UNCHANGED <<up, promise>>
  BY DEF Proceed
<1>2. job'[s] = Tail(job[s])
  BY <1>1, TypeParts DEF Calls
<1>3. OthersIdle(s)
  BY <1>1, TypeParts DEF OthersIdle, Calls, PruneInv
<1>4. OwedBy(s)
  BY <1>1, <1>2 DEF OwedBy
<1>5. s \notin up' => promise'[s] = NoPromise
  BY <1>1 DEF PruneInv
<1>6. QED
  BY <1>3, <1>4, <1>5, OnlyOwes

(* An append of a prune: to the archive, or to the branch rebuilt.         *)
LEMMA JobAppendOwes ==
    ASSUME TypeOK, TypeOK', PruneInv, NEW s \in Server, job[s] # <<>>, JobAppend(s)
    PROVE  PruneInv'
<1> DEFINE j == job[s]
           h == History(mem[s], PruneBranch)
           a == History(mem[s], Archive)
           o == Head(j)
<1>1. j \in Seq(SaveStep) /\ o = j[1] /\ o \in SaveStep /\ o.op = "append"
  BY TypeParts DEF Calls, JobAppend
<1>2. EntriesStay /\ \A t \in Server \ {s} : mem'[t] = mem[t]
  BY JobAppendIs, AppendSpares
<1>3. ASSUME promise[s] # NoPromise
      PROVE  Owes(info', Tail(j), promise[s], History(mem[s], PruneBranch)',
                  History(mem[s], Archive)')
  <2>1. Owes(info, j, promise[s], h, a)
    BY <1>3 DEF PruneInv
  <2>2. o.copy # 0 /\ o.branch \in {Archive, PruneBranch}
    <3> DEFINE pr == promise[s]
               n == Len(j)
               r == Len(pr.kept)
    <3>1. Owes(info, j, pr, h, a) /\ j # <<>>
      BY <2>1
    <3> HIDE DEF j, h, a, pr, n, r
    <3>2. \/ /\ n > r + 1 /\ j[1].op = "append" /\ j[1].branch = Archive /\ j[1].copy # 0
          \/ n > r + 1 /\ Empties(j[1], Archive)
          \/ n = r + 1 /\ Empties(j[1], PruneBranch)
          \/ n <= r /\ CopyOf(info, j[1], PruneBranch, pr.kept[n])
      BY <1>1, <3>1, OwesHead DEF n, r
    <3>3. QED
      BY <1>1, <3>2 DEF Empties, CopyOf
  <2>b. PICK b : b = o.branch
    OBVIOUS
  <2> DEFINE form == IF o.copy \in mem[s].folded THEN "folded" ELSE "plain"
             payload == info[o.copy].payload
             e == [parent |-> ParentIn(mem[s], b), form |-> form, prot |-> o.prot,
                   payload |-> payload]
  <2>3. b \in Branch /\ PruneBranch \in Branch /\ Archive \in Branch /\ PruneBranch # Archive
    BY <2>2, <2>b, BranchesDiffer, ConstantsOK DEF Branch
  <2>4. o.prot \in BOOLEAN /\ o.copy \in Entry /\ form \in {"plain", "folded"}
    BY <1>1, <2>2, StepIs
  <2>5. payload \in 1..MaxId
    <3>1. info[o.copy] \in Info
      BY <2>4, TypesAre DEF Entry
    <3>2. QED
      BY <3>1 DEF Info
  <2>6. AppendEntry(s, b, o.prot, form, payload)
    BY <2>2, <2>b DEF JobAppend
  <2> HIDE DEF form, payload
  <2>7. Puts(s, b, e)
    BY <2>3, <2>4, <2>5, <2>6, PutsIs
  <2>8. e.payload = payload
    OBVIOUS
  <2> HIDE DEF e
  <2>9. /\ e \in Info /\ info' = Append(info, e)
    BY <2>7 DEF Puts
  <2>10. info'[NewId] = e /\ NewId \notin Entry /\ \A i \in Entry : info'[i] = info[i]
    BY <2>9, NewInfo DEF EntriesStay
  <2>11. info'[NewId].payload = info'[o.copy].payload
    BY <2>4, <2>8, <2>10 DEF payload
  <2>12. h \in Seq(Entry) /\ a \in Seq(Entry)
    <3>1. \A c \in Seq(mem[s].ids) : mem[s].ids \subseteq Entry => c \in Seq(Entry)
      OBVIOUS
    <3>2. QED
      BY <2>3, <3>1, HistoryOK
  <2>13. /\ History(mem[s], b)' = <<NewId>> \o History(mem[s], b)
         /\ \A c \in Branch : c # b => History(mem[s], c)' = History(mem[s], c)
    BY <2>3, <2>7, PutsHistory
  <2>14. /\ Len(j) \in Nat
         /\ \A k \in 1..Len(j) : j[k].op = "append" => j[k].copy \in {0} \cup Entry
    <3> HIDE DEF j
    <3>1. \A k \in 1..Len(j) : j[k] \in SaveStep
      BY <1>1
    <3>2. QED
      BY <1>1, <3>1, StepIs
  <2> DEFINE pr == promise[s]
             f == info'
             i == NewId
             E == Entry
  <2>15. Owes(info, j, pr, h, a) /\ j # <<>> /\ j \in Seq(SaveStep)
    BY <1>1, <2>1
  <2>16. /\ h \in Seq(E) /\ a \in Seq(E) /\ \A x \in E : f[x] = info[x]
         /\ \A k \in 1..Len(j) : j[k].op = "append" => j[k].copy \in {0} \cup E
         /\ f[i].payload = f[o.copy].payload
    BY <2>10, <2>11, <2>12, <2>14
  <2>17. /\ b = PruneBranch => /\ History(mem[s], PruneBranch)' = <<i>> \o h
                               /\ History(mem[s], Archive)' = a
         /\ b = Archive => /\ History(mem[s], PruneBranch)' = h
                           /\ History(mem[s], Archive)' = <<i>> \o a
    BY <2>3, <2>13
  <2>18. /\ j[1].op = "append" /\ j[1].branch = b /\ f[i].payload = f[j[1].copy].payload
    BY <1>1, <2>16, <2>b
  <2> HIDE DEF j, h, a, pr, f, i, E, o
  <2>19. Owes(f, j, pr, h, a)
    BY <2>14, <2>15, <2>16, OwesStays
  <2>20. b = Archive => Owes(f, Tail(j), pr, h, <<i>> \o a)
    BY <2>15, <2>16, <2>18, <2>19, OwesArchives
  <2>21. b = PruneBranch => Owes(f, Tail(j), pr, <<i>> \o h, a)
    BY <2>15, <2>16, <2>18, <2>19, OwesRebuilds
  <2>22. b = Archive \/ b = PruneBranch
    BY <2>2, <2>b DEF o
  <2>23. QED
    BY <2>17, <2>20, <2>21, <2>22 DEF f, pr
<1>4. QED
  BY <1>2, <1>3, ProceedOwes DEF JobAppend

(* An emptying of a prune: of the archive it opens, or of the branch.      *)
LEMMA JobNullOwes ==
    ASSUME TypeOK, TypeOK', PruneInv, NEW s \in Server, job[s] # <<>>, JobNull(s)
    PROVE  PruneInv'
<1> DEFINE j == job[s]
           h == History(mem[s], PruneBranch)
           a == History(mem[s], Archive)
<1>b. PICK b : b = Head(j).name
  OBVIOUS
<1> DEFINE L == [mem[s] EXCEPT !.tips[b] = null]
<1>1. j \in Seq(SaveStep) /\ Head(j) = j[1] /\ Head(j) \in SaveStep /\ j[1].op = "null"
  BY TypeParts DEF Calls, JobNull
<1>2. b \in Branch
  BY <1>1, <1>b, StepIs
<1>3. Save(s, L) /\ UNCHANGED info
  BY <1>b DEF JobNull
<1>a. b = j[1].name
  BY <1>1, <1>b
<1>4. LedgerIn(L, Entry) /\ LedgerIn(mem[s], Entry)
  BY <1>2, EditsOK, TypesAre
<1>5. L.ids = mem[s].ids /\ \A c \in Branch : L.tips[c] = IF c = b THEN null ELSE mem[s].tips[c]
  BY <1>4 DEF LedgerIn
<1> HIDE DEF L
<1>6. Keeps(s, L)
  BY <1>3, <1>4, <1>5 DEF Keeps
<1>7. /\ History(mem[s], b)' = <<>>
      /\ \A c \in Branch : c # b => History(mem[s], c)' = History(mem[s], c)
  BY <1>2, <1>5, <1>6, KeepsHistory DEF null
<1>8. EntriesStay /\ \A t \in Server \ {s} : mem'[t] = mem[t]
  BY <1>3, SaveSpares
<1>9. ASSUME promise[s] # NoPromise
      PROVE  Owes(info', Tail(j), promise[s], History(mem[s], PruneBranch)',
                  History(mem[s], Archive)')
  <2> DEFINE pr == promise[s]
             n == Len(j)
             r == Len(pr.kept)
  <2>1. Owes(info, j, pr, h, a) /\ j # <<>>
    BY <1>9 DEF PruneInv
  <2>2. PruneBranch \in Branch /\ Archive \in Branch /\ PruneBranch # Archive
    BY BranchesDiffer, ConstantsOK DEF Branch
  <2>3. /\ b = PruneBranch => /\ History(mem[s], PruneBranch)' = <<>>
                              /\ History(mem[s], Archive)' = a
        /\ b = Archive => /\ History(mem[s], PruneBranch)' = h
                          /\ History(mem[s], Archive)' = <<>>
    BY <1>7, <2>2
  <2> HIDE DEF j, h, a, pr, n, r
  <2>4. \/ /\ n > r + 1 /\ j[1].op = "append" /\ j[1].branch = Archive /\ j[1].copy # 0
        \/ n > r + 1 /\ Empties(j[1], Archive)
        \/ n = r + 1 /\ Empties(j[1], PruneBranch)
        \/ n <= r /\ CopyOf(info, j[1], PruneBranch, pr.kept[n])
    BY <1>1, <2>1, OwesHead DEF n, r
  <2>5. Empties(j[1], b) /\ (b = Archive \/ b = PruneBranch)
    BY <1>1, <1>a, <2>4 DEF Empties, CopyOf
  <2>6. b = Archive => Owes(info, Tail(j), pr, h, <<>>)
    BY <1>1, <2>1, <2>5, OwesOpens
  <2>7. b = PruneBranch => Owes(info, Tail(j), pr, <<>>, a)
    BY <1>1, <2>1, <2>5, OwesEmpties
  <2>8. QED
    BY <1>3, <2>3, <2>5, <2>6, <2>7 DEF pr
<1>10. QED
  BY <1>8, <1>9, ProceedOwes DEF JobNull

(* The other saves are none of a prune by age.                             *)
LEMMA NotOwed ==
    ASSUME TypeOK, PruneInv, NEW s \in Server, job[s] # <<>>,
           Head(job[s]).op \notin {"append", "null"}
    PROVE  promise[s] = NoPromise
<1> DEFINE j == job[s]
           pr == promise[s]
           n == Len(j)
           r == Len(pr.kept)
           h == History(mem[s], PruneBranch)
           a == History(mem[s], Archive)
<1>1. j \in Seq(SaveStep) /\ Head(j) = j[1]
  BY TypeParts DEF Calls
<1>2. SUFFICES ASSUME pr # NoPromise PROVE FALSE
  OBVIOUS
<1>3. Owes(info, j, pr, h, a) /\ j # <<>>
  BY <1>2 DEF PruneInv
<1>a. j[1].op \notin {"append", "null"}
  BY <1>1
<1> HIDE DEF j, h, a, pr, n, r
<1>4. \/ /\ n > r + 1 /\ j[1].op = "append" /\ j[1].branch = Archive /\ j[1].copy # 0
      \/ n > r + 1 /\ Empties(j[1], Archive)
      \/ n = r + 1 /\ Empties(j[1], PruneBranch)
      \/ n <= r /\ CopyOf(info, j[1], PruneBranch, pr.kept[n])
  BY <1>1, <1>3, OwesHead DEF n, r
<1>5. QED
  BY <1>a, <1>4 DEF Empties, CopyOf

(* The next save of a call keeps the invariant of the prunes.              *)
LEMMA RunJobOwes ==
    ASSUME TypeOK, TypeOK', PruneInv, NEW s \in Server, RunJob(s)
    PROVE  PruneInv'
<1>1. job[s] # <<>>
  BY DEF RunJob
<1>2. CASE JobAppend(s)
  BY <1>1, <1>2, JobAppendOwes
<1>3. CASE JobNull(s)
  BY <1>1, <1>3, JobNullOwes
<1>4. CASE JobBranch(s)
  <2>1. promise[s] = NoPromise
    BY <1>1, <1>4, NotOwed DEF JobBranch
  <2>2. PICK L : Save(s, L) /\ UNCHANGED info
    BY <1>4 DEF JobBranch, NewBranch
  <2>3. QED
    BY <1>1, <1>4, <2>1, <2>2, SaveSpares, ProceedOwes DEF JobBranch
<1>5. CASE JobCut(s)
  <2>1. promise[s] = NoPromise
    BY <1>1, <1>5, NotOwed DEF JobCut
  <2>2. PICK L : Save(s, L) /\ UNCHANGED info
    BY <1>1, <1>5, JobCutIs
  <2>3. QED
    BY <1>1, <1>5, <2>1, <2>2, SaveSpares, ProceedOwes DEF JobCut
<1>6. CASE JobThrow(s)
  <2>1. promise[s] = NoPromise
    BY <1>1, <1>6, NotOwed DEF JobThrow
  <2>2. /\ job' = [job EXCEPT ![s] = <<>>]
        /\ UNCHANGED <<info, mem, up, promise>>
    BY <1>6 DEF JobThrow
  <2>3. OthersIdle(s)
    BY <2>2, TypeParts DEF OthersIdle, EntriesStay, Entry, Calls, PruneInv
  <2>4. QED
    BY <2>1, <2>2, <2>3, OnlyOwes DEF OwedBy
<1>7. QED
  BY <1>2, <1>3, <1>4, <1>5, <1>6 DEF RunJob

(* It holds at first.                                                      *)
LEMMA InitPrune == Init => PruneInv
BY DEF Init, PruneInv

(* Every step keeps it.                                                    *)
LEMMA StepPrune == TypeOK /\ TypeOK' /\ PruneInv /\ [Next]_vars => PruneInv'
<1> SUFFICES ASSUME TypeOK, TypeOK', PruneInv, [Next]_vars PROVE PruneInv'
  OBVIOUS
<1>1. ASSUME NEW s \in Server, Start(s) PROVE PruneInv'
  <2>1. /\ up' = up \cup {s} /\ s \notin up /\ UNCHANGED <<info, job, promise>>
        /\ \A t \in Server \ {s} : mem'[t] = mem[t]
    BY <1>1, TypesAre DEF Start
  <2>2. promise'[s] = NoPromise
    BY <2>1 DEF PruneInv
  <2>3. OthersIdle(s)
    BY <2>1 DEF OthersIdle, EntriesStay, Entry, PruneInv
  <2>4. QED
    BY <2>2, <2>3, OnlyOwes DEF OwedBy
<1>2. ASSUME NEW s \in Server, Stop(s) PROVE PruneInv'
  <2>1. /\ up' = up \ {s} /\ UNCHANGED info
        /\ promise' = [promise EXCEPT ![s] = NoPromise]
        /\ \A t \in Server \ {s} : mem'[t] = mem[t] /\ job'[t] = job[t]
    BY <1>2, TypesAre, TypeParts DEF Stop, Calls
  <2>2. promise'[s] = NoPromise
    BY <2>1 DEF PruneInv
  <2>3. OthersIdle(s)
    BY <2>1 DEF OthersIdle, EntriesStay, Entry, PruneInv
  <2>4. QED
    BY <2>2, <2>3, OnlyOwes DEF OwedBy
<1>3. ASSUME NEW s \in Server, NEW b \in {Main, Session}, AppendTool(s, b) PROVE PruneInv'
  <2>1. b \in Branch
    BY DEF Branch
  <2>2. QED
    BY <1>3, <2>1, AppendToolIs, AppendSpares, ReturnedOwes DEF AppendTool
<1>4. ASSUME NEW s \in Server, NEW name \in {Session}, NEW from \in {Main},
             BranchTool(s, name, from)
      PROVE  PruneInv'
  <2>1. PICK L : Save(s, L) /\ UNCHANGED info
    BY <1>4 DEF BranchTool, NewBranch
  <2>2. QED
    BY <1>4, <2>1, SaveSpares, ReturnedOwes DEF BranchTool
<1>5. ASSUME NEW s \in Server, NEW b \in Branch, NEW F \in SUBSET Range(History(mem[s], b)),
             Fold(s, b, F)
      PROVE  PruneInv'
  BY <1>5, FoldIs, SaveSpares, ReturnedOwes DEF Fold
<1>6. ASSUME NEW s \in Server, NEW b \in Branch, Unfold(s, b) PROVE PruneInv'
  BY <1>6, UnfoldIs, SaveSpares, ReturnedOwes DEF Unfold
<1>7. ASSUME NEW s \in Server, StandardInit(s) PROVE PruneInv'
  BY <1>7, CallOwes DEF StandardInit
<1>8. ASSUME NEW s \in Server, PruneLast(s) PROVE PruneInv'
  BY <1>8, CallOwes DEF PruneLast
<1>9. CASE UNCHANGED vars
  <2>1. EntriesStay /\ UNCHANGED <<mem, job, promise, up>>
    BY <1>9 DEF vars, EntriesStay, Entry
  <2>2. ASSUME NEW t \in Server, promise'[t] # NoPromise
        PROVE  Owes(info', job'[t], promise'[t], History(mem[t], PruneBranch)',
                    History(mem[t], Archive)')
    BY <2>1, <2>2, OwesOn
  <2>3. QED
    BY <2>1, <2>2 DEF PruneInv
<1>10. QED
  BY <1>1, <1>2, <1>3, <1>4, <1>5, <1>6, <1>7, <1>8, <1>9, PruneAgeOwes, RunJobOwes DEF Next

(* When no save is left, nothing is owed.                                  *)
LEMMA NothingLeft ==
    ASSUME TypeOK, PruneInv, NEW s \in Server, Ready(s), promise[s] # NoPromise
    PROVE  /\ Payloads(History(mem[s], PruneBranch)) = promise[s].kept
           /\ promise[s].archived \subseteq Range(Payloads(History(mem[s], Archive)))
<1> DEFINE h == History(mem[s], PruneBranch)
           a == History(mem[s], Archive)
           pr == promise[s]
           r == Len(pr.kept)
<1>1. PruneBranch \in Branch /\ Archive \in Branch
  BY ConstantsOK DEF Branch
<1>2. h \in Seq(Entry) /\ a \in Seq(Entry)
  <2>1. \A c \in Seq(mem[s].ids) : mem[s].ids \subseteq Entry => c \in Seq(Entry)
    OBVIOUS
  <2>2. QED
    BY <1>1, <2>1, HistoryOK
<1>3. Owes(info, <<>>, pr, h, a)
  BY DEF PruneInv, Ready
<1> HIDE DEF h, a, pr
<1>4. pr.kept \in Seq(1..MaxId) /\ r \in Nat /\ Len(<<>>) = 0
  BY <1>3 DEF Owes
<1>5. Rebuilding(info, <<>>, pr, h, a)
  <2>1. Len(<<>>) <= Len(pr.kept)
    BY <1>4
  <2>2. QED
    BY <1>3, <2>1 DEF Owes
<1>6. Len(h) = r /\ \A k \in 1..r : info[h[k]].payload = pr.kept[k]
  BY <1>4, <1>5 DEF Rebuilding
<1>7. pr.archived \subseteq Carried(info, a)
  BY <1>5 DEF Rebuilding
<1>8. Payloads(h) = pr.kept
  <2>1. /\ Payloads(h) \in Seq(1..MaxId) /\ Len(Payloads(h)) = Len(h)
        /\ \A k \in 1..Len(h) : Payloads(h)[k] = info[h[k]].payload
    BY <1>2, PayloadsAre
  <2> DEFINE c == Payloads(h)
  <2> HIDE DEF c
  <2>2. QED
    BY <1>4, <1>6, <2>1 DEF c
<1>9. Range(Payloads(a)) = Carried(info, a)
  <2>1. /\ Payloads(a) \in Seq(1..MaxId) /\ Len(Payloads(a)) = Len(a)
        /\ \A k \in 1..Len(a) : Payloads(a)[k] = info[a[k]].payload
    BY <1>2, PayloadsAre
  <2> DEFINE c == Payloads(a)
  <2> HIDE DEF c
  <2>2. DOMAIN c = 1..Len(a) /\ DOMAIN a = 1..Len(a) /\ \A k \in 1..Len(a) : c[k] = info[a[k]].payload
    BY <1>2, <2>1 DEF c
  <2>3. QED
    BY <2>2 DEF Range, Carried, c
<1>10. QED
  BY <1>7, <1>8, <1>9 DEF h, a, pr

(* When a prune by age has returned, its branch has the contents it keeps, *)
(* in their order, and the archive branch has the others: for any history  *)
(* and cutoff, with any peers saving in between, as long as the server     *)
(* that was called lives.                                                  *)
THEOREM PruneAlwaysRebuilds == Spec => []PruneRebuilds
<1>1. TypeOK /\ PruneInv => PruneRebuilds
  BY NothingLeft DEF PruneRebuilds
<1>2. QED
  BY <1>1, InitPrune, StepPrune, TypeCorrect, PTL DEF Spec

-----------------------------------------------------------------------------
(* Unfolding.  A prune by age copies folded content into entries whose hash*)
(* covers the folded form; where it is called on session_context such      *)
(* entries stay on the branches of Dirty.  (Called on main, session_context*)
(* would have them as well when it is opened at that tip.)                 *)

Apart == "prune_age" \in Tools => PruneBranch = Session
Dirty == IF "prune_age" \in Tools THEN {Session, Archive, ArchiveLast} ELSE {}

(* G: entries hashed as plain that hang on one another; the other branches *)
(* have their tips among them, and calls under way bring nothing else.     *)
Closed(G) == /\ G \subseteq Entry
             /\ \A i \in G : info[i].form = "plain" /\ info[i].parent \in G \cup {null}
TipsClean(L, G) == \A b \in Branch \ Dirty : L.tips[b] > 0 => L.tips[b] \in G
LedgersClean(G) == /\ Closed(G) /\ TipsClean(disk, G)
                   /\ \A s \in Server : TipsClean(mem[s], G)
CleanSave(o, G) == /\ o.op = "append" => o.copy = 0 \/ o.branch \in Dirty
                   /\ o.op = "branch" => o.name \in Dirty \/ o.from \notin Dirty
                   /\ o.op = "cut" => PruneBranch \in Dirty \/ o.tip \in G
CleanSaves(j, G) == \A k \in 1..Len(j) : CleanSave(j[k], G)
CleanFor(G) == LedgersClean(G) /\ \A s \in Server : CleanSaves(job[s], G)
CleanInv == \E G : CleanFor(G)

(* Clean tips and saves stay clean when more entries are plain.            *)
LEMMA CleanGrows ==
    ASSUME NEW G, NEW H, G \subseteq H
    PROVE  /\ \A L : TipsClean(L, G) => TipsClean(L, H)
           /\ \A j : CleanSaves(j, G) => CleanSaves(j, H)
BY DEF TipsClean, CleanSaves, CleanSave

(* One list of clean saves after another is clean.                         *)
LEMMA CatClean ==
    ASSUME NEW S, NEW a \in Seq(S), NEW b \in Seq(S), NEW G, CleanSaves(a, G), CleanSaves(b, G)
    PROVE  a \o b \in Seq(S) /\ CleanSaves(a \o b, G)
<1> DEFINE ab == a \o b
<1>1. ab \in Seq(S)
  OBVIOUS
<1>2. \A k \in 1..Len(ab) : \/ k \in 1..Len(a) /\ ab[k] = a[k]
                            \/ k - Len(a) \in 1..Len(b) /\ ab[k] = b[k - Len(a)]
  OBVIOUS
<1> HIDE DEF ab
<1>3. CleanSaves(ab, G)
  BY <1>2 DEF CleanSaves
<1>4. QED
  BY <1>1, <1>3 DEF ab

(* What is left of a job is clean.                                         *)
LEMMA LeftClean ==
    ASSUME TypeOK, NEW t \in Server, Left(t), NEW G, CleanSaves(job[t], G)
    PROVE  CleanSaves(job'[t], G)
<1> DEFINE j == job[t]
<1>1. j \in Seq(SaveStep)
  BY TypeParts DEF Calls
<1>2. CASE job'[t] = job[t]
  BY <1>2
<1>3. CASE job'[t] = <<>>
  BY <1>3 DEF CleanSaves
<1>4. CASE job[t] # <<>> /\ job'[t] = Tail(job[t])
  <2> DEFINE r == Tail(j)
  <2>1. \A k \in 1..Len(r) : k + 1 \in 1..Len(j) /\ r[k] = j[k + 1]
    BY <1>1, <1>4
  <2>2. CleanSaves(j, G)
    OBVIOUS
  <2> HIDE DEF r, j
  <2>3. CleanSaves(r, G)
    BY <2>1, <2>2 DEF CleanSaves
  <2>4. QED
    BY <1>4, <2>3 DEF r, j
<1>5. QED
  BY <1>2, <1>3, <1>4 DEF Left

(* A save of clean tips.                                                   *)
LEMMA SaveClean ==
    ASSUME TypeOK, NEW s \in Server, NEW L, Save(s, L), NEW G, TipsClean(L, G),
           TipsClean(disk, G), \A t \in Server : TipsClean(mem[t], G)
    PROVE  TipsClean(disk', G) /\ \A t \in Server : TipsClean(mem'[t], G)
<1>1. \A t \in Server : mem'[t] = L \/ mem'[t] = mem[t]
  BY TypesAre DEF Save
<1>2. TipsClean(disk', G)
  <2>1. CASE exists
    <3>1. \A b \in Branch : disk'.tips[b] = IF L.tips[b] > 0 THEN L.tips[b] ELSE disk.tips[b]
      BY <2>1 DEF Save, Merged
    <3>2. QED
      BY <3>1 DEF TipsClean
  <2>2. CASE ~exists
    BY <2>2 DEF Save
  <2>3. QED
    BY <2>1, <2>2
<1>3. QED
  BY <1>1, <1>2

(* A save that makes no entry and has clean tips keeps all tips clean.     *)
LEMMA EditClean ==
    ASSUME TypeOK, NEW s \in Server, NEW L, Save(s, L), UNCHANGED info, NEW G,
           LedgersClean(G), TipsClean(L, G)
    PROVE  LedgersClean(G)'
<1>1. TipsClean(disk', G) /\ \A t \in Server : TipsClean(mem'[t], G)
  BY SaveClean DEF LedgersClean
<1>2. Closed(G)'
  BY DEF LedgersClean, Closed, Entry
<1>3. QED
  BY <1>1, <1>2 DEF LedgersClean, TipsClean

(* A ledger with one tip moved to a plain entry.                           *)
LEMMA TipClean ==
    ASSUME TypeOK, NEW s \in Server, NEW b \in Branch, NEW tip, NEW G, TipsClean(mem[s], G),
           b \in Dirty \/ (tip > 0 => tip \in G), NEW L,
           L.tips = [mem[s].tips EXCEPT ![b] = tip]
    PROVE  TipsClean(L, G)
<1>1. mem[s].tips \in [Branch -> {undefined, null} \cup Entry]
  BY TypesAre DEF LedgerIn
<1>2. QED
  BY <1>1 DEF TipsClean

(* An append of plain content, or to a branch that may be dirty.           *)
LEMMA AppendClean ==
    ASSUME TypeOK, NEW G, LedgersClean(G), NEW s \in Server, NEW b \in Branch,
           NEW prot \in BOOLEAN, NEW form \in {"plain", "folded"}, NEW payload \in 1..MaxId,
           AppendEntry(s, b, prot, form, payload), b \in Dirty \/ form = "plain"
    PROVE  \E H : G \subseteq H /\ LedgersClean(H)'
<1> DEFINE e == [parent |-> ParentIn(mem[s], b), form |-> form, prot |-> prot,
                 payload |-> payload]
<1>1. e.form = form /\ e.parent = ParentIn(mem[s], b)
  OBVIOUS
<1>2. Puts(s, b, e)
  BY PutsIs
<1> HIDE DEF e
<1>3. /\ NewId \notin Entry /\ info'[NewId] = e /\ Entry' = Entry \cup {NewId}
      /\ \A i \in Entry : info'[i] = info[i]
  BY <1>2, NewInfo DEF Puts, EntriesStay
<1>4. PICK L : Save(s, L) /\ L.tips = [mem[s].tips EXCEPT ![b] = NewId]
  BY AppendOK DEF Appended
<1> DEFINE H == IF b \in Dirty THEN G ELSE G \cup {NewId}
<1>5. G \subseteq H /\ (b \in Dirty \/ NewId \in H)
  OBVIOUS
<1>6. ParentIn(mem[s], b) \in G \cup {null} \/ b \in Dirty
  BY DEF ParentIn, LedgersClean, TipsClean
<1>7. Closed(G) /\ TipsClean(disk, G) /\ \A t \in Server : TipsClean(mem[t], G)
  BY DEF LedgersClean
<1>a. PICK K : K = H
  OBVIOUS
<1>8. Closed(K)'
  BY <1>1, <1>3, <1>6, <1>7, <1>a DEF Closed
<1> HIDE DEF H
<1>9. TipsClean(disk, K) /\ \A t \in Server : TipsClean(mem[t], K)
  BY <1>5, <1>7, <1>a, CleanGrows
<1>10. TipsClean(L, K)
  BY <1>4, <1>5, <1>9, <1>a, TipClean
<1>11. TipsClean(disk', K) /\ \A t \in Server : TipsClean(mem'[t], K)
  BY <1>4, <1>9, <1>10, SaveClean
<1>12. LedgersClean(K)'
  BY <1>8, <1>11 DEF LedgersClean, TipsClean
<1>13. QED
  BY <1>5, <1>12, <1>a

(* With the calls.                                                         *)
LEMMA CleanOn ==
    ASSUME TypeOK, NEW G, CleanFor(G), NEW H, G \subseteq H, LedgersClean(H)',
           \A t \in Server : Left(t)
    PROVE  CleanInv'
<1>1. ASSUME NEW t \in Server PROVE CleanSaves(job'[t], H)
  BY LeftClean, CleanGrows DEF CleanFor
<1>2. CleanFor(H)'
  BY <1>1 DEF CleanFor, CleanSaves, CleanSave
<1>3. QED
  BY <1>2 DEF CleanInv

(* A branch that is not dirty has plain entries only.                      *)
LEMMA HistoryClean ==
    ASSUME TypeOK, NEW G, LedgersClean(G), NEW s \in Server, NEW b \in Branch \ Dirty
    PROVE  History(mem[s], b) \in Seq(G)
<1> DEFINE L == mem[s]
           tip == L.tips[b]
<1>1. Walkable(L) /\ LedgerIn(L, Entry)
  BY Walkables, TypesAre
<1>2. tip \in {undefined, null} \cup Entry
  BY <1>1 DEF LedgerIn
<1>3. tip \in Int /\ tip <= MaxId
  <2>1. Len(info) \in 0..MaxId /\ tip \in Int /\ tip <= Len(info)
    BY <1>2, TipsAre
  <2> HIDE DEF tip
  <2>2. QED
    BY <2>1, ConstantsOK
<1>4. tip \in L.ids => tip \in G
  <2>1. tip \in L.ids => tip > 0
    BY <1>1, ParentsOlder
  <2>2. QED
    BY <2>1 DEF LedgersClean, TipsClean
<1>5. \A i \in L.ids : i \in G /\ info[i].parent \in L.ids => info[i].parent \in G
  <2>1. null \notin L.ids
    BY <1>1, ParentsOlder DEF null
  <2>2. QED
    BY <2>1 DEF LedgersClean, Closed
<1> HIDE DEF L, tip
<1>6. ChainFrom(L, tip) \in Seq(G)
  BY <1>1, <1>3, <1>4, <1>5, ChainWithin
<1>7. QED
  BY <1>6 DEF History, L, tip

(* The calls.                                                              *)
LEMMA CallClean ==
    ASSUME TypeOK, NEW G, CleanFor(G), NEW s \in Server, NEW saves, NEW owed,
           Call(s, saves, owed), CleanSaves(saves, G)
    PROVE  CleanInv'
<1>1. UNCHANGED <<info, disk, exists, mem>> /\ job' = [job EXCEPT ![s] = saves]
  BY DEF Call
<1>2. \A t \in Server : job'[t] = IF t = s THEN saves ELSE job[t]
  BY <1>1, TypeParts DEF Calls
<1>3. \A t \in Server : CleanSaves(job'[t], G)
  BY <1>2 DEF CleanFor
<1>4. LedgersClean(G)'
  BY <1>1 DEF CleanFor, LedgersClean, Closed, TipsClean, Entry
<1>5. CleanFor(G)'
  BY <1>3, <1>4 DEF CleanFor, CleanSaves, CleanSave
<1>6. QED
  BY <1>5 DEF CleanInv

(* The saves of the bootstrap are clean.                                   *)
LEMMA InitCallClean ==
    ASSUME TypeOK, NEW G, CleanFor(G), NEW s \in Server, StandardInit(s)
    PROVE  CleanInv'
<1> DEFINE fact == [op |-> "append", branch |-> Session, prot |-> TRUE, copy |-> 0]
           open == [op |-> "branch", name |-> Session, from |-> Main]
           saves == IF mem[s].tips[Session] > 0 THEN <<>> ELSE <<open, fact, fact>>
<1>1. Call(s, saves, NoPromise)
  BY DEF StandardInit
<1>2. CleanSave(fact, G) /\ CleanSave(open, G)
  BY DEF CleanSave, Dirty, Main, Session, Archive, ArchiveLast
<1> HIDE DEF fact, open
<1>3. CleanSaves(saves, G)
  BY <1>2 DEF CleanSaves
<1> HIDE DEF saves
<1>4. QED
  BY <1>1, <1>3, CallClean

(* The saves of a prune by age are: its branches may be dirty.             *)
LEMMA PruneAgeClean ==
    ASSUME Apart, TypeOK, NEW G, CleanFor(G), NEW s \in Server, NEW cutoff \in Entry,
           PruneAge(s, cutoff)
    PROVE  CleanInv'
<1> DEFINE history == History(mem[s], PruneBranch)
           keep    == Only(history, Entry \ Old(cutoff))
           archive == Only(history, Old(cutoff))
           open    == IF mem[s].tips[Archive] = undefined
                      THEN <<[op |-> "null", name |-> Archive]>> ELSE <<>>
           empty   == <<[op |-> "null", name |-> PruneBranch]>>
           saves   == open \o Copies(Archive, Reverse(archive)) \o empty
                        \o Copies(PruneBranch, RebuildOrder(keep))
           owed    == [kept |-> Payloads(keep), archived |-> Range(Payloads(archive))]
<1>1. Call(s, saves, owed) /\ "prune_age" \in Tools
  BY DEF PruneAge
<1>2. Archive \in Branch /\ PruneBranch \in Branch /\ Archive \in Dirty /\ PruneBranch \in Dirty
  BY <1>1, ConstantsOK DEF Branch, Apart, Dirty
<1>3. history \in Seq(Entry)
  <2>1. \A c \in Seq(mem[s].ids) : mem[s].ids \subseteq Entry => c \in Seq(Entry)
    OBVIOUS
  <2>2. QED
    BY <1>2, <2>1, HistoryOK
<1> HIDE DEF history
<1>4. keep \in Seq(Entry) /\ archive \in Seq(Entry)
  BY <1>3, OnlyIn
<1>5. open \in Seq(SaveStep) /\ empty \in Seq(SaveStep)
  BY <1>2, StepOK
<1>6. CleanSaves(open, G) /\ CleanSaves(empty, G)
  BY DEF CleanSaves, CleanSave
<1> HIDE DEF keep, archive, open, empty
<1> DEFINE moved   == Copies(Archive, Reverse(archive))
           rebuilt == Copies(PruneBranch, RebuildOrder(keep))
<1>7. moved \in Seq(SaveStep) /\ rebuilt \in Seq(SaveStep)
  BY <1>2, <1>4, CopiesOK, ReverseOK DEF RebuildOrder
<1>8. ASSUME NEW b \in Dirty, NEW ids PROVE CleanSaves(Copies(b, ids), G)
  BY DEF CleanSaves, CleanSave, Copies
<1>9. CleanSaves(moved, G) /\ CleanSaves(rebuilt, G)
  BY <1>2, <1>8
<1> HIDE DEF moved, rebuilt
<1> DEFINE first == open \o moved
           most  == first \o empty
           all   == most \o rebuilt
<1>10. first \in Seq(SaveStep) /\ CleanSaves(first, G)
  BY <1>5, <1>6, <1>7, <1>9, CatClean
<1> HIDE DEF first
<1>11. most \in Seq(SaveStep) /\ CleanSaves(most, G)
  BY <1>5, <1>6, <1>10, CatClean
<1> HIDE DEF most
<1>12. all \in Seq(SaveStep) /\ CleanSaves(all, G)
  BY <1>7, <1>9, <1>11, CatClean
<1>13. CleanSaves(saves, G)
  BY <1>12 DEF first, most, moved, rebuilt
<1> HIDE DEF saves, owed
<1>14. QED
  BY <1>1, <1>13, CallClean

(* The saves of a keep-last prune are: it cuts to an entry of its branch.  *)
LEMMA PruneLastClean ==
    ASSUME Apart, TypeOK, NEW G, CleanFor(G), NEW s \in Server, PruneLast(s)
    PROVE  CleanInv'
<1> DEFINE keepable == Only(History(mem[s], PruneBranch), Prunable)
           opening  == [op |-> "branch", name |-> ArchiveLast, from |-> PruneBranch]
           open     == IF mem[s].tips[ArchiveLast] <= 0 THEN <<opening>> ELSE <<>>
           drop     == Range(SubSeq(keepable, KeepLast + 1, Len(keepable)))
           cut      == [op |-> "cut", tip |-> keepable[KeepLast], drop |-> drop]
           saves    == open \o <<cut>>
<1>1. Len(keepable) > KeepLast /\ Call(s, saves, NoPromise) /\ "prune_last" \in Tools
  BY DEF PruneLast
<1>2. /\ PruneBranch \in Branch
      /\ Dirty = {} \/ (PruneBranch \in Dirty /\ ArchiveLast \in Dirty)
  <2>1. PruneBranch \in Branch
    BY ConstantsOK DEF Branch
  <2>2. Dirty = {} \/ (PruneBranch \in Dirty /\ ArchiveLast \in Dirty)
    BY DEF Apart, Dirty
  <2>3. QED
    BY <2>1, <2>2
<1>3. ASSUME Dirty = {} PROVE keepable \in Seq(G)
  <2>1. LedgersClean(G) /\ PruneBranch \in Branch \ Dirty
    BY <1>2, <1>3 DEF CleanFor
  <2> DEFINE h == History(mem[s], PruneBranch)
  <2>2. h \in Seq(G)
    BY <2>1, HistoryClean
  <2> HIDE DEF h
  <2>3. Only(h, Prunable) \in Seq(G)
    BY <2>2, OnlyIn
  <2>4. QED
    BY <2>3 DEF h
<1> HIDE DEF keepable
<1>4. ASSUME Dirty = {} PROVE KeepLast \in 1..Len(keepable)
  BY <1>1, <1>3, <1>4, ConstantsOK
<1>5. ASSUME Dirty = {} PROVE keepable[KeepLast] \in G
  BY <1>3, <1>4, <1>5
<1>6. CleanSave(cut, G)
  BY <1>2, <1>5 DEF CleanSave
<1>7. CleanSaves(open, G)
  BY <1>2 DEF CleanSaves, CleanSave
<1> HIDE DEF opening, cut
<1> DEFINE S == {opening, cut}
<1>8. open \in Seq(S) /\ <<cut>> \in Seq(S)
  <2>1. opening \in S /\ cut \in S
    OBVIOUS
  <2> HIDE DEF S
  <2>2. QED
    BY <2>1
<1> HIDE DEF open, S
<1>9. CleanSaves(<<cut>>, G)
  BY <1>6 DEF CleanSaves
<1> DEFINE last == <<cut>>
<1> HIDE DEF last
<1>10. CleanSaves(open \o last, G)
  BY <1>7, <1>8, <1>9, CatClean DEF last
<1>11. CleanSaves(saves, G)
  BY <1>10 DEF last
<1> HIDE DEF saves
<1>12. QED
  BY <1>1, <1>11, CallClean

(* The next save of a call.                                                *)
LEMMA RunJobClean ==
    ASSUME TypeOK, NEW G, CleanFor(G), NEW s \in Server, RunJob(s)
    PROVE  CleanInv'
<1> DEFINE o == Head(job[s])
           M == mem[s]
<1>1. job[s] # <<>> /\ o \in SaveStep /\ o = job[s][1] /\ 1 \in 1..Len(job[s])
  BY TypeParts DEF Calls, RunJob
<1>2. CleanSave(o, G) /\ LedgersClean(G) /\ TipsClean(M, G)
  BY <1>1 DEF CleanFor, CleanSaves, LedgersClean
<1>3. LedgerIn(M, Entry) /\ ~ (null > 0)
  BY TypesAre DEF null
<1>4. CASE JobAppend(s)
  <2>1. \A t \in Server : Left(t)
    BY <1>1, <1>4, ProceedLeaves DEF JobAppend
  <2> HIDE DEF o
  <2>2. o.op = "append" /\ o.branch \in Branch /\ o.prot \in BOOLEAN /\ o.copy \in {0} \cup Entry
    BY <1>1, <1>4, StepIs DEF JobAppend, o
  <2>3. CASE o.copy = 0
    <3>1. AppendEntry(s, o.branch, o.prot, "plain", NewId)
      BY <1>4, <2>3 DEF JobAppend, o
    <3>2. NewId \in 1..MaxId
      BY <3>1, TypesAre, ConstantsOK DEF AppendEntry, NewId
    <3>3. \E H : G \subseteq H /\ LedgersClean(H)'
      BY <1>2, <2>2, <3>1, <3>2, AppendClean
    <3>4. QED
      BY <2>1, <3>3, CleanOn
  <2>4. CASE o.copy # 0
    <3> DEFINE form == IF o.copy \in mem[s].folded THEN "folded" ELSE "plain"
    <3>1. AppendEntry(s, o.branch, o.prot, form, info[o.copy].payload)
      BY <1>4, <2>4 DEF JobAppend, o
    <3>2. form \in {"plain", "folded"}
      OBVIOUS
    <3> HIDE DEF form
    <3>3. info[o.copy] \in Info
      BY <2>2, <2>4, TypesAre DEF Entry
    <3>4. info[o.copy].payload \in 1..MaxId
      BY <3>3 DEF Info
    <3>5. o.branch \in Dirty
      BY <1>2, <2>2, <2>4 DEF CleanSave
    <3>6. \E H : G \subseteq H /\ LedgersClean(H)'
      BY <1>2, <2>2, <3>1, <3>2, <3>4, <3>5, AppendClean
    <3>7. QED
      BY <2>1, <3>6, CleanOn
  <2>5. QED
    BY <2>3, <2>4
<1>5. CASE JobBranch(s)
  <2> DEFINE b    == o.name
             from == o.from
             tip  == ParentIn(M, from)
             L    == [M EXCEPT !.tips[b] = tip]
  <2>1. b \in Branch /\ from \in Branch /\ (b \in Dirty \/ from \notin Dirty)
    BY <1>1, <1>2, <1>5, StepIs DEF JobBranch, CleanSave
  <2>2. Save(s, L) /\ UNCHANGED info
    BY <1>1, <1>5, <2>1, NewBranchIs DEF JobBranch
  <2>3. b \in Dirty \/ (tip > 0 => tip \in G)
    BY <1>2, <1>3, <2>1 DEF ParentIn, TipsClean
  <2>4. \A t \in Server : Left(t)
    BY <1>1, <1>5, ProceedLeaves DEF JobBranch
  <2> HIDE DEF b, tip
  <2>5. L.tips = [M.tips EXCEPT ![b] = tip]
    BY <1>3 DEF LedgerIn
  <2> HIDE DEF L
  <2>6. TipsClean(L, G)
    BY <1>2, <2>1, <2>3, <2>5, TipClean
  <2>7. LedgersClean(G)'
    BY <1>2, <2>2, <2>6, EditClean
  <2>8. QED
    BY <2>4, <2>7, CleanOn
<1>6. CASE JobThrow(s)
  <2>1. \A t \in Server : Left(t)
    BY <1>1, <1>6, TypeParts DEF JobThrow, Calls, Left
  <2>2. LedgersClean(G)'
    BY <1>2, <1>6 DEF JobThrow, LedgersClean, Closed, TipsClean, Entry
  <2>3. QED
    BY <2>1, <2>2, CleanOn
<1>7. CASE JobNull(s)
  <2>1. PICK b \in Branch : Save(s, [M EXCEPT !.tips[b] = null]) /\ UNCHANGED info
    BY <1>1, <1>7, JobNullIs
  <2> DEFINE L == [M EXCEPT !.tips[b] = null]
  <2>2. \A t \in Server : Left(t)
    BY <1>1, <1>7, ProceedLeaves DEF JobNull
  <2>3. L.tips = [M.tips EXCEPT ![b] = null] /\ Save(s, L)
    BY <1>3, <2>1 DEF LedgerIn
  <2> HIDE DEF L
  <2>4. TipsClean(L, G)
    BY <1>2, <1>3, <2>3, TipClean
  <2>5. LedgersClean(G)'
    BY <1>2, <2>1, <2>3, <2>4, EditClean
  <2>6. QED
    BY <2>2, <2>5, CleanOn
<1>8. CASE JobCut(s)
  <2> DEFINE tip == o.tip
  <2>1. PICK drop : Save(s, CutTo(s, tip, drop)) /\ UNCHANGED info
    BY <1>1, <1>8, JobCutIs
  <2>2. PruneBranch \in Dirty \/ tip \in G
    BY <1>2, <1>8 DEF JobCut, CleanSave
  <2>3. PruneBranch \in Branch
    BY ConstantsOK DEF Branch
  <2>4. \A t \in Server : Left(t)
    BY <1>1, <1>8, ProceedLeaves DEF JobCut
  <2> DEFINE L == CutTo(s, tip, drop)
  <2>5. L.tips = [M.tips EXCEPT ![PruneBranch] = tip] /\ Save(s, L)
    BY <2>1 DEF CutTo
  <2> HIDE DEF L, tip
  <2>6. TipsClean(L, G)
    BY <1>2, <2>2, <2>3, <2>5, TipClean
  <2>7. LedgersClean(G)'
    BY <1>2, <2>1, <2>5, <2>6, EditClean
  <2>8. QED
    BY <2>4, <2>7, CleanOn
<1>9. QED
  BY <1>4, <1>5, <1>6, <1>7, <1>8 DEF RunJob

(* The invariant of unfolding holds at first.                              *)
LEMMA InitClean == Init => CleanInv
<1> SUFFICES ASSUME Init PROVE CleanInv
  OBVIOUS
<1>1. TipsClean(EmptyLedger, {}) /\ CleanSaves(<<>>, {})
  BY DEF TipsClean, EmptyLedger, CleanSaves, null, undefined
<1>2. CleanFor({})
  BY <1>1 DEF Init, CleanFor, LedgersClean, Closed
<1>3. QED
  BY <1>2 DEF CleanInv

(* Every step keeps it.                                                    *)
LEMMA StepClean == Apart /\ TypeOK /\ CleanInv /\ [Next]_vars => CleanInv'
<1> SUFFICES ASSUME Apart, TypeOK, CleanInv, [Next]_vars PROVE CleanInv'
  OBVIOUS
<1> PICK G : CleanFor(G)
  BY DEF CleanInv
<1>a. /\ LedgersClean(G) /\ TipsClean(disk, G) /\ \A t \in Server : TipsClean(mem[t], G)
      /\ ~ (null > 0) /\ TipsClean(EmptyLedger, G)
  BY DEF CleanFor, LedgersClean, null, undefined, TipsClean, EmptyLedger
<1>1. ASSUME NEW s \in Server, Start(s) PROVE CleanInv'
  <2>1. \A t \in Server : mem'[t] \in {disk, EmptyLedger, mem[t]} /\ Left(t)
    BY <1>1, TypesAre DEF Start, Left
  <2>2. UNCHANGED <<info, disk>>
    BY <1>1 DEF Start
  <2>3. LedgersClean(G)'
    BY <1>a, <2>1, <2>2 DEF LedgersClean, Closed, TipsClean, Entry
  <2>4. QED
    BY <2>1, <2>3, CleanOn
<1>2. ASSUME NEW s \in Server, Stop(s) PROVE CleanInv'
  <2>1. \A t \in Server : mem'[t] \in {EmptyLedger, mem[t]} /\ Left(t)
    BY <1>2, TypesAre, TypeParts DEF Stop, Calls, Left
  <2>2. UNCHANGED <<info, disk>>
    BY <1>2 DEF Stop
  <2>3. LedgersClean(G)'
    BY <1>a, <2>1, <2>2 DEF LedgersClean, Closed, TipsClean, Entry
  <2>4. QED
    BY <2>1, <2>3, CleanOn
<1>3. ASSUME NEW s \in Server, NEW b \in {Main, Session}, AppendTool(s, b) PROVE CleanInv'
  <2>1. b \in Branch /\ AppendEntry(s, b, FALSE, "plain", NewId)
    BY <1>3 DEF Branch, AppendTool
  <2>2. NewId \in 1..MaxId
    BY <2>1, TypesAre, ConstantsOK DEF AppendEntry, NewId
  <2>3. \E H : G \subseteq H /\ LedgersClean(H)'
    BY <1>a, <2>1, <2>2, AppendClean
  <2>4. \A t \in Server : Left(t)
    BY <1>3 DEF AppendTool, Returned, Left
  <2>5. QED
    BY <2>3, <2>4, CleanOn
<1>4. ASSUME NEW s \in Server, NEW name \in {Session}, NEW from \in {Main},
             BranchTool(s, name, from)
      PROVE  CleanInv'
  <2> DEFINE tip == ParentIn(mem[s], from)
             L   == [mem[s] EXCEPT !.tips[name] = tip]
  <2>1. name \in Branch /\ from \in Branch /\ from \notin Dirty
    BY DEF Branch, Dirty, Main, Session, Archive, ArchiveLast
  <2>2. Save(s, L) /\ UNCHANGED info
    BY <1>4, <2>1, NewBranchIs DEF BranchTool
  <2>3. tip > 0 => tip \in G
    BY <1>a, <2>1 DEF ParentIn, TipsClean
  <2>4. \A t \in Server : Left(t)
    BY <1>4 DEF BranchTool, Returned, Left
  <2> HIDE DEF tip
  <2>5. L.tips = [mem[s].tips EXCEPT ![name] = tip]
    BY TypesAre DEF LedgerIn
  <2> HIDE DEF L
  <2>6. TipsClean(L, G)
    BY <1>a, <2>1, <2>3, <2>5, TipClean
  <2>7. LedgersClean(G)'
    BY <1>a, <2>2, <2>6, EditClean
  <2>8. QED
    BY <2>4, <2>7, CleanOn
<1>5. ASSUME NEW s \in Server, NEW b \in Branch, NEW F \in SUBSET Range(History(mem[s], b)),
             Fold(s, b, F)
      PROVE  CleanInv'
  <2> DEFINE L == [mem[s] EXCEPT !.folded = @ \cup F]
  <2>1. Save(s, L) /\ UNCHANGED info /\ LedgerIn(mem[s], Entry)
    BY <1>5, FoldIs, TypesAre
  <2>2. L.tips = mem[s].tips
    BY <2>1 DEF LedgerIn
  <2> HIDE DEF L
  <2>3. TipsClean(L, G)
    BY <1>a, <2>2 DEF TipsClean
  <2>4. LedgersClean(G)' /\ \A t \in Server : Left(t)
    BY <1>5, <1>a, <2>1, <2>3, EditClean DEF Fold, Returned, Left
  <2>5. QED
    BY <2>4, CleanOn
<1>6. ASSUME NEW s \in Server, NEW b \in Branch, Unfold(s, b) PROVE CleanInv'
  <2>1. PICK F : Save(s, [mem[s] EXCEPT !.folded = @ \ F]) /\ UNCHANGED info
    BY <1>6, UnfoldIs
  <2> DEFINE L == [mem[s] EXCEPT !.folded = @ \ F]
  <2>2. L.tips = mem[s].tips /\ Save(s, L)
    BY <2>1, TypesAre DEF LedgerIn
  <2> HIDE DEF L
  <2>3. TipsClean(L, G)
    BY <1>a, <2>2 DEF TipsClean
  <2>4. LedgersClean(G)' /\ \A t \in Server : Left(t)
    BY <1>6, <1>a, <2>1, <2>2, <2>3, EditClean DEF Unfold, Returned, Left
  <2>5. QED
    BY <2>4, CleanOn
<1>7. CASE UNCHANGED vars
  <2>1. LedgersClean(G)' /\ \A t \in Server : Left(t)
    BY <1>7, <1>a DEF vars, LedgersClean, Closed, TipsClean, Entry, Left
  <2>2. QED
    BY <2>1, CleanOn
<1>8. QED
  BY <1>1, <1>2, <1>3, <1>4, <1>5, <1>6, <1>7, InitCallClean, PruneAgeClean, PruneLastClean,
     RunJobClean DEF Next

(* What verification walks is on the chain.                                *)
LEMMA TailIn ==
    ASSUME NEW T, NEW chain \in Seq(T), NEW cps
    PROVE  UpToCheckpoint(chain, cps) \in Seq(T)
<1>1. Only(chain, Last(cps)..MaxId) \in Seq(T)
  BY OnlyIn
<1>2. QED
  BY <1>1 DEF UpToCheckpoint

(* Entries are plain, none of the branch is folded: all hashes match.      *)
LEMMA UnfoldVerifies ==
    ASSUME Apart, TypeOK, TypeOK', CleanInv, NEW s \in Server, NEW b \in Branch \ Pruned,
           Unfold(s, b)
    PROVE  Verify(mem[s], b)'
<1> DEFINE h == History(mem[s], b)
           F == UnfoldsIn(mem[s], b)
           L == [mem[s] EXCEPT !.folded = @ \ F]
<1>0. b \in Branch \ Dirty
  BY DEF Apart, Dirty, Pruned
<1>1. PICK G : CleanFor(G)
  BY DEF CleanInv
<1>2. h \in Seq(G) /\ LedgersClean(G)
  BY <1>0, <1>1, HistoryClean DEF CleanFor
<1>3. Save(s, L) /\ UNCHANGED info /\ F = Range(h) \cap mem[s].folded
  BY DEF Unfold, UnfoldsIn
<1> HIDE DEF F
<1>4. LedgerIn(L, Entry) /\ LedgerIn(mem[s], Entry)
  BY EditsOK, TypesAre
<1>5. L.ids = mem[s].ids /\ L.tips = mem[s].tips /\ L.folded = mem[s].folded \ F
  BY <1>4 DEF LedgerIn
<1> HIDE DEF L
<1>6. Keeps(s, L)
  BY <1>3, <1>4, <1>5 DEF Keeps
<1>7. History(mem[s], b)' = h /\ mem'[s] = L
  BY <1>5, <1>6, KeepsHistory
<1> HIDE DEF h
<1>8. h \in Seq(Range(h)) /\ Range(h) \subseteq G
  BY <1>2 DEF Range
<1>9. ASSUME NEW i, i \in Range(VerifyTail(mem[s], b)')
      PROVE  i \in Range(h)
  <2>1. PICK c : c = VerifyTail(mem[s], b)'
    OBVIOUS
  <2>2. PICK cps : cps = Checkpoints(mem[s], b)'
    OBVIOUS
  <2>3. c = UpToCheckpoint(h, cps)
    BY <1>7, <2>1, <2>2 DEF VerifyTail
  <2>4. c \in Seq(Range(h))
    BY <1>8, <2>3, TailIn
  <2>5. Range(c) \subseteq Range(h)
    <3> DEFINE T == Range(h)
    <3>1. c \in Seq(T)
      BY <2>4
    <3> HIDE DEF T
    <3>2. Range(c) \subseteq T
      BY <3>1 DEF Range
    <3>3. QED
      BY <3>2 DEF T
  <2>6. QED
    BY <1>9, <2>1, <2>5
<1>10. ASSUME NEW i, i \in Range(h)
       PROVE  i \notin L.folded /\ info'[i].form # "folded"
  BY <1>2, <1>3, <1>5, <1>8, <1>10 DEF LedgersClean, Closed
<1>11. QED
  BY <1>7, <1>9, <1>10 DEF Verify, HashOK

(* erl_unfold undoes erl_fold: for any servers, kills and prunes that keep *)
(* folded copies apart, the branch it is called on verifies again.         *)
THEOREM UnfoldAlwaysRestores == Apart => (Spec => UnfoldRestores)
<1> SUFFICES ASSUME Apart PROVE Spec => UnfoldRestores
  OBVIOUS
<1> DEFINE Restores == \A s \in Server, b \in Branch \ Pruned :
                          Unfold(s, b) => Verify(mem[s], b)'
<1>1. CleanInv /\ TypeOK /\ [Next]_vars => CleanInv'
  BY StepClean
<1>2. TypeOK /\ TypeOK' /\ CleanInv /\ [Next]_vars => [Restores]_vars
  BY UnfoldVerifies
<1>3. QED
  BY <1>1, <1>2, InitClean, TypeCorrect, PTL DEF Spec, UnfoldRestores

-----------------------------------------------------------------------------
(* One server that has the file to itself.                                 *)

Single == \A s, t \in Server : s = t

(* What is in memory and what is in the file agree, but for the branch a   *)
(* prune by age has emptied: the file keeps its last tip.                  *)
Agree(L, D) ==
    /\ L.ids = D.ids /\ L.folded = D.folded /\ L.cps = D.cps
    /\ \A b \in Branch : \/ L.tips[b] > 0 /\ D.tips[b] = L.tips[b]
                         \/ ~ (L.tips[b] > 0) /\ ~ (D.tips[b] > 0)
                         \/ L.tips[b] = null /\ b = PruneBranch /\ "prune_age" \in Tools

(* The saves of calls: no cut, and only an archive that is new is opened.  *)
Emptying(j, L) ==
    \A k \in 1..Len(j) :
        /\ j[k].op # "cut"
        /\ j[k].op = "null" =>
              /\ "prune_age" \in Tools
              /\ \/ j[k].name = PruneBranch
                 \/ j[k].name = Archive /\ k = 1 /\ L.tips[Archive] = undefined

(* A keep-last prune deletes from memory what the file keeps: they agree   *)
(* in a server that has called none since it started.                      *)
SyncInv ==
    /\ ~exists => disk = EmptyLedger
    /\ ~trims => trimmed = {}
    /\ \A s \in Server : /\ s \notin up => job[s] = <<>>
                         /\ s \notin trimmed =>
                               /\ s \in up => Agree(mem[s], disk)
                               /\ Emptying(job[s], mem[s])

(* The empty ledger has no tip.                                            *)
LEMMA EmptyTips == \A b \in Branch : ~ (EmptyLedger.tips[b] > 0) /\ ~ (null > 0)
BY DEF EmptyLedger, null, undefined

(* A save that keeps the entries and the checkpoint lists.                 *)
LEMMA SaveAgrees ==
    ASSUME TypeOK, NEW s \in Server, Agree(mem[s], disk), NEW L, Save(s, L), NEW E, LedgerIn(L, E),
           mem[s].ids \subseteq L.ids, DOMAIN mem[s].cps \subseteq DOMAIN L.cps,
           \A b \in Branch : \/ L.tips[b] > 0
                             \/ L.tips[b] = mem[s].tips[b]
                             \/ mem[s].tips[b] = undefined
                             \/ L.tips[b] = null /\ b = PruneBranch /\ "prune_age" \in Tools
    PROVE  mem'[s] = L /\ exists' /\ Agree(mem'[s], disk')
<1>1. mem'[s] = L /\ exists'
  BY TypesAre DEF Save
<1>2. CASE ~exists
  <2>1. disk' = L
    BY <1>2 DEF Save
  <2>2. QED
    BY <1>1, <2>1 DEF Agree
<1>3. CASE exists
  <2>1. /\ disk'.ids = disk.ids \cup L.ids
        /\ disk'.folded = (disk.folded \ L.ids) \cup L.folded
        /\ \A b \in Branch : disk'.tips[b] = IF L.tips[b] > 0 THEN L.tips[b] ELSE disk.tips[b]
        /\ disk'.cps = [b \in DOMAIN L.cps \cup DOMAIN disk.cps |->
                          IF b \in DOMAIN L.cps THEN L.cps[b] ELSE disk.cps[b]]
    BY <1>3 DEF Save, Merged
  <2>2. disk'.ids = L.ids /\ disk'.folded = L.folded
    BY <2>1, TypesAre DEF Agree, LedgerIn
  <2>3. disk'.cps = L.cps
    <3>1. DOMAIN L.cps \cup DOMAIN disk.cps = DOMAIN L.cps
      BY DEF Agree
    <3>2. L.cps = [b \in DOMAIN L.cps |-> L.cps[b]]
      BY DEF LedgerIn
    <3>3. QED
      BY <2>1, <3>1, <3>2
  <2>4. ~ (undefined > 0) /\ ~ (null > 0) /\ undefined # null
    BY DEF undefined, null
  <2>5. ASSUME NEW b \in Branch
        PROVE  \/ L.tips[b] > 0 /\ disk'.tips[b] = L.tips[b]
               \/ ~ (L.tips[b] > 0) /\ ~ (disk'.tips[b] > 0)
               \/ L.tips[b] = null /\ b = PruneBranch /\ "prune_age" \in Tools
    BY <2>1, <2>4 DEF Agree
  <2>6. QED
    BY <1>1, <2>2, <2>3, <2>5 DEF Agree
<1>4. QED
  BY <1>1, <1>2, <1>3

(* The saves of the tools keep them.                                       *)
LEMMA TipAgrees ==
    ASSUME TypeOK, NEW s \in Server, Agree(mem[s], disk), NEW b \in Branch, NEW tip,
           LedgerIn([mem[s] EXCEPT !.tips[b] = tip], Entry),
           Save(s, [mem[s] EXCEPT !.tips[b] = tip]),
           \/ mem[s].tips[b] = undefined
           \/ tip = null /\ b = PruneBranch /\ "prune_age" \in Tools
    PROVE  exists' /\ Agree(mem'[s], disk') /\ \A c \in Branch : c # b => mem'[s].tips[c] = mem[s].tips[c]
<1> DEFINE L == [mem[s] EXCEPT !.tips[b] = tip]
<1>1. /\ L.ids = mem[s].ids /\ L.cps = mem[s].cps
      /\ \A c \in Branch : L.tips[c] = IF c = b THEN tip ELSE mem[s].tips[c]
  BY TypesAre DEF LedgerIn
<1>2. LedgerIn(L, Entry) /\ Save(s, L)
  OBVIOUS
<1> HIDE DEF L
<1>3. mem'[s] = L /\ exists' /\ Agree(mem'[s], disk')
  BY <1>1, <1>2, SaveAgrees
<1>4. QED
  BY <1>1, <1>3

(* A save of other folds.                                                  *)
LEMMA FoldAgrees ==
    ASSUME TypeOK, NEW s \in Server, Agree(mem[s], disk), NEW F,
           LedgerIn([mem[s] EXCEPT !.folded = F], Entry), Save(s, [mem[s] EXCEPT !.folded = F])
    PROVE  exists' /\ Agree(mem'[s], disk') /\ mem'[s].tips = mem[s].tips
<1> DEFINE L == [mem[s] EXCEPT !.folded = F]
<1>1. L.ids = mem[s].ids /\ L.cps = mem[s].cps /\ L.tips = mem[s].tips
  BY TypesAre DEF LedgerIn
<1>2. LedgerIn(L, Entry) /\ Save(s, L)
  OBVIOUS
<1> HIDE DEF L
<1>3. mem'[s] = L /\ exists' /\ Agree(mem'[s], disk')
  BY <1>1, <1>2, SaveAgrees
<1>4. QED
  BY <1>1, <1>3

(* An append, with its checkpoints.                                        *)
CpsAfter(s, b) == CheckpointsAfter(<<NewId>> \o ChainFrom(mem[s], ParentIn(mem[s], b)),
                                   Checkpoints(mem[s], b))

Grown(s, b, L) ==
    /\ Save(s, L) /\ mem'[s] = L /\ LedgerIn(L, Entry \cup {NewId})
    /\ L.ids = mem[s].ids \cup {NewId}
    /\ \A c \in Branch : L.tips[c] = IF c = b THEN NewId ELSE mem[s].tips[c]
    /\ DOMAIN L.cps = DOMAIN mem[s].cps \cup {b}
    /\ L.cps[b] = CpsAfter(s, b)
    /\ \A c \in DOMAIN mem[s].cps : c # b => L.cps[c] = mem[s].cps[c]

(* What an append saves.                                                   *)
LEMMA AppendSaves ==
    ASSUME TypeOK, NEW s \in Server, NEW b \in Branch, NEW prot \in BOOLEAN,
           NEW form \in {"plain", "folded"}, NEW payload \in 1..MaxId,
           AppendEntry(s, b, prot, form, payload)
    PROVE  \E L : Grown(s, b, L)
<1> DEFINE M == mem[s]
           cps == CpsAfter(s, b)
           lists == [c \in DOMAIN M.cps \cup {b} |-> IF c = b THEN cps ELSE M.cps[c]]
           L == [ids |-> M.ids \cup {NewId},
                 folded |-> IF form = "folded" THEN M.folded \cup {NewId} ELSE M.folded,
                 tips |-> [M.tips EXCEPT ![b] = NewId], cps |-> lists]
<1>1. Save(s, L)
  BY DEF AppendEntry, CpsAfter
<1> HIDE DEF L, lists, cps, M
<1>a. Appended(s, b, ParentIn(mem[s], b))
  BY AppendOK
<1>2. PICK K : Save(s, K) /\ LedgerIn(K, Entry \cup {NewId})
  BY <1>a DEF Appended
<1>3. mem'[s] = L /\ K = L
  BY <1>1, <1>2, TypesAre DEF Save
<1>4. M.tips \in [Branch -> {undefined, null} \cup Entry]
  BY TypesAre DEF LedgerIn, M
<1>5. /\ L.ids = M.ids \cup {NewId}
      /\ \A c \in Branch : L.tips[c] = IF c = b THEN NewId ELSE M.tips[c]
      /\ DOMAIN L.cps = DOMAIN M.cps \cup {b}
      /\ L.cps[b] = cps
      /\ \A c \in DOMAIN M.cps : c # b => L.cps[c] = M.cps[c]
  BY <1>4 DEF L, lists
<1>6. LedgerIn(L, Entry \cup {NewId}) /\ M = mem[s] /\ cps = CpsAfter(s, b)
  BY <1>2, <1>3 DEF M, cps
<1>7. Grown(s, b, L)
  BY <1>1, <1>3, <1>5, <1>6 DEF Grown
<1>8. QED
  BY <1>7

(* ... and memory and file agree after it.                                 *)
LEMMA AppendAgrees ==
    ASSUME TypeOK, NEW s \in Server, Agree(mem[s], disk), NEW b \in Branch, NEW prot \in BOOLEAN,
           NEW form \in {"plain", "folded"}, NEW payload \in 1..MaxId,
           AppendEntry(s, b, prot, form, payload)
    PROVE  exists' /\ Agree(mem'[s], disk')
           /\ \A c \in Branch : c # b => mem'[s].tips[c] = mem[s].tips[c]
<1>1. PICK L : Grown(s, b, L)
  BY AppendSaves
<1>2. NewId > 0
  BY TypesAre DEF NewId
<1>3. exists' /\ Agree(mem'[s], disk')
  BY <1>1, <1>2, SaveAgrees DEF Grown
<1>4. QED
  BY <1>1, <1>3 DEF Grown

(* Only the server of the step matters.                                    *)
LEMMA OnlySync ==
    ASSUME Single, SyncInv, NEW s \in Server, exists' \/ disk' = EmptyLedger,
           trims' = trims /\ trimmed' \subseteq trimmed,
           s \in up' => Agree(mem'[s], disk'), s \notin up' => job'[s] = <<>>,
           Emptying(job'[s], mem'[s])
    PROVE  SyncInv'
BY DEF SyncInv, Single

(* ... and after a keep-last prune little does.                            *)
LEMMA TrimmedSync ==
    ASSUME Single, NEW s \in Server, exists' \/ disk' = EmptyLedger, trims', s \in trimmed',
           s \notin up' => job'[s] = <<>>
    PROVE  SyncInv'
BY DEF SyncInv, Single

(* The saves left, one done.                                               *)
LEMMA EmptyingTail ==
    ASSUME NEW S, NEW j \in Seq(S), j # <<>>, NEW L, Emptying(j, L), NEW K
    PROVE  Emptying(Tail(j), K)
<1> DEFINE r == Tail(j)
<1>1. \A k \in 1..Len(r) : k + 1 \in 1..Len(j) /\ r[k] = j[k + 1] /\ k + 1 # 1
  OBVIOUS
<1> HIDE DEF r
<1>2. Emptying(r, K)
  BY <1>1 DEF Emptying
<1>3. QED
  BY <1>2 DEF r

(* A tool that saves, a call that begins, the next save of a call.         *)
LEMMA ReturnedSync ==
    ASSUME Single, TypeOK, SyncInv, NEW s \in Server, Ready(s), Returned(s), exists',
           Agree(mem'[s], disk')
    PROVE  SyncInv'
<1>1. job'[s] = <<>> /\ s \in up' /\ trims' = trims /\ trimmed' = trimmed
  BY DEF Ready, Returned, ghosts
<1>2. Emptying(job'[s], mem'[s])
  BY <1>1 DEF Emptying
<1>3. QED
  BY <1>1, <1>2, OnlySync

(* A call that begins, with saves that cut nothing.                        *)
LEMMA CallSync ==
    ASSUME Single, TypeOK, SyncInv, NEW s \in Server, s \notin trimmed, NEW saves, NEW owed,
           Call(s, saves, owed), UNCHANGED ghosts, Emptying(saves, mem[s])
    PROVE  SyncInv'
<1>1. /\ UNCHANGED <<disk, exists, mem, up>> /\ job' = [job EXCEPT ![s] = saves]
      /\ s \in up
  BY DEF Call, Ready
<1>2. job'[s] = saves
  BY <1>1, TypeParts DEF Calls
<1>3. Agree(mem[s], disk) /\ (exists \/ disk = EmptyLedger)
  BY <1>1 DEF SyncInv
<1>4. QED
  BY <1>1, <1>2, <1>3, OnlySync DEF ghosts

(* The next save of a call.                                                *)
LEMMA ProceedSync ==
    ASSUME Single, TypeOK, SyncInv, NEW s \in Server, s \notin trimmed, Proceed(s),
           job[s] # <<>>, exists', Agree(mem'[s], disk')
    PROVE  SyncInv'
<1>1. /\ s \in up /\ UNCHANGED up /\ job' = [job EXCEPT ![s] = Tail(job[s])]
      /\ trims' = trims /\ trimmed' = trimmed
  BY DEF Proceed, SyncInv, ghosts
<1>2. job'[s] = Tail(job[s]) /\ job[s] \in Seq(SaveStep)
  BY <1>1, TypeParts DEF Calls
<1>3. Emptying(job'[s], mem'[s])
  BY <1>2, EmptyingTail DEF SyncInv
<1>4. QED
  BY <1>1, <1>3, OnlySync

(* One list of saves after another.                                        *)
LEMMA CatEmptying ==
    ASSUME NEW S, NEW a \in Seq(S), NEW b \in Seq(S), NEW L, Emptying(a, L),
           \A k \in 1..Len(b) : /\ b[k].op # "cut"
                                /\ b[k].op = "null" =>
                                      "prune_age" \in Tools /\ b[k].name = PruneBranch
    PROVE  a \o b \in Seq(S) /\ Emptying(a \o b, L)
<1> DEFINE ab == a \o b
<1>1. ab \in Seq(S)
  OBVIOUS
<1>2. \A k \in 1..Len(ab) : \/ k \in 1..Len(a) /\ ab[k] = a[k]
                            \/ k - Len(a) \in 1..Len(b) /\ ab[k] = b[k - Len(a)]
  OBVIOUS
<1> HIDE DEF ab
<1>3. Emptying(ab, L)
  BY <1>2 DEF Emptying
<1>4. QED
  BY <1>1, <1>3 DEF ab

(* The prune by age: its archive is emptied first, if it is new.           *)
LEMMA PruneAgeSync ==
    ASSUME Single, TypeOK, SyncInv, NEW s \in Server, s \notin trimmed, NEW cutoff \in Entry,
           PruneAge(s, cutoff)
    PROVE  SyncInv'
<1> DEFINE history == History(mem[s], PruneBranch)
           keep    == Only(history, Entry \ Old(cutoff))
           archive == Only(history, Old(cutoff))
           open    == IF mem[s].tips[Archive] = undefined
                      THEN <<[op |-> "null", name |-> Archive]>> ELSE <<>>
           empty   == <<[op |-> "null", name |-> PruneBranch]>>
           saves   == open \o Copies(Archive, Reverse(archive)) \o empty
                        \o Copies(PruneBranch, RebuildOrder(keep))
           owed    == [kept |-> Payloads(keep), archived |-> Range(Payloads(archive))]
<1>1. Call(s, saves, owed) /\ "prune_age" \in Tools /\ UNCHANGED ghosts
  BY DEF PruneAge
<1>2. Archive \in Branch /\ PruneBranch \in Branch
  BY ConstantsOK DEF Branch
<1>3. history \in Seq(Entry)
  <2>1. \A c \in Seq(mem[s].ids) : mem[s].ids \subseteq Entry => c \in Seq(Entry)
    OBVIOUS
  <2>2. QED
    BY <1>2, <2>1, HistoryOK
<1> HIDE DEF history
<1>4. keep \in Seq(Entry) /\ archive \in Seq(Entry)
  BY <1>3, OnlyIn
<1>5. open \in Seq(SaveStep) /\ empty \in Seq(SaveStep)
  BY <1>2, StepOK
<1>6. /\ Emptying(open, mem[s])
      /\ \A k \in 1..Len(empty) : empty[k].op = "null" /\ empty[k].name = PruneBranch
  BY <1>1 DEF Emptying
<1> HIDE DEF keep, archive, open, empty
<1> DEFINE moved   == Copies(Archive, Reverse(archive))
           rebuilt == Copies(PruneBranch, RebuildOrder(keep))
<1>7. moved \in Seq(SaveStep) /\ rebuilt \in Seq(SaveStep)
  BY <1>2, <1>4, CopiesOK, ReverseOK DEF RebuildOrder
<1>8. \A b, ids : \A k \in 1..Len(Copies(b, ids)) : Copies(b, ids)[k].op = "append"
  BY DEF Copies
<1>9. /\ \A k \in 1..Len(moved) : moved[k].op = "append"
      /\ \A k \in 1..Len(rebuilt) : rebuilt[k].op = "append"
  BY <1>8
<1> HIDE DEF moved, rebuilt
<1> DEFINE L     == mem[s]
           first == open \o moved
           most  == first \o empty
           all   == most \o rebuilt
<1> HIDE DEF L
<1>a. Emptying(open, L)
  BY <1>6 DEF L
<1>10. first \in Seq(SaveStep) /\ Emptying(first, L)
  BY <1>a, <1>5, <1>7, <1>9, CatEmptying
<1> HIDE DEF first
<1>11. most \in Seq(SaveStep) /\ Emptying(most, L)
  BY <1>1, <1>5, <1>6, <1>10, CatEmptying
<1> HIDE DEF most
<1>12. all \in Seq(SaveStep) /\ Emptying(all, L)
  BY <1>7, <1>9, <1>11, CatEmptying
<1>13. Emptying(saves, mem[s])
  BY <1>12 DEF first, most, moved, rebuilt, L
<1> HIDE DEF saves, owed
<1>14. QED
  BY <1>1, <1>13, CallSync

(* The bootstrap empties no branch.                                        *)
LEMMA InitCallSync ==
    ASSUME Single, TypeOK, SyncInv, NEW s \in Server, s \notin trimmed, StandardInit(s)
    PROVE  SyncInv'
<1> DEFINE fact == [op |-> "append", branch |-> Session, prot |-> TRUE, copy |-> 0]
           open == [op |-> "branch", name |-> Session, from |-> Main]
           saves == IF mem[s].tips[Session] > 0 THEN <<>> ELSE <<open, fact, fact>>
<1>1. Call(s, saves, NoPromise) /\ UNCHANGED ghosts
  BY DEF StandardInit
<1>2. fact.op = "append" /\ open.op = "branch"
  OBVIOUS
<1> HIDE DEF fact, open
<1>3. Emptying(saves, mem[s])
  BY <1>2 DEF Emptying
<1> HIDE DEF saves
<1>4. QED
  BY <1>1, <1>3, CallSync

(* Each save of a call keeps memory and file agreeing.                     *)
LEMMA RunJobSync ==
    ASSUME Single, TypeOK, SyncInv, NEW s \in Server, s \notin trimmed, RunJob(s)
    PROVE  SyncInv'
<1> DEFINE o == Head(job[s])
<1>1. job[s] # <<>> /\ o \in SaveStep /\ o = job[s][1] /\ 1 \in 1..Len(job[s])
  BY TypeParts DEF Calls, RunJob
<1>2. /\ o.op # "cut"
      /\ o.op = "null" => /\ "prune_age" \in Tools
                          /\ \/ o.name = PruneBranch
                             \/ o.name = Archive /\ mem[s].tips[Archive] = undefined
  BY <1>1 DEF SyncInv, Emptying
<1>3. s \in up /\ Agree(mem[s], disk) /\ (exists \/ disk = EmptyLedger)
  BY <1>1 DEF SyncInv
<1>4. CASE JobAppend(s)
  <2> HIDE DEF o
  <2>1. o.op = "append" /\ o.branch \in Branch /\ o.prot \in BOOLEAN /\ o.copy \in {0} \cup Entry
    BY <1>1, <1>4, StepIs DEF JobAppend, o
  <2>2. CASE o.copy = 0
    <3>1. AppendEntry(s, o.branch, o.prot, "plain", NewId)
      BY <1>4, <2>2 DEF JobAppend, o
    <3>2. NewId \in 1..MaxId
      BY <3>1, TypesAre, ConstantsOK DEF AppendEntry, NewId
    <3>3. exists' /\ Agree(mem'[s], disk')
      BY <1>3, <2>1, <3>1, <3>2, AppendAgrees
    <3>4. QED
      BY <1>1, <1>4, <3>3, ProceedSync DEF JobAppend
  <2>3. CASE o.copy # 0
    <3> DEFINE form == IF o.copy \in mem[s].folded THEN "folded" ELSE "plain"
    <3>1. AppendEntry(s, o.branch, o.prot, form, info[o.copy].payload)
      BY <1>4, <2>3 DEF JobAppend, o
    <3>2. form \in {"plain", "folded"}
      OBVIOUS
    <3> HIDE DEF form
    <3>3. info[o.copy] \in Info
      BY <2>1, <2>3, TypesAre DEF Entry
    <3>4. info[o.copy].payload \in 1..MaxId
      BY <3>3 DEF Info
    <3>5. exists' /\ Agree(mem'[s], disk')
      BY <1>3, <2>1, <3>1, <3>2, <3>4, AppendAgrees
    <3>6. QED
      BY <1>1, <1>4, <3>5, ProceedSync DEF JobAppend
  <2>4. QED
    BY <2>2, <2>3
<1>5. CASE JobBranch(s)
  <2> DEFINE b   == o.name
             tip == ParentIn(mem[s], o.from)
  <2>1. b \in Branch /\ o.from \in Branch /\ mem[s].tips[b] = undefined
    BY <1>1, <1>5, StepIs DEF JobBranch, NewBranch
  <2>2. /\ Save(s, [mem[s] EXCEPT !.tips[b] = tip])
        /\ LedgerIn([mem[s] EXCEPT !.tips[b] = tip], Entry)
    BY <1>1, <1>5, <2>1, NewBranchIs DEF JobBranch
  <2> HIDE DEF b, tip
  <2>3. exists' /\ Agree(mem'[s], disk')
    BY <1>3, <2>1, <2>2, TipAgrees
  <2>4. QED
    BY <1>1, <1>5, <2>3, ProceedSync DEF JobBranch
<1>6. CASE JobThrow(s)
  <2>1. /\ UNCHANGED <<disk, exists, mem, up>> /\ job'[s] = <<>>
        /\ trims' = trims /\ trimmed' = trimmed
    BY <1>6, TypeParts DEF JobThrow, Calls, ghosts
  <2>2. Emptying(job'[s], mem'[s])
    BY <2>1 DEF Emptying
  <2>3. QED
    BY <1>3, <2>1, <2>2, OnlySync
<1>7. CASE JobNull(s)
  <2> DEFINE b == o.name
  <2>1. b \in Branch /\ o.op = "null"
    BY <1>1, <1>7, StepIs DEF JobNull
  <2>2. \/ mem[s].tips[b] = undefined
        \/ b = PruneBranch /\ "prune_age" \in Tools
    BY <1>2, <2>1
  <2>3. Save(s, [mem[s] EXCEPT !.tips[b] = null])
    BY <1>7 DEF JobNull
  <2> HIDE DEF b
  <2>4. LedgerIn([mem[s] EXCEPT !.tips[b] = null], Entry)
    BY <2>1, EditsOK
  <2>5. exists' /\ Agree(mem'[s], disk')
    BY <1>3, <2>1, <2>2, <2>3, <2>4, TipAgrees
  <2>6. QED
    BY <1>1, <1>7, <2>5, ProceedSync DEF JobNull
<1>8. CASE JobCut(s)
  BY <1>2, <1>8 DEF JobCut
<1>9. QED
  BY <1>4, <1>5, <1>6, <1>7, <1>8 DEF RunJob

(* Memory and file agree at first.                                         *)
LEMMA InitSync == Init => SyncInv
BY DEF Init, SyncInv, Emptying

(* A save makes the file.                                                  *)
LEMMA SavesExist ==
    ASSUME NEW s \in Server
    PROVE  /\ \A L : Save(s, L) => exists'
           /\ RunJob(s) => exists' \/ UNCHANGED <<exists, disk>>
           /\ \A b, prot, form, payload : AppendEntry(s, b, prot, form, payload) => exists'
           /\ \A name, from : NewBranch(s, name, from) => exists'
<1>1. \A L : Save(s, L) => exists'
  BY DEF Save
<1>2. \A b, prot, form, payload : AppendEntry(s, b, prot, form, payload) => exists'
  BY <1>1 DEF AppendEntry
<1>3. \A name, from : NewBranch(s, name, from) => exists'
  BY <1>1 DEF NewBranch
<1>4. RunJob(s) => exists' \/ UNCHANGED <<exists, disk>>
  BY <1>1, <1>2, <1>3 DEF RunJob, JobAppend, JobBranch, JobThrow, JobNull, JobCut
<1>5. QED
  BY <1>1, <1>2, <1>3, <1>4

(* The steps of a server that has called a keep-last prune.                *)
LEMMA AfterTrim ==
    ASSUME Single, TypeOK, SyncInv, NEW s \in Server, s \in trimmed,
           \/ \E b \in {Main, Session} : AppendTool(s, b)
           \/ \E name \in {Session}, from \in {Main} : BranchTool(s, name, from)
           \/ \E b \in Branch : \E F \in SUBSET Range(History(mem[s], b)) : Fold(s, b, F)
           \/ \E b \in Branch : Unfold(s, b)
           \/ StandardInit(s)
           \/ \E cutoff \in Entry : PruneAge(s, cutoff)
           \/ RunJob(s)
    PROVE  SyncInv'
<1>1. trims /\ (exists \/ disk = EmptyLedger) /\ (s \notin up => job[s] = <<>>)
  BY DEF SyncInv
<1>2. ASSUME Ready(s), Returned(s), exists' PROVE SyncInv'
  <2>1. s \in up' /\ trims' /\ s \in trimmed'
    BY <1>1, <1>2 DEF Ready, Returned, ghosts
  <2>2. QED
    BY <1>2, <2>1, TrimmedSync
<1>3. ASSUME NEW saves, NEW owed, Call(s, saves, owed), UNCHANGED ghosts PROVE SyncInv'
  <2>1. s \in up' /\ trims' /\ s \in trimmed' /\ UNCHANGED <<exists, disk>>
    BY <1>1, <1>3 DEF Call, Ready, ghosts
  <2>2. QED
    BY <1>1, <2>1, TrimmedSync
<1>4. CASE RunJob(s)
  <2>1. job[s] # <<>> /\ s \in up
    BY <1>1, <1>4 DEF RunJob
  <2>2. s \in up' /\ trims' /\ s \in trimmed'
    BY <1>1, <1>4, <2>1
       DEF RunJob, JobAppend, JobBranch, JobThrow, JobNull, JobCut, Proceed, ghosts
  <2>3. exists' \/ disk' = EmptyLedger
    BY <1>1, <1>4, SavesExist
  <2>4. QED
    BY <2>2, <2>3, TrimmedSync
<1>5. ASSUME NEW b \in {Main, Session}, AppendTool(s, b) PROVE SyncInv'
  BY <1>2, <1>5, SavesExist DEF AppendTool
<1>6. ASSUME NEW name \in {Session}, NEW from \in {Main}, BranchTool(s, name, from)
      PROVE  SyncInv'
  BY <1>2, <1>6, SavesExist DEF BranchTool
<1>7. ASSUME NEW b \in Branch, NEW F \in SUBSET Range(History(mem[s], b)), Fold(s, b, F)
      PROVE  SyncInv'
  BY <1>2, <1>7, SavesExist DEF Fold
<1>8. ASSUME NEW b \in Branch, Unfold(s, b) PROVE SyncInv'
  BY <1>2, <1>8, SavesExist DEF Unfold
<1>9. CASE StandardInit(s)
  BY <1>3, <1>9 DEF StandardInit
<1>10. ASSUME NEW cutoff \in Entry, PruneAge(s, cutoff) PROVE SyncInv'
  BY <1>3, <1>10 DEF PruneAge
<1>11. QED
  BY <1>4, <1>5, <1>6, <1>7, <1>8, <1>9, <1>10

(* Every step keeps them agreeing, but for the branch a prune has emptied. *)
LEMMA StepSync == Single /\ TypeOK /\ SyncInv /\ [Next]_vars => SyncInv'
<1> SUFFICES ASSUME Single, TypeOK, SyncInv, [Next]_vars PROVE SyncInv'
  OBVIOUS
<1>1. ASSUME NEW s \in Server, Start(s) PROVE SyncInv'
  <2>1. /\ s \in up' /\ UNCHANGED <<disk, exists, job>> /\ s \notin up
        /\ trims' = trims /\ trimmed' \subseteq trimmed
        /\ mem'[s] = IF exists THEN disk ELSE EmptyLedger
    BY <1>1, TypesAre DEF Start
  <2>2. Agree(mem'[s], disk') /\ job'[s] = <<>> /\ (exists' \/ disk' = EmptyLedger)
    BY <2>1 DEF SyncInv, Agree
  <2>3. Emptying(job'[s], mem'[s])
    BY <2>2 DEF Emptying
  <2>4. QED
    BY <2>1, <2>2, <2>3, OnlySync
<1>2. ASSUME NEW s \in Server, Stop(s) PROVE SyncInv'
  <2>1. /\ s \notin up' /\ UNCHANGED <<disk, exists>> /\ job'[s] = <<>>
        /\ trims' = trims /\ trimmed' = trimmed
    BY <1>2, TypeParts DEF Stop, Calls, ghosts
  <2>2. Emptying(job'[s], mem'[s]) /\ (exists' \/ disk' = EmptyLedger)
    BY <2>1 DEF Emptying, SyncInv
  <2>3. QED
    BY <2>1, <2>2, OnlySync
<1>3. ASSUME NEW s \in Server, s \notin trimmed, NEW b \in {Main, Session}, AppendTool(s, b)
      PROVE  SyncInv'
  <2>1. b \in Branch /\ AppendEntry(s, b, FALSE, "plain", NewId) /\ Ready(s)
    BY <1>3 DEF Branch, AppendTool
  <2>2. NewId \in 1..MaxId
    BY <2>1, TypesAre, ConstantsOK DEF AppendEntry, NewId
  <2>3. Agree(mem[s], disk)
    BY <1>3, <2>1 DEF SyncInv, Ready
  <2>4. exists' /\ Agree(mem'[s], disk')
    BY <2>1, <2>2, <2>3, AppendAgrees
  <2>5. QED
    BY <1>3, <2>1, <2>4, ReturnedSync DEF AppendTool
<1>4. ASSUME NEW s \in Server, s \notin trimmed, NEW name \in {Session}, NEW from \in {Main},
             BranchTool(s, name, from)
      PROVE  SyncInv'
  <2> DEFINE tip == ParentIn(mem[s], from)
  <2>1. /\ name \in Branch /\ from \in Branch /\ mem[s].tips[name] = undefined
        /\ Ready(s)
    BY <1>4 DEF Branch, BranchTool, NewBranch
  <2>2. /\ Save(s, [mem[s] EXCEPT !.tips[name] = tip])
        /\ LedgerIn([mem[s] EXCEPT !.tips[name] = tip], Entry)
    BY <1>4, <2>1, NewBranchIs DEF BranchTool
  <2>3. Agree(mem[s], disk)
    BY <1>4, <2>1 DEF SyncInv, Ready
  <2> HIDE DEF tip
  <2>4. exists' /\ Agree(mem'[s], disk')
    BY <2>1, <2>2, <2>3, TipAgrees
  <2>5. QED
    BY <1>4, <2>1, <2>4, ReturnedSync DEF BranchTool
<1>5. ASSUME NEW s \in Server, s \notin trimmed, NEW b \in Branch,
             NEW F \in SUBSET Range(History(mem[s], b)), Fold(s, b, F)
      PROVE  SyncInv'
  <2>1. /\ Save(s, [mem[s] EXCEPT !.folded = @ \cup F])
        /\ LedgerIn([mem[s] EXCEPT !.folded = @ \cup F], Entry) /\ Ready(s)
    BY <1>5, FoldIs DEF Fold
  <2>2. PICK G : G = mem[s].folded \cup F
    OBVIOUS
  <2>3. Agree(mem[s], disk)
    BY <1>5, <2>1 DEF SyncInv, Ready
  <2>4. exists' /\ Agree(mem'[s], disk')
    BY <2>1, <2>2, <2>3, FoldAgrees
  <2>5. QED
    BY <1>5, <2>1, <2>4, ReturnedSync DEF Fold
<1>6. ASSUME NEW s \in Server, s \notin trimmed, NEW b \in Branch, Unfold(s, b)
      PROVE  SyncInv'
  <2>1. PICK F : /\ Save(s, [mem[s] EXCEPT !.folded = @ \ F])
                 /\ LedgerIn([mem[s] EXCEPT !.folded = @ \ F], Entry)
    BY <1>6, UnfoldIs
  <2>2. PICK G : G = mem[s].folded \ F
    OBVIOUS
  <2>3. Agree(mem[s], disk) /\ Ready(s)
    BY <1>6 DEF SyncInv, Ready, Unfold
  <2>4. exists' /\ Agree(mem'[s], disk')
    BY <2>1, <2>2, <2>3, FoldAgrees
  <2>5. QED
    BY <1>6, <2>3, <2>4, ReturnedSync DEF Unfold
<1>7. CASE UNCHANGED vars
  BY <1>7 DEF vars, ghosts, SyncInv
<1>8. ASSUME NEW s \in Server, PruneLast(s) PROVE SyncInv'
  <2>1. /\ s \in up' /\ UNCHANGED <<exists, disk>> /\ trims' /\ s \in trimmed'
    BY <1>8 DEF PruneLast, Call, Ready
  <2>2. QED
    BY <2>1, TrimmedSync DEF SyncInv
<1>9. QED
  BY <1>1, <1>2, <1>3, <1>4, <1>5, <1>6, <1>7, <1>8, InitCallSync, PruneAgeSync, RunJobSync,
     AfterTrim
     DEF Next

(* What a server has called it has called.                                 *)
LEMMA TrimsStay == [Next]_vars /\ ~trims' => ~trims
BY DEF Next, Start, Stop, AppendTool, BranchTool, Fold, Unfold, Returned, StandardInit,
       PruneAge, PruneLast, RunJob, JobAppend, JobBranch, JobThrow, JobNull, JobCut, Proceed,
       vars, ghosts

-----------------------------------------------------------------------------
(* Checkpoints.                                                            *)
LEMMA OnlyHead ==
    ASSUME NEW S, NEW c \in Seq(S), NEW i, NEW P, i \in P, \A x \in S : x \notin P
    PROVE  Only(<<i>> \o c, P) = <<i>>
<1> DEFINE d == <<i>> \o c
           f == CHOOSE g : IsOnly(d, P, g)
           Bad == {n \in 1..Len(d) : f[n] # <<i>>}
<1>1. d \in Seq(S \cup {i}) /\ Len(d) = Len(c) + 1 /\ Len(c) \in Nat /\ d[1] = i
      /\ \A n \in 2..Len(d) : d[n] \in S
  <2>1. Len(d) = Len(c) + 1 /\ d[1] = i /\ Len(c) \in Nat
        /\ \A k \in 1..Len(c) : d[k + 1] = c[k]
    BY OnTopIs
  <2>2. d \in Seq(S \cup {i})
    <3>1. c \in Seq(S \cup {i}) /\ i \in S \cup {i}
      OBVIOUS
    <3> DEFINE T == S \cup {i}
    <3>2. c \in Seq(T) /\ i \in T
      BY <3>1
    <3> HIDE DEF T
    <3>3. <<i>> \o c \in Seq(T)
      BY <3>2, OnTop
    <3>4. QED
      BY <3>3 DEF T
  <2> HIDE DEF d
  <2>3. ASSUME NEW n \in 2..Len(d) PROVE d[n] \in S
    <3>1. n - 1 \in 1..Len(c) /\ (n - 1) + 1 = n
      BY <2>1
    <3>2. d[n] = c[n - 1]
      BY <2>1, <3>1
    <3>3. QED
      BY <3>1, <3>2
  <2>4. QED
    BY <2>1, <2>2, <2>3
<1> HIDE DEF d
<1>2. IsOnly(d, P, f)
  BY <1>1, OnlyExists
<1>3. Only(d, P) = f[Len(d)]
  BY DEF Only, IsOnly
<1> HIDE DEF f
<1>4. \A n \in 0..Len(d) :
         f[n] = IF n = 0 THEN <<>>
                ELSE IF d[n] \in P THEN Append(f[n - 1], d[n]) ELSE f[n - 1]
  BY <1>2 DEF IsOnly
<1>5. f[1] = <<i>>
  <2>1. 0 \in 0..Len(d) /\ 1 \in 0..Len(d) /\ 1 # 0 /\ 1 - 1 = 0
    BY <1>1
  <2>2. f[0] = <<>>
    BY <1>4, <2>1
  <2>3. f[1] = Append(f[0], i)
    BY <1>1, <1>4, <2>1
  <2>4. QED
    BY <2>2, <2>3
<1>6. Bad = {}
  <2>1. SUFFICES ASSUME Bad # {} PROVE FALSE
    OBVIOUS
  <2>2. PICK n \in Bad : \A m \in Bad : n <= m
    <3>1. Bad \in SUBSET Nat
      OBVIOUS
    <3> HIDE DEF Bad
    <3>2. QED
      BY <2>1, <3>1, LeastOf
  <2>3. n # 1
    BY <1>5, <2>2
  <2>4. n \in 2..Len(d) /\ n \in 0..Len(d) /\ n # 0 /\ n - 1 \in 1..Len(d) /\ n - 1 \notin Bad
    BY <1>1, <2>2, <2>3
  <2>5. f[n] = f[n - 1]
    BY <1>1, <1>4, <2>4
  <2>6. QED
    BY <2>2, <2>4, <2>5
<1>7. Len(d) \in 1..Len(d)
  BY <1>1
<1>8. QED
  BY <1>3, <1>6, <1>7 DEF d

(* After an append the last checkpoint is near.                            *)
LEMMA CpsGrow ==
    ASSUME NEW E \in SUBSET Nat, NEW c \in Seq(E), NEW i \in Nat, i <= MaxId,
           \A x \in E : x < i, NEW old \in Seq(Range(c)), NEW chain, chain = <<i>> \o c,
           NEW cps, cps = CheckpointsAfter(chain, old)
    PROVE  /\ Range(cps) \subseteq Range(chain)
           /\ Len(UpToCheckpoint(chain, cps)) < Interval
<1>1. /\ Range(chain) = {i} \cup Range(c) /\ Len(chain) = Len(c) + 1 /\ chain[1] = i
      /\ Len(c) \in Nat
  BY OnTopIs
<1>2. Head(chain) = i
  OBVIOUS
<1>3. UpToCheckpoint(chain, old) \in Seq({i} \cup E)
  <2>1. chain \in Seq({i} \cup E)
    <3> DEFINE T == {i} \cup E
    <3>1. c \in Seq(T) /\ i \in T
      OBVIOUS
    <3> HIDE DEF T
    <3>2. <<i>> \o c \in Seq(T)
      BY <3>1, OnTop
    <3>3. QED
      BY <3>2 DEF T
  <2>2. QED
    BY <2>1, TailIn
<1>4. Len(UpToCheckpoint(chain, old)) \in Nat
  BY <1>3
<1>5. Range(old) \subseteq Range(c)
  BY DEF Range
<1>6. CASE Len(UpToCheckpoint(chain, old)) >= Interval
  <2>1. cps = Append(old, i)
    BY <1>2, <1>6 DEF CheckpointsAfter
  <2>2. cps # <<>> /\ Last(cps) = i
    BY <2>1 DEF Last
  <2>3. Contains(chain, i)
    <3>1. 1 \in 1..Len(chain)
      BY <1>1
    <3>2. QED
      BY <1>1, <3>1 DEF Contains
  <2>4. UpToCheckpoint(chain, cps) = Only(chain, i..MaxId)
    BY <2>2, <2>3 DEF UpToCheckpoint
  <2>5. i \in i..MaxId /\ \A x \in E : x \notin i..MaxId
    BY ConstantsOK
  <2>6. Only(chain, i..MaxId) = <<i>>
    <3>1. PICK P : P = i..MaxId
      OBVIOUS
    <3>2. i \in P /\ \A x \in E : x \notin P
      BY <2>5, <3>1
    <3>3. Only(<<i>> \o c, P) = <<i>>
      BY <3>2, OnlyHead
    <3>4. QED
      BY <3>1, <3>3
  <2>7. Len(UpToCheckpoint(chain, cps)) = 1
    BY <2>4, <2>6
  <2>8. Range(cps) \subseteq Range(old) \cup {i}
    <3>1. PICK R : R = Range(c)
      OBVIOUS
    <3>2. old \in Seq(R)
      BY <3>1
    <3>3. PICK R2 : R2 = R \cup {i}
      OBVIOUS
    <3>4. old \in Seq(R2) /\ i \in R2
      BY <3>2, <3>3
    <3>5. /\ DOMAIN cps = 1..(Len(old) + 1)
          /\ \A k \in 1..Len(old) : cps[k] = old[k]
          /\ cps[Len(old) + 1] = i /\ DOMAIN old = 1..Len(old) /\ Len(old) \in Nat
      BY <2>1, <3>4
    <3>6. ASSUME NEW k \in DOMAIN cps PROVE cps[k] \in Range(old) \cup {i}
      <4>1. CASE k \in 1..Len(old)
        <5>1. cps[k] = old[k] /\ old[k] \in Range(old)
          BY <3>5, <4>1 DEF Range
        <5>2. QED
          BY <5>1
      <4>2. CASE k = Len(old) + 1
        BY <3>5, <4>2
      <4>3. QED
        BY <3>5, <3>6, <4>1, <4>2
    <3>7. QED
      BY <3>6 DEF Range
  <2>9. Range(cps) \subseteq Range(chain)
    BY <1>1, <1>5, <2>8
  <2>10. 1 < Interval
    BY ConstantsOK
  <2>11. QED
    BY <2>7, <2>9, <2>10
<1>7. CASE ~ (Len(UpToCheckpoint(chain, old)) >= Interval)
  <2>1. cps = old
    BY <1>7 DEF CheckpointsAfter
  <2>2. QED
    BY <1>1, <1>4, <1>5, <1>7, <2>1, ConstantsOK
<1>8. QED
  BY <1>6, <1>7

(* A branch with checkpoints: they are on its chain, the last is near.     *)
CpOn(L, b) == /\ L.tips[b] > 0
              /\ Range(L.cps[b]) \subseteq Range(History(L, b))
              /\ Len(VerifyTail(L, b)) < Interval
CpOK(L) == \A b \in DOMAIN L.cps \ Pruned : CpOn(L, b)

(* What an append builds on is the history of the branch.                  *)
LEMMA ParentHistory ==
    ASSUME TypeOK, NEW s \in Server, NEW b \in Branch
    PROVE  ChainFrom(mem[s], ParentIn(mem[s], b)) = History(mem[s], b)
<1>1. ChainFrom(mem[s], null) = <<>>
  BY DEF ChainFrom, null
<1>2. ~ (mem[s].tips[b] > 0) => History(mem[s], b) = <<>>
  BY DEF History, ChainFrom
<1>3. QED
  BY <1>1, <1>2 DEF ParentIn, History

(* An append: the list of its branch grows as CpsGrow says, the other      *)
(* branches are as they were.                                              *)
LEMMA AppendCp ==
    ASSUME TypeOK, TypeOK', NEW s \in Server, CpOK(mem[s]), NEW b \in Branch,
           NEW prot \in BOOLEAN, NEW form \in {"plain", "folded"}, NEW payload \in 1..MaxId,
           AppendEntry(s, b, prot, form, payload)
    PROVE  CpOK(mem[s])'
<1> DEFINE i == NewId
           c == History(mem[s], b)
           chain == <<i>> \o c
           old == Checkpoints(mem[s], b)
<1>1. PICK L : Grown(s, b, L)
  BY AppendSaves
<1>2. \E e : Puts(s, b, e)
  BY PutsIs
<1>3. /\ History(mem[s], b)' = chain
      /\ \A d \in Branch : d # b => History(mem[s], d)' = History(mem[s], d)
  BY <1>2, PutsHistory
<1>4. mem'[s] = L /\ DOMAIN mem[s].cps \subseteq Branch /\ DOMAIN L.cps = DOMAIN mem[s].cps \cup {b}
  BY <1>1, TypesAre DEF Grown, LedgerIn
<1>5. ASSUME NEW d \in DOMAIN L.cps \ Pruned, d # b PROVE CpOn(mem[s], d)'
  <2>1. d \in DOMAIN mem[s].cps /\ d \in Branch
    BY <1>4, <1>5
  <2>2. CpOn(mem[s], d)
    BY <2>1 DEF CpOK
  <2>3. L.tips[d] = mem[s].tips[d] /\ L.cps[d] = mem[s].cps[d] /\ d \in DOMAIN L.cps
    BY <1>1, <1>5, <2>1 DEF Grown
  <2>4. History(mem[s], d)' = History(mem[s], d)
    BY <1>3, <1>5, <2>1
  <2>5. Checkpoints(mem[s], d)' = Checkpoints(mem[s], d)
    BY <1>4, <2>1, <2>3 DEF Checkpoints
  <2>6. VerifyTail(mem[s], d)' = VerifyTail(mem[s], d)
    BY <2>4, <2>5 DEF VerifyTail
  <2>7. QED
    BY <1>4, <2>2, <2>3, <2>4, <2>6 DEF CpOn
<1>6. ASSUME b \notin Pruned PROVE CpOn(mem[s], b)'
  <2>1. c \in Seq(Entry)
    <3>1. \A x \in Seq(mem[s].ids) : mem[s].ids \subseteq Entry => x \in Seq(Entry)
      OBVIOUS
    <3>2. QED
      BY <3>1, HistoryOK
  <2>2. Entry \in SUBSET Nat /\ i \in Nat /\ i > 0 /\ i <= MaxId /\ \A x \in Entry : x < i
    <3>1. i <= MaxId
      BY DEF AppendEntry
    <3>2. QED
      BY <3>1, TypesAre DEF Entry, NewId
  <2>3. old \in Seq(Range(c))
    <3>1. CASE b \in DOMAIN mem[s].cps
      <4>1. Range(old) \subseteq Range(c) /\ old = mem[s].cps[b]
        BY <1>6, <3>1 DEF CpOK, CpOn, Checkpoints
      <4>2. old \in Seq(Entry)
        BY <3>1, <4>1, TypesAre DEF LedgerIn
      <4> HIDE DEF old, c
      <4>3. \A k \in 1..Len(old) : old[k] \in Range(c)
        <5>1. DOMAIN old = 1..Len(old)
          BY <4>2
        <5>2. \A k \in DOMAIN old : old[k] \in Range(old)
          BY DEF Range
        <5>3. QED
          BY <4>1, <5>1, <5>2
      <4> DEFINE R == Range(c)
      <4>4. \A k \in 1..Len(old) : old[k] \in R
        BY <4>3
      <4> HIDE DEF R
      <4>5. old \in Seq(R)
        BY <4>2, <4>4
      <4>6. QED
        BY <4>5 DEF R
    <3>2. CASE b \notin DOMAIN mem[s].cps
      <4>1. old = <<>>
        BY <3>2 DEF Checkpoints
      <4> HIDE DEF old
      <4>2. QED
        BY <4>1
    <3>3. QED
      BY <3>1, <3>2
  <2>4. L.cps[b] = CheckpointsAfter(chain, old) /\ b \in DOMAIN L.cps /\ L.tips[b] = i
    BY <1>1, <1>4, ParentHistory DEF Grown, CpsAfter
  <2>5. Checkpoints(mem[s], b)' = L.cps[b]
    BY <1>4, <2>4 DEF Checkpoints
  <2>6. VerifyTail(mem[s], b)' = UpToCheckpoint(chain, L.cps[b])
    BY <1>3, <2>5 DEF VerifyTail
  <2>7. /\ Range(L.cps[b]) \subseteq Range(chain)
        /\ Len(UpToCheckpoint(chain, L.cps[b])) < Interval
    <3> DEFINE E == Entry
               all == chain
               cps == L.cps[b]
    <3>1. /\ E \in SUBSET Nat /\ c \in Seq(E) /\ i \in Nat /\ i <= MaxId /\ \A x \in E : x < i
          /\ old \in Seq(Range(c)) /\ all = <<i>> \o c /\ cps = CheckpointsAfter(all, old)
      BY <2>1, <2>2, <2>3, <2>4
    <3> HIDE DEF E, all, cps, c, i, old
    <3>2. Range(cps) \subseteq Range(all) /\ Len(UpToCheckpoint(all, cps)) < Interval
      BY <3>1, CpsGrow
    <3>3. QED
      BY <3>2 DEF all, cps
  <2>8. QED
    BY <1>3, <1>4, <2>2, <2>4, <2>6, <2>7 DEF CpOn
<1>7. QED
  BY <1>4, <1>5, <1>6 DEF CpOK

(* The invariant: of every memory, and of the file no server has read.     *)
CpsHold == \A s \in Server : CpOK(mem[s]) /\ (s \notin up => CpOK(disk))

(* The empty ledger has no checkpoints.                                    *)
LEMMA CpEmpty == CpOK(EmptyLedger) /\ CpOK(EmptyLedger)'
<1>1. DOMAIN EmptyLedger.cps = {}
  BY DEF EmptyLedger
<1>2. QED
  BY <1>1 DEF CpOK

(* Checkpoints that hold go on holding while no entry is created.          *)
LEMMA CpStays ==
    ASSUME UNCHANGED info, NEW L, CpOK(L)
    PROVE  CpOK(L)'
<1>1. \A tip : ChainFrom(L, tip)' = ChainFrom(L, tip)
  BY DEF ChainFrom
<1>2. \A b : History(L, b)' = History(L, b)
  BY <1>1 DEF History
<1>3. \A b : VerifyTail(L, b)' = VerifyTail(L, b)
  BY <1>2 DEF VerifyTail, Checkpoints
<1>4. QED
  BY <1>2, <1>3 DEF CpOK, CpOn

(* ... and hold in a ledger that agrees.                                   *)
LEMMA AgreeCp ==
    ASSUME TypeOK, NEW L, LedgerIn(L, Entry), NEW D, Agree(L, D), CpOK(L)
    PROVE  CpOK(D)
<1>1. \A tip : ChainFrom(D, tip) = ChainFrom(L, tip)
  BY DEF ChainFrom, Agree
<1>2. D.cps = L.cps /\ DOMAIN L.cps \subseteq Branch
  BY DEF Agree, LedgerIn
<1>3. ASSUME NEW b \in DOMAIN D.cps \ Pruned PROVE CpOn(D, b)
  <2>1. CpOn(L, b) /\ b \in Branch
    BY <1>2, <1>3 DEF CpOK
  <2>2. ~ (null > 0)
    BY DEF null
  <2>3. D.tips[b] = L.tips[b]
    BY <2>1, <2>2 DEF CpOn, Agree
  <2>4. History(D, b) = History(L, b) /\ Checkpoints(D, b) = Checkpoints(L, b)
    BY <1>1, <1>2, <2>3 DEF History, Checkpoints
  <2>5. VerifyTail(D, b) = VerifyTail(L, b)
    BY <2>4 DEF VerifyTail
  <2>6. QED
    BY <1>2, <2>1, <2>3, <2>4, <2>5 DEF CpOn
<1>4. QED
  BY <1>3 DEF CpOK

(* Only the server of the step matters.                                    *)
LEMMA OnlyCp ==
    ASSUME Single, NEW s \in Server, s \in up', CpOK(mem[s])'
    PROVE  CpsHold'
<1>1. \A t \in Server : t = s
  BY DEF Single
<1>2. ASSUME NEW t \in Server PROVE CpOK(mem[t])' /\ t \in up'
  <2>1. t = s
    BY <1>1
  <2>2. QED
    BY <2>1 DEF CpOK, CpOn, History, VerifyTail, Checkpoints
<1>3. QED
  BY <1>2 DEF CpsHold

(* A save that moves no tip of a branch with checkpoints.                  *)
LEMMA KeepsCp ==
    ASSUME TypeOK, TypeOK', NEW s \in Server, NEW L, Keeps(s, L), CpOK(mem[s]),
           L.cps = mem[s].cps,
           \A b \in DOMAIN mem[s].cps \ Pruned : L.tips[b] = mem[s].tips[b]
    PROVE  CpOK(mem[s])'
<1>1. mem'[s] = L /\ DOMAIN mem[s].cps \subseteq Branch
  BY KeepsHistory, TypesAre DEF LedgerIn
<1>2. ASSUME NEW b \in DOMAIN L.cps \ Pruned PROVE CpOn(mem[s], b)'
  <2>1. b \in Branch /\ L.tips[b] = mem[s].tips[b] /\ CpOn(mem[s], b)
    BY <1>1, <1>2 DEF CpOK
  <2>2. History(mem[s], b)' = History(mem[s], b)
    BY <2>1, KeepsHistory
  <2>3. Checkpoints(mem[s], b)' = Checkpoints(mem[s], b)
    BY <1>1 DEF Checkpoints
  <2>4. VerifyTail(mem[s], b)' = VerifyTail(mem[s], b)
    BY <2>2, <2>3 DEF VerifyTail
  <2>5. QED
    BY <1>1, <2>1, <2>2, <2>4 DEF CpOn
<1>3. QED
  BY <1>1, <1>2 DEF CpOK

(* A tip moves where the branch had none, or on a branch that is pruned.   *)
LEMMA TipCp ==
    ASSUME TypeOK, TypeOK', NEW s \in Server, CpOK(mem[s]), NEW b \in Branch, NEW tip,
           LedgerIn([mem[s] EXCEPT !.tips[b] = tip], Entry),
           Save(s, [mem[s] EXCEPT !.tips[b] = tip]), UNCHANGED info,
           mem[s].tips[b] = undefined \/ b \in Pruned
    PROVE  CpOK(mem[s])'
<1> DEFINE L == [mem[s] EXCEPT !.tips[b] = tip]
<1>1. /\ L.ids = mem[s].ids /\ L.cps = mem[s].cps
      /\ \A c \in Branch : c # b => L.tips[c] = mem[s].tips[c]
  BY TypesAre DEF LedgerIn
<1>2. Save(s, L) /\ LedgerIn(L, Entry)
  OBVIOUS
<1> HIDE DEF L
<1>3. ~ (undefined > 0) /\ DOMAIN mem[s].cps \subseteq Branch
  BY TypesAre DEF undefined, LedgerIn
<1>4. b \notin DOMAIN mem[s].cps \ Pruned
  BY <1>3 DEF CpOK, CpOn
<1>5. Keeps(s, L)
  BY <1>1, <1>2 DEF Keeps
<1>6. \A c \in DOMAIN mem[s].cps \ Pruned : L.tips[c] = mem[s].tips[c]
  BY <1>1, <1>3, <1>4
<1>7. QED
  BY <1>1, <1>5, <1>6, KeepsCp

(* A save of other folds.                                                  *)
LEMMA FoldCp ==
    ASSUME TypeOK, TypeOK', NEW s \in Server, CpOK(mem[s]), NEW F,
           LedgerIn([mem[s] EXCEPT !.folded = F], Entry),
           Save(s, [mem[s] EXCEPT !.folded = F]), UNCHANGED info
    PROVE  CpOK(mem[s])'
<1> DEFINE L == [mem[s] EXCEPT !.folded = F]
<1>1. L.ids = mem[s].ids /\ L.cps = mem[s].cps /\ L.tips = mem[s].tips
  BY TypesAre DEF LedgerIn
<1>2. Save(s, L) /\ LedgerIn(L, Entry)
  OBVIOUS
<1> HIDE DEF L
<1>3. Keeps(s, L)
  BY <1>1, <1>2 DEF Keeps
<1>4. QED
  BY <1>1, <1>3, KeepsCp

(* A step that leaves a server its memory and the entries.                 *)
LEMMA IdleCp ==
    ASSUME NEW s \in Server, UNCHANGED <<mem, info>>, CpOK(mem[s])
    PROVE  CpOK(mem[s])'
<1>1. PICK L : L = mem[s]
  OBVIOUS
<1>2. CpOK(L)'
  BY <1>1, CpStays
<1>3. mem'[s] = L
  BY <1>1
<1>4. QED
  BY <1>2, <1>3 DEF CpOK, CpOn, History, VerifyTail, Checkpoints

(* The next save of a call.                                                *)
LEMMA RunJobCp ==
    ASSUME Single, TypeOK, TypeOK', SyncInv, ~trims, CpsHold, NEW s \in Server, RunJob(s)
    PROVE  CpsHold'
<1> DEFINE o == Head(job[s])
<1>1. job[s] # <<>> /\ o \in SaveStep /\ o = job[s][1] /\ 1 \in 1..Len(job[s])
  BY TypeParts DEF Calls, RunJob
<1>2. /\ o.op # "cut"
      /\ o.op = "null" => "prune_age" \in Tools /\ o.name \in {PruneBranch, Archive}
  BY <1>1 DEF SyncInv, Emptying
<1>3. CpOK(mem[s]) /\ s \in up
  BY <1>1 DEF CpsHold, SyncInv
<1>4. s \in up'
  BY <1>3 DEF RunJob, JobAppend, JobBranch, JobThrow, JobNull, JobCut, Proceed
<1>5. CASE JobAppend(s)
  <2> HIDE DEF o
  <2>1. o.op = "append" /\ o.branch \in Branch /\ o.prot \in BOOLEAN /\ o.copy \in {0} \cup Entry
    BY <1>1, <1>5, StepIs DEF JobAppend, o
  <2>2. CASE o.copy = 0
    <3>1. AppendEntry(s, o.branch, o.prot, "plain", NewId)
      BY <1>5, <2>2 DEF JobAppend, o
    <3>2. NewId \in 1..MaxId
      BY <3>1, TypesAre, ConstantsOK DEF AppendEntry, NewId
    <3>3. CpOK(mem[s])'
      BY <1>3, <2>1, <3>1, <3>2, AppendCp
    <3>4. QED
      BY <1>4, <3>3, OnlyCp
  <2>3. CASE o.copy # 0
    <3> DEFINE form == IF o.copy \in mem[s].folded THEN "folded" ELSE "plain"
    <3>1. AppendEntry(s, o.branch, o.prot, form, info[o.copy].payload)
      BY <1>5, <2>3 DEF JobAppend, o
    <3>2. form \in {"plain", "folded"}
      OBVIOUS
    <3> HIDE DEF form
    <3>3. info[o.copy] \in Info
      BY <2>1, <2>3, TypesAre DEF Entry
    <3>4. info[o.copy].payload \in 1..MaxId
      BY <3>3 DEF Info
    <3>5. CpOK(mem[s])'
      BY <1>3, <2>1, <3>1, <3>2, <3>4, AppendCp
    <3>6. QED
      BY <1>4, <3>5, OnlyCp
  <2>4. QED
    BY <2>2, <2>3
<1>6. CASE JobBranch(s)
  <2> DEFINE b   == o.name
             tip == ParentIn(mem[s], o.from)
  <2>1. b \in Branch /\ o.from \in Branch /\ mem[s].tips[b] = undefined
    BY <1>1, <1>6, StepIs DEF JobBranch, NewBranch
  <2>2. /\ Save(s, [mem[s] EXCEPT !.tips[b] = tip]) /\ UNCHANGED info
        /\ LedgerIn([mem[s] EXCEPT !.tips[b] = tip], Entry)
    BY <1>1, <1>6, <2>1, NewBranchIs DEF JobBranch
  <2> HIDE DEF b, tip
  <2>3. CpOK(mem[s])'
    BY <1>3, <2>1, <2>2, TipCp
  <2>4. QED
    BY <1>4, <2>3, OnlyCp
<1>7. CASE JobThrow(s)
  <2>1. CpOK(mem[s])'
    BY <1>3, <1>7, IdleCp DEF JobThrow
  <2>2. QED
    BY <1>4, <2>1, OnlyCp
<1>8. CASE JobNull(s)
  <2> DEFINE b == o.name
  <2>1. b \in Branch /\ o.op = "null"
    BY <1>1, <1>8, StepIs DEF JobNull
  <2>2. b \in Pruned
    BY <1>2, <2>1 DEF Pruned
  <2>3. Save(s, [mem[s] EXCEPT !.tips[b] = null]) /\ UNCHANGED info
    BY <1>8 DEF JobNull
  <2> HIDE DEF b
  <2>4. LedgerIn([mem[s] EXCEPT !.tips[b] = null], Entry)
    BY <2>1, EditsOK
  <2>5. CpOK(mem[s])'
    BY <1>3, <2>1, <2>2, <2>3, <2>4, TipCp
  <2>6. QED
    BY <1>4, <2>5, OnlyCp
<1>9. CASE JobCut(s)
  BY <1>2, <1>9 DEF JobCut
<1>10. QED
  BY <1>5, <1>6, <1>7, <1>8, <1>9 DEF RunJob

(* Every step keeps the invariant of the checkpoints.                      *)
LEMMA StepCp ==
    Single /\ TypeOK /\ TypeOK' /\ SyncInv /\ (~trims => CpsHold) /\ [Next]_vars
      => (~trims => CpsHold)'
<1> SUFFICES ASSUME Single, TypeOK, TypeOK', SyncInv, ~trims => CpsHold, [Next]_vars, ~trims'
             PROVE  CpsHold'
  OBVIOUS
<1>a. ~trims /\ CpsHold /\ trimmed = {}
  BY TrimsStay DEF SyncInv
<1>0. \A s \in Server : CpOK(mem[s])
  BY <1>a DEF CpsHold
<1>1. ASSUME NEW s \in Server, Start(s) PROVE CpsHold'
  <2>1. /\ s \in up' /\ UNCHANGED <<info, disk>> /\ s \notin up
        /\ mem'[s] = IF exists THEN disk ELSE EmptyLedger
    BY <1>1, TypesAre DEF Start
  <2>2. CpOK(disk)
    BY <1>a, <2>1 DEF CpsHold
  <2>3. PICK L : L = IF exists THEN disk ELSE EmptyLedger
    OBVIOUS
  <2>4. CpOK(L)
    BY <2>2, <2>3, CpEmpty
  <2>5. CpOK(L)' /\ mem'[s] = L
    BY <2>1, <2>3, <2>4, CpStays
  <2>6. CpOK(mem[s])'
    BY <2>5 DEF CpOK, CpOn, History, VerifyTail, Checkpoints
  <2>7. QED
    BY <2>1, <2>6, OnlyCp
<1>2. ASSUME NEW s \in Server, Stop(s) PROVE CpsHold'
  <2>1. s \in up /\ UNCHANGED <<info, disk>> /\ mem'[s] = EmptyLedger
    BY <1>2, TypesAre DEF Stop
  <2>2. CpOK(disk)
    BY <1>0, <1>a, <2>1, AgreeCp, TypesAre DEF SyncInv
  <2>3. PICK L : L = disk
    OBVIOUS
  <2>4. CpOK(L)'
    BY <2>1, <2>2, <2>3, CpStays
  <2>5. CpOK(disk)'
    BY <2>1, <2>3, <2>4 DEF CpOK, CpOn, History, VerifyTail, Checkpoints
  <2>6. \A t \in Server : mem'[t] = EmptyLedger
    BY <2>1 DEF Single
  <2>7. ASSUME NEW t \in Server PROVE CpOK(mem[t])'
    BY <2>6, CpEmpty DEF CpOK, CpOn, History, VerifyTail, Checkpoints
  <2>8. QED
    BY <2>5, <2>7 DEF CpsHold
<1>3. ASSUME NEW s \in Server, NEW b \in {Main, Session}, AppendTool(s, b) PROVE CpsHold'
  <2>1. b \in Branch /\ AppendEntry(s, b, FALSE, "plain", NewId) /\ s \in up'
    BY <1>3 DEF Branch, AppendTool, Ready, Returned
  <2>2. NewId \in 1..MaxId
    BY <2>1, TypesAre, ConstantsOK DEF AppendEntry, NewId
  <2>3. CpOK(mem[s])'
    BY <1>0, <2>1, <2>2, AppendCp
  <2>4. QED
    BY <2>1, <2>3, OnlyCp
<1>4. ASSUME NEW s \in Server, NEW name \in {Session}, NEW from \in {Main},
             BranchTool(s, name, from)
      PROVE  CpsHold'
  <2> DEFINE tip == ParentIn(mem[s], from)
  <2>1. /\ name \in Branch /\ from \in Branch /\ mem[s].tips[name] = undefined
        /\ s \in up'
    BY <1>4 DEF Branch, BranchTool, NewBranch, Ready, Returned
  <2>2. /\ Save(s, [mem[s] EXCEPT !.tips[name] = tip]) /\ UNCHANGED info
        /\ LedgerIn([mem[s] EXCEPT !.tips[name] = tip], Entry)
    BY <1>4, <2>1, NewBranchIs DEF BranchTool
  <2> HIDE DEF tip
  <2>3. CpOK(mem[s])'
    BY <1>0, <2>1, <2>2, TipCp
  <2>4. QED
    BY <2>1, <2>3, OnlyCp
<1>5. ASSUME NEW s \in Server, NEW b \in Branch, NEW F \in SUBSET Range(History(mem[s], b)),
             Fold(s, b, F)
      PROVE  CpsHold'
  <2>1. /\ Save(s, [mem[s] EXCEPT !.folded = @ \cup F]) /\ UNCHANGED info
        /\ LedgerIn([mem[s] EXCEPT !.folded = @ \cup F], Entry) /\ s \in up'
    BY <1>5, FoldIs DEF Fold, Ready, Returned
  <2>2. PICK G : G = mem[s].folded \cup F
    OBVIOUS
  <2>3. CpOK(mem[s])'
    BY <1>0, <2>1, <2>2, FoldCp
  <2>4. QED
    BY <2>1, <2>3, OnlyCp
<1>6. ASSUME NEW s \in Server, NEW b \in Branch, Unfold(s, b) PROVE CpsHold'
  <2>1. PICK F : /\ Save(s, [mem[s] EXCEPT !.folded = @ \ F]) /\ UNCHANGED info
                 /\ LedgerIn([mem[s] EXCEPT !.folded = @ \ F], Entry)
    BY <1>6, UnfoldIs
  <2>2. PICK G : G = mem[s].folded \ F
    OBVIOUS
  <2>3. CpOK(mem[s])'
    BY <1>0, <2>1, <2>2, FoldCp
  <2>4. s \in up'
    BY <1>6 DEF Unfold, Ready, Returned
  <2>5. QED
    BY <2>3, <2>4, OnlyCp
<1>7. CASE UNCHANGED vars
  <2>1. UNCHANGED <<mem, info, disk, up>>
    BY <1>7 DEF vars
  <2>2. \A s \in Server : CpOK(mem[s])'
    BY <1>0, <2>1, IdleCp
  <2>3. ASSUME NEW s \in Server, s \notin up' PROVE CpOK(disk)'
    <3>1. PICK L : L = disk
      OBVIOUS
    <3>2. CpOK(L)'
      BY <1>a, <2>1, <2>3, <3>1, CpStays DEF CpsHold
    <3>3. QED
      BY <2>1, <3>1, <3>2 DEF CpOK, CpOn, History, VerifyTail, Checkpoints
  <2>4. QED
    BY <2>2, <2>3 DEF CpsHold
<1>8. ASSUME NEW s \in Server, NEW saves, NEW owed, Call(s, saves, owed) PROVE CpsHold'
  <2>1. CpOK(mem[s])'
    BY <1>0, <1>8, IdleCp DEF Call
  <2>2. s \in up'
    BY <1>8 DEF Call, Ready
  <2>3. QED
    BY <2>1, <2>2, OnlyCp
<1>9. ASSUME NEW s \in Server, StandardInit(s) \/ \E cutoff \in Entry : PruneAge(s, cutoff)
      PROVE  CpsHold'
  <2>1. Begins(s)
    BY <1>9, InitCallOK, PruneAgeOK
  <2>2. QED
    BY <1>8, <2>1 DEF Begins
<1>10. ASSUME NEW s \in Server, PruneLast(s) PROVE CpsHold'
  BY <1>10 DEF PruneLast
<1>11. QED
  BY <1>a, <1>1, <1>2, <1>3, <1>4, <1>5, <1>6, <1>7, <1>9, <1>10, RunJobCp DEF Next

(* It holds at first.                                                      *)
LEMMA InitCp == Init => CpsHold
BY CpEmpty DEF Init, CpsHold

(* It says that tails are short and checkpoints on their chains.           *)
LEMMA CpsAre == (~trims => CpsHold) => TailBounded /\ CheckpointsOnChain
BY DEF CpsHold, CpOK, CpOn, TailBounded, CheckpointsOnChain

(* A server that has the file to itself: until its first keep-last prune,  *)
(* on a branch that is appended to and not pruned by age, erlVerify walks  *)
(* fewer than CHECKPOINT_INTERVAL entries, however often the server is     *)
(* killed and restarted.  (A keep-last prune moves a tip back behind the   *)
(* last checkpoint of its branch.)                                         *)
THEOREM TailAlwaysBounded == Single => (Spec => []TailBounded)
<1> SUFFICES ASSUME Single PROVE Spec => []TailBounded
  OBVIOUS
<1> DEFINE Inv == SyncInv /\ (~trims => CpsHold)
<1>1. Init => Inv
  BY InitSync, InitCp
<1>2. TypeOK /\ TypeOK' /\ Inv /\ [Next]_vars => Inv'
  BY StepSync, StepCp
<1>3. Inv => TailBounded
  BY CpsAre
<1> HIDE DEF Inv
<1>4. QED
  BY <1>1, <1>2, <1>3, TypeCorrect, PTL DEF Spec

(* ... and, also until then, the checkpoints of such a branch are entries  *)
(* of its chain, so the boundary erlVerify stops at is one it reaches.     *)
THEOREM CheckpointsAlwaysOnChain == Single => (Spec => []CheckpointsOnChain)
<1> SUFFICES ASSUME Single PROVE Spec => []CheckpointsOnChain
  OBVIOUS
<1> DEFINE Inv == SyncInv /\ (~trims => CpsHold)
<1>1. Init => Inv
  BY InitSync, InitCp
<1>2. TypeOK /\ TypeOK' /\ Inv /\ [Next]_vars => Inv'
  BY StepSync, StepCp
<1>3. Inv => CheckpointsOnChain
  BY CpsAre
<1> HIDE DEF Inv
<1>4. QED
  BY <1>1, <1>2, <1>3, TypeCorrect, PTL DEF Spec

-----------------------------------------------------------------------------
(* The boot: what session_context holds.                                   *)

(* What the prunes by age need of the boot: one server, which is not       *)
(* killed, and which takes no call before it has initialised               *)
(* session_context, the branch they are called on.  (What is said of it is *)
(* said until the first keep-last prune.)                                  *)
Booted == Single /\ ~Kills /\ "init" \in Tools /\ "early" \notin Tools /\ PruneBranch = Session

(* The protected entries of a chain, and the saves that append one.        *)
Protected(f, c) == {i \in Range(c) : f[i].prot}

Adds(o) == o.op = "append" /\ o.branch = Session /\ o.prot
Adding(j) == {k \in 1..Len(j) : Adds(j[k])}

(* A set of one element, of two.                                           *)
One(S) == \E x \in S : S = {x}
Two(S) == \E x, y \in S : x # y /\ S = {x, y}

(* The call of erlStandardInit.                                            *)
BootSaves == LET fact == [op |-> "append", branch |-> Session, prot |-> TRUE, copy |-> 0]
             IN  <<[op |-> "branch", name |-> Session, from |-> Main], fact, fact>>

(* A call that only appends: with the entries it still appends, those of   *)
(* session_context that are protected are two.                             *)
Filling(j, P) ==
    /\ \A k \in 1..Len(j) : j[k].op = "append" /\ j[k].branch # Main
    /\ \/ Two(P) /\ Adding(j) = {}
       \/ One(P) /\ One(Adding(j))
       \/ P = {} /\ Two(Adding(j))

(* A prune that has yet to empty session_context: the two follow that.     *)
Resetting(j) ==
    /\ \A k \in 1..Len(j) : \/ j[k].op = "append" /\ j[k].branch # Main
                            \/ k = 1 /\ Empties(j[k], Archive)
                            \/ Empties(j[k], Session)
    /\ Two(Adding(j))
    /\ \E n \in 1..Len(j) : /\ \A k \in 1..Len(j) : Empties(j[k], Session) <=> k = n
                            /\ \A k \in Adding(j) : k > n

(* A ledger between calls.                                                 *)
Fresh(L) == L.tips[Session] = undefined
Filled(L) == L.tips[Session] > 0 /\ Two(Protected(info, History(L, Session)))
PlainMain(L) == Protected(info, History(L, Main)) = {}
Settled(L) == PlainMain(L) /\ (Fresh(L) \/ Filled(L))

(* Where a server is: between the appends of a call or idle, in a prune,   *)
(* not booted, about to boot.                                              *)
Phase(s) ==
    \/ Filling(job[s], Protected(info, History(mem[s], Session)))
    \/ Resetting(job[s])
    \/ Fresh(mem[s]) /\ job[s] = <<>> /\ ~inited[s]
    \/ Fresh(mem[s]) /\ job[s] = BootSaves

(* The invariant of the boot.                                              *)
BootInv == \A s \in Server :
    /\ ~failed[s]
    /\ s \notin up => Settled(disk)
    /\ s \in up => /\ PlainMain(mem[s]) /\ (Fresh(mem[s]) => Fresh(disk))
                   /\ Phase(s)

(* Two elements that differ.                                               *)
LEMMA TwoIs == \A x, y : x # y => Two({x, y})
BY DEF Two

(* One element.                                                            *)
LEMMA OneIs == \A x : One({x})
BY DEF One

(* One more member of a set, one less.                                     *)
LEMMA CountUp ==
    ASSUME NEW S, NEW x, x \notin S
    PROVE  /\ S = {} => One(S \cup {x})
           /\ One(S) => Two(S \cup {x})
<1>1. ASSUME One(S) PROVE Two(S \cup {x})
  <2>1. PICK y \in S : S = {y}
    BY <1>1 DEF One
  <2>2. y # x /\ S \cup {x} = {y, x}
    BY <2>1
  <2>3. QED
    BY <2>2, TwoIs
<1>2. ASSUME S = {} PROVE One(S \cup {x})
  <2>1. S \cup {x} = {x}
    BY <1>2
  <2>2. QED
    BY <2>1, OneIs
<1>3. QED
  BY <1>1, <1>2

(* ... and one less.                                                       *)
LEMMA CountDown ==
    ASSUME NEW S, NEW x \in S
    PROVE  /\ One(S) => S \ {x} = {}
           /\ Two(S) => One(S \ {x})
<1>1. ASSUME Two(S) PROVE One(S \ {x})
  <2>1. PICK y, z \in S : y # z /\ S = {y, z}
    BY <1>1 DEF Two
  <2>2. S \ {x} = {IF x = y THEN z ELSE y}
    BY <2>1
  <2>3. QED
    BY <2>2, OneIs
<1>2. ASSUME One(S) PROVE S \ {x} = {}
  BY <1>2 DEF One
<1>3. QED
  BY <1>1, <1>2

(* A set of numbers moved along.                                           *)
LEMMA CountMoved ==
    ASSUME NEW A \in SUBSET Int, NEW B \in SUBSET Int, NEW n \in Int,
           \A k \in Int : k \in B <=> k + n \in A
    PROVE  /\ A = {} => B = {}
           /\ One(A) => One(B)
           /\ Two(A) => Two(B)
<1>0. \A k \in Int : k - n \in Int /\ (k - n) + n = k
  OBVIOUS
<1>1. ASSUME One(A) PROVE One(B)
  <2>1. PICK x \in A : A = {x}
    BY <1>1 DEF One
  <2>2. \A k : k \in B <=> k = x - n
    <3>1. \A k \in Int : k + n = x <=> k = x - n
      OBVIOUS
    <3>2. \A k \in Int : k \in B <=> k + n = x
      BY <2>1
    <3>3. x - n \in Int /\ (x - n) + n = x
      OBVIOUS
    <3>4. x - n \in B
      BY <2>1, <3>3
    <3>5. \A k \in B : k = x - n
      BY <3>1, <3>2
    <3>6. QED
      BY <3>4, <3>5
  <2>3. QED
    <3>1. PICK y : y = x - n
      OBVIOUS
    <3>2. B = {y}
      BY <2>2, <3>1
    <3>3. QED
      BY <3>2, OneIs
<1>2. ASSUME Two(A) PROVE Two(B)
  <2>1. PICK x, y \in A : x # y /\ A = {x, y}
    BY <1>2 DEF Two
  <2>2. x - n # y - n
    BY <2>1
  <2>3. \A k : k \in B <=> k = x - n \/ k = y - n
    <3>1. \A k \in Int : (k + n = x <=> k = x - n) /\ (k + n = y <=> k = y - n)
      OBVIOUS
    <3>2. \A k \in Int : k \in B <=> (k + n = x \/ k + n = y)
      BY <2>1
    <3>3. x - n \in B /\ y - n \in B
      <4>1. x - n \in Int /\ (x - n) + n = x /\ y - n \in Int /\ (y - n) + n = y
        OBVIOUS
      <4>2. QED
        BY <2>1, <4>1
    <3>4. \A k \in B : k = x - n \/ k = y - n
      BY <3>1, <3>2
    <3>5. QED
      BY <3>3, <3>4
  <2>4. PICK v, w : v = x - n /\ w = y - n
    OBVIOUS
  <2>5. v # w /\ B = {v, w}
    BY <2>2, <2>3, <2>4
  <2>6. QED
    BY <2>5, TwoIs
<1>3. ASSUME A = {} PROVE B = {}
  BY <1>3
<1>4. QED
  BY <1>1, <1>2, <1>3

(* A chain has an entry once: parents are older.                           *)
Once(c) == \A p, q \in 1..Len(c) : c[p] = c[q] => p = q

(* A new entry on top of a chain that has each entry once.                 *)
LEMMA OnceOnTop ==
    ASSUME NEW S, NEW c \in Seq(S), Once(c), NEW x, x \notin S
    PROVE  Once(<<x>> \o c)
<1> DEFINE d == <<x>> \o c
<1>1. Len(d) = Len(c) + 1 /\ d[1] = x /\ Len(c) \in Nat /\ \A k \in 1..Len(c) : d[k + 1] = c[k]
  BY OnTopIs
<1> HIDE DEF d
<1>2. ASSUME NEW p \in 1..Len(d), p # 1 PROVE p - 1 \in 1..Len(c) /\ d[p] = c[p - 1]
  <2>1. p - 1 \in 1..Len(c) /\ (p - 1) + 1 = p
    BY <1>1, <1>2
  <2>2. QED
    BY <1>1, <2>1
<1>3. \A k \in 1..Len(c) : c[k] # x
  OBVIOUS
<1>4. ASSUME NEW p \in 1..Len(d), NEW q \in 1..Len(d), d[p] = d[q] PROVE p = q
  <2>1. CASE p = 1
    BY <1>1, <1>2, <1>3, <1>4, <2>1
  <2>2. CASE q = 1
    BY <1>1, <1>2, <1>3, <1>4, <2>2
  <2>3. CASE p # 1 /\ q # 1
    <3>1. p - 1 = q - 1
      BY <1>2, <1>4, <2>3 DEF Once
    <3>2. QED
      BY <1>1, <3>1
  <2>4. QED
    BY <2>1, <2>2, <2>3
<1>5. QED
  BY <1>4 DEF Once, d

(* A walk meets no entry twice: the least tip from which it would cannot   *)
(* be, as its parent is smaller.                                           *)
LEMMA ChainOnce ==
    ASSUME NEW L, Walkable(L), NEW tip \in Int, tip <= MaxId
    PROVE  Once(ChainFrom(L, tip))
<1> DEFINE Bad == {t \in 0..MaxId : ~Once(ChainFrom(L, t))}
<1>0. Once(<<>>)
  BY DEF Once
<1>1. Bad = {}
  <2>1. SUFFICES ASSUME Bad # {} PROVE FALSE
    OBVIOUS
  <2>2. PICK t \in Bad : \A m \in Bad : t <= m
    <3>1. Bad \in SUBSET Nat
      OBVIOUS
    <3> HIDE DEF Bad
    <3>2. QED
      BY <2>1, <3>1, LeastOf
  <2>3. t \in Int /\ t <= MaxId /\ ~Once(ChainFrom(L, t)) /\ t \in 0..MaxId
    BY ConstantsOK
  <2>4. t \in L.ids /\ ChainFrom(L, t) = <<t>> \o ChainFrom(L, info[t].parent)
    BY <1>0, <2>3, ChainStep
  <2>5. info[t].parent \in 0 .. t - 1
    BY <2>4, ParentsOlder
  <2> DEFINE p == info[t].parent
             G == 1..p
  <2>6. p \in 0..MaxId /\ p < t /\ p \in Int /\ p <= MaxId
    BY <2>3, <2>5, ConstantsOK
  <2>7. Once(ChainFrom(L, p))
    BY <2>2, <2>3, <2>6
  <2>8. p \in L.ids => p \in G
    BY <2>6, ParentsOlder
  <2>9. ASSUME NEW i \in L.ids, i \in G, info[i].parent \in L.ids PROVE info[i].parent \in G
    BY <2>6, <2>9, ParentsOlder
  <2>10. t \notin G
    BY <2>3, <2>6
  <2> HIDE DEF p, G, Bad
  <2>11. ChainFrom(L, p) \in Seq(G)
    BY <2>6, <2>8, <2>9, ChainWithin
  <2>12. Once(<<t>> \o ChainFrom(L, p))
    BY <2>7, <2>10, <2>11, OnceOnTop
  <2>13. QED
    BY <2>3, <2>4, <2>12 DEF p
<1>2. CASE tip \in 0..MaxId
  BY <1>1, <1>2
<1>3. CASE tip \notin 0..MaxId
  <2>1. ~ (tip > 0)
    BY <1>3, ConstantsOK
  <2>2. ChainFrom(L, tip) = <<>>
    BY <2>1 DEF ChainFrom
  <2>3. QED
    BY <1>0, <2>2
<1>4. QED
  BY <1>2, <1>3

(* A selection that takes all elements of Q takes as many of them.         *)
At(seq, Q) == {k \in 1..Len(seq) : seq[k] \in Q}
UpTo(seq, n, Q) == {k \in 1..n : seq[k] \in Q}
AsMany(A, B) == /\ A = {} => B = {}
                /\ One(A) => One(B)
                /\ Two(A) => Two(B)

(* Where Q is, in a sequence with one more element.                        *)
LEMMA AtAppend ==
    ASSUME NEW T, NEW g \in Seq(T), NEW x \in T, NEW Q
    PROVE  /\ At(Append(g, x), Q) = IF x \in Q THEN At(g, Q) \cup {Len(g) + 1} ELSE At(g, Q)
           /\ Len(g) + 1 \notin At(g, Q)
<1> DEFINE h == Append(g, x)
<1>1. /\ Len(h) = Len(g) + 1 /\ h[Len(g) + 1] = x /\ Len(g) \in Nat
      /\ \A k \in 1..Len(g) : h[k] = g[k]
  OBVIOUS
<1>2. \A k : k \in 1..Len(h) <=> k \in 1..Len(g) \/ k = Len(g) + 1
  BY <1>1
<1> HIDE DEF h
<1>3. \A k : k \in At(h, Q) <=> (k \in At(g, Q) \/ (k = Len(g) + 1 /\ x \in Q))
  BY <1>1, <1>2 DEF At
<1>4. Len(g) + 1 \notin At(g, Q)
  BY <1>1 DEF At
<1>5. QED
  BY <1>3, <1>4 DEF h

(* Where Q is, in a prefix with one more element.                          *)
LEMMA UpToStep ==
    ASSUME NEW seq, NEW n \in Nat, n # 0, NEW Q
    PROVE  /\ UpTo(seq, n, Q) = IF seq[n] \in Q THEN UpTo(seq, n - 1, Q) \cup {n}
                                ELSE UpTo(seq, n - 1, Q)
           /\ n \notin UpTo(seq, n - 1, Q)
<1>1. \A k : k \in 1..n <=> k \in 1..(n - 1) \/ k = n
  OBVIOUS
<1>2. n \notin 1..(n - 1)
  OBVIOUS
<1>3. QED
  BY <1>1, <1>2 DEF UpTo

(* One more on either side.                                                *)
LEMMA AsManyStep ==
    ASSUME NEW A, NEW B, AsMany(A, B), NEW x, x \notin A, NEW y, y \notin B
    PROVE  AsMany(A \cup {x}, B \cup {y})
<1>1. (A \cup {x}) \ {x} = A /\ x \in A \cup {x}
  OBVIOUS
<1>2. One(A \cup {x}) => A = {}
  BY <1>1, CountDown
<1>3. Two(A \cup {x}) => One(A)
  BY <1>1, CountDown
<1>4. QED
  BY <1>2, <1>3, CountUp DEF AsMany

(* Prefix by prefix the selection has as many: a prefix where it does not  *)
(* cannot be the shortest.                                                 *)
LEMMA OnlyAsMany ==
    ASSUME NEW T, NEW seq \in Seq(T), NEW S, NEW Q, Q \subseteq S
    PROVE  AsMany(At(seq, Q), At(Only(seq, S), Q))
<1> DEFINE f == CHOOSE g : IsOnly(seq, S, g)
           Bad == {n \in 0..Len(seq) : ~ (/\ f[n] \in Seq(T)
                                          /\ AsMany(UpTo(seq, n, Q), At(f[n], Q)))}
<1>1. IsOnly(seq, S, f)
  BY OnlyExists
<1>2. Only(seq, S) = f[Len(seq)]
  BY DEF Only, IsOnly
<1> HIDE DEF f
<1>3. \A n \in 0..Len(seq) :
         f[n] = IF n = 0 THEN <<>>
                ELSE IF seq[n] \in S THEN Append(f[n - 1], seq[n]) ELSE f[n - 1]
  BY <1>1 DEF IsOnly
<1>4. Len(seq) \in Nat
  OBVIOUS
<1>5. Bad = {}
  <2>1. SUFFICES ASSUME Bad # {} PROVE FALSE
    OBVIOUS
  <2>2. PICK n \in Bad : \A m \in Bad : n <= m
    <3>1. Bad \in SUBSET Nat
      BY <1>4
    <3> HIDE DEF Bad
    <3>2. QED
      BY <2>1, <3>1, LeastOf
  <2>3. n # 0
    <3>1. SUFFICES ASSUME n = 0 PROVE FALSE
      OBVIOUS
    <3>2. f[n] = <<>> /\ f[n] \in Seq(T)
      <4>1. 0 \in 0..Len(seq)
        BY <1>4
      <4>2. f[0] = <<>>
        BY <1>3, <4>1
      <4>3. <<>> \in Seq(T)
        OBVIOUS
      <4>4. QED
        BY <3>1, <4>2, <4>3
    <3>3. At(f[n], Q) = {}
      BY <3>2 DEF At
    <3>4. AsMany(UpTo(seq, n, Q), At(f[n], Q))
      <4>1. ~Two({}) /\ ~One({})
        BY DEF One, Two
      <4>2. UpTo(seq, n, Q) = {}
        BY <3>1 DEF UpTo
      <4>3. QED
        BY <3>3, <4>1, <4>2 DEF AsMany
    <3>5. QED
      BY <2>2, <3>2, <3>4
  <2>4. /\ n \in 0..Len(seq) /\ n - 1 \in 0..Len(seq) /\ n \in Nat /\ n - 1 < n
        /\ n \in 1..Len(seq) /\ n - 1 \in Int
    BY <1>4, <2>2, <2>3
  <2> DEFINE g == f[n - 1]
             x == seq[n]
             A == UpTo(seq, n - 1, Q)
             B == At(g, Q)
  <2>5. g \in Seq(T) /\ AsMany(A, B) /\ x \in T
    <3>1. n - 1 \notin Bad
      BY <2>2, <2>4
    <3>2. QED
      BY <2>4, <3>1
  <2>6. f[n] = IF x \in S THEN Append(g, x) ELSE g
    BY <1>3, <2>3, <2>4
  <2>7. /\ UpTo(seq, n, Q) = IF x \in Q THEN A \cup {n} ELSE A
        /\ n \notin A
    BY <2>3, <2>4, UpToStep
  <2>8. ~ (f[n] \in Seq(T) /\ AsMany(UpTo(seq, n, Q), At(f[n], Q)))
    BY <2>2
  <2> HIDE DEF g, x, Bad
  <2>9. Append(g, x) \in Seq(T)
    BY <2>5
  <2>10. /\ At(Append(g, x), Q) = IF x \in Q THEN B \cup {Len(g) + 1} ELSE B
         /\ Len(g) + 1 \notin B
    BY <2>5, AtAppend
  <2> HIDE DEF A, B
  <2>11. CASE x \in Q
    <3>1. x \in S
      BY <2>11
    <3>2. AsMany(A \cup {n}, B \cup {Len(g) + 1})
      BY <2>5, <2>7, <2>10, AsManyStep
    <3>3. QED
      BY <2>6, <2>7, <2>8, <2>9, <2>10, <2>11, <3>1, <3>2
  <2>12. CASE x \notin Q
    BY <2>5, <2>6, <2>7, <2>8, <2>9, <2>10, <2>12 DEF B
  <2>13. QED
    BY <2>11, <2>12
<1>6. Len(seq) \in 0..Len(seq)
  BY <1>4
<1>7. AsMany(UpTo(seq, Len(seq), Q), At(f[Len(seq)], Q))
  BY <1>5, <1>6
<1>8. UpTo(seq, Len(seq), Q) = At(seq, Q)
  BY DEF UpTo, At
<1>9. QED
  BY <1>2, <1>7, <1>8

(* The saves left, one done.                                               *)
LEMMA AddingTail ==
    ASSUME NEW S, NEW j \in Seq(S), j # <<>>
    PROVE  /\ Adds(j[1]) => /\ Adding(j) # {}
                            /\ One(Adding(j)) => Adding(Tail(j)) = {}
                            /\ Two(Adding(j)) => One(Adding(Tail(j)))
           /\ ~Adds(j[1]) => AsMany(Adding(j), Adding(Tail(j)))
<1> DEFINE r == Tail(j)
           A == Adding(j) \ {1}
           B == Adding(r)
<1>1. /\ Len(r) = Len(j) - 1 /\ Len(j) \in Nat /\ Len(j) >= 1
      /\ \A k \in 1 .. Len(j) - 1 : r[k] = j[k + 1]
  BY TailIs
<1> HIDE DEF r
<1>2. A \in SUBSET Int /\ B \in SUBSET Int
  BY DEF Adding
<1>3. ASSUME NEW k \in Int PROVE k \in B <=> k + 1 \in A
  <2>1. k \in 1..Len(r) <=> k + 1 \in 1..Len(j) /\ k + 1 # 1
    BY <1>1
  <2>2. k \in 1..Len(r) => r[k] = j[k + 1]
    BY <1>1
  <2>3. QED
    BY <2>1, <2>2 DEF Adding
<1> HIDE DEF A, B
<1>4. AsMany(A, B)
  <2>1. PICK n \in Int : n = 1
    OBVIOUS
  <2>2. \A k \in Int : k \in B <=> k + n \in A
    BY <1>3, <2>1
  <2>3. /\ A = {} => B = {}
        /\ One(A) => One(B)
        /\ Two(A) => Two(B)
    BY <1>2, <2>2, CountMoved
  <2>4. QED
    BY <2>3 DEF AsMany
<1>5. 1 \in Adding(j) <=> Adds(j[1])
  BY <1>1 DEF Adding
<1>6. CASE Adds(j[1])
  <2>1. /\ One(Adding(j)) => A = {}
        /\ Two(Adding(j)) => One(A)
    BY <1>5, <1>6, CountDown DEF A
  <2>2. QED
    BY <1>4, <1>5, <1>6, <2>1 DEF AsMany, B, r
<1>7. CASE ~Adds(j[1])
  <2>1. A = Adding(j)
    BY <1>5, <1>7 DEF A
  <2>2. QED
    BY <1>4, <1>7, <2>1 DEF B, r
<1>8. QED
  BY <1>6, <1>7

(* The next append of a call fills session_context as foreseen.            *)
LEMMA FillingTail ==
    ASSUME NEW S, NEW j \in Seq(S), j # <<>>, NEW P, Filling(j, P), NEW Q, NEW x, x \notin P,
           Q = IF Adds(j[1]) THEN P \cup {x} ELSE P
    PROVE  Filling(Tail(j), Q)
<1> DEFINE r == Tail(j)
<1>1. /\ Len(r) = Len(j) - 1 /\ Len(j) \in Nat
      /\ \A k \in 1 .. Len(j) - 1 : r[k] = j[k + 1]
  BY TailIs
<1>2. /\ Adds(j[1]) => /\ Adding(j) # {}
                       /\ One(Adding(j)) => Adding(r) = {}
                       /\ Two(Adding(j)) => One(Adding(r))
      /\ ~Adds(j[1]) => AsMany(Adding(j), Adding(r))
  BY AddingTail
<1> HIDE DEF r
<1>3. ASSUME NEW k \in 1..Len(r) PROVE r[k].op = "append" /\ r[k].branch # Main
  <2>1. k + 1 \in 1..Len(j) /\ r[k] = j[k + 1]
    BY <1>1
  <2>2. QED
    BY <2>1 DEF Filling
<1>4. P = {} => One(P \cup {x})
  BY CountUp
<1>5. One(P) => Two(P \cup {x})
  BY CountUp
<1>6. \/ Two(Q) /\ Adding(r) = {}
      \/ One(Q) /\ One(Adding(r))
      \/ Q = {} /\ Two(Adding(r))
  <2>1. CASE Adds(j[1])
    BY <1>2, <1>4, <1>5, <2>1 DEF Filling
  <2>2. CASE ~Adds(j[1])
    BY <1>2, <2>2 DEF Filling, AsMany
  <2>3. QED
    BY <2>1, <2>2
<1>7. Filling(r, Q)
  BY <1>3, <1>6 DEF Filling
<1>8. QED
  BY <1>7 DEF r

(* The branches are different.                                             *)
LEMMA BranchNames == Session # Main /\ Archive # Main /\ Session # Archive
                     /\ {Session, Main, Archive} \subseteq Branch
BY DEF Session, Main, Archive, Branch

(* The next save of a prune that has yet to empty session_context.         *)
LEMMA ResettingTail ==
    ASSUME NEW S, NEW j \in Seq(S), j # <<>>, Resetting(j)
    PROVE  /\ ~Adds(j[1])
           /\ Empties(j[1], Session) => Filling(Tail(j), {})
           /\ ~Empties(j[1], Session) => Resetting(Tail(j))
<1> DEFINE r == Tail(j)
<1>1. /\ Len(r) = Len(j) - 1 /\ Len(j) \in Nat /\ Len(j) >= 1
      /\ \A k \in 1 .. Len(j) - 1 : r[k] = j[k + 1]
  BY TailIs
<1>a. ~Adds(j[1]) => AsMany(Adding(j), Adding(r))
  BY AddingTail
<1> HIDE DEF r
<1>2. ASSUME NEW k \in 1..Len(r) PROVE k + 1 \in 1..Len(j) /\ r[k] = j[k + 1]
  BY <1>1
<1>3. PICK n \in 1..Len(j) : /\ \A k \in 1..Len(j) : Empties(j[k], Session) <=> k = n
                             /\ \A k \in Adding(j) : k > n
  BY DEF Resetting
<1>4. 1 \notin Adding(j)
  BY <1>1, <1>3
<1>5. ~Adds(j[1])
  BY <1>1, <1>4 DEF Adding
<1>6. Two(Adding(r))
  BY <1>a, <1>5 DEF AsMany, Resetting
<1>7. CASE Empties(j[1], Session)
  <2>1. n = 1
    BY <1>1, <1>3, <1>7
  <2>2. ASSUME NEW k \in 1..Len(r) PROVE r[k].op = "append" /\ r[k].branch # Main
    <3>1. k + 1 \in 1..Len(j) /\ r[k] = j[k + 1] /\ k + 1 # 1
      BY <1>2
    <3>2. ~Empties(j[k + 1], Session)
      BY <1>3, <2>1, <3>1
    <3>3. QED
      BY <3>1, <3>2 DEF Resetting
  <2>3. Filling(r, {})
    BY <1>6, <2>2 DEF Filling
  <2>4. QED
    BY <1>5, <1>7, <2>3 DEF r
<1>8. CASE ~Empties(j[1], Session)
  <2>1. n # 1
    BY <1>3, <1>8
  <2>2. n - 1 \in 1..Len(r)
    BY <1>1, <2>1
  <2>3. ASSUME NEW k \in 1..Len(r) PROVE Empties(r[k], Session) <=> k = n - 1
    <3>1. k + 1 \in 1..Len(j) /\ r[k] = j[k + 1] /\ (k + 1 = n <=> k = n - 1)
      BY <1>2
    <3>2. QED
      BY <1>3, <3>1
  <2>4. ASSUME NEW k \in Adding(r) PROVE k > n - 1
    <3>1. k \in 1..Len(r) /\ Adds(r[k])
      BY <2>4 DEF Adding
    <3>2. k + 1 \in Adding(j)
      BY <1>2, <3>1 DEF Adding
    <3>3. k + 1 > n
      BY <1>3, <3>2
    <3>4. QED
      BY <3>1, <3>3
  <2>5. ASSUME NEW k \in 1..Len(r)
        PROVE  \/ r[k].op = "append" /\ r[k].branch # Main
               \/ k = 1 /\ Empties(r[k], Archive)
               \/ Empties(r[k], Session)
    <3>1. k + 1 \in 1..Len(j) /\ r[k] = j[k + 1] /\ k + 1 # 1
      BY <1>2
    <3>2. QED
      BY <3>1 DEF Resetting
  <2>6. Resetting(r)
    BY <1>6, <2>2, <2>3, <2>4, <2>5 DEF Resetting
  <2>7. QED
    BY <1>5, <1>8, <2>6 DEF r
<1>9. QED
  BY <1>7, <1>8

-----------------------------------------------------------------------------
(* What a save does to what session_context holds.                         *)

(* The protected entries of a chain, after a step.                         *)
LEMMA ProtectedStays ==
    ASSUME EntriesStay, NEW c \in Seq(Entry)
    PROVE  Protected(info', c) = Protected(info, c)
<1>1. \A i \in Range(c) : i \in Entry
  BY DEF Range
<1>2. QED
  BY <1>1 DEF Protected, EntriesStay

(* ... and of a chain with the new entry on top.                           *)
LEMMA ProtectedOnTop ==
    ASSUME TypeOK, NEW e \in Info, info' = Append(info, e), NEW c \in Seq(Entry)
    PROVE  /\ Protected(info', <<NewId>> \o c) =
                IF e.prot THEN Protected(info, c) \cup {NewId} ELSE Protected(info, c)
           /\ NewId \notin Protected(info, c)
<1>1. /\ NewId \notin Entry /\ info'[NewId] = e /\ EntriesStay
  BY NewInfo
<1>2. Range(<<NewId>> \o c) = {NewId} \cup Range(c)
  BY OnTopIs
<1>3. \A i \in Range(c) : i \in Entry
  BY DEF Range
<1>4. Protected(info', c) = Protected(info, c)
  BY <1>1, ProtectedStays
<1>5. QED
  BY <1>1, <1>2, <1>3, <1>4 DEF Protected

(* The empty chain has none.                                               *)
LEMMA NothingProtected == \A f : Protected(f, <<>>) = {}
BY DEF Protected, Range

(* Histories are sequences of entries.                                     *)
LEMMA HistoryIn ==
    ASSUME TypeOK, NEW s \in Server, NEW b \in Branch
    PROVE  History(mem[s], b) \in Seq(Entry)
<1>1. \A c \in Seq(mem[s].ids) : mem[s].ids \subseteq Entry => c \in Seq(Entry)
  OBVIOUS
<1>2. QED
  BY <1>1, HistoryOK

(* What holds throughout a call: main has no protected entry, and while    *)
(* memory has no session_context the file has none.                        *)
Steady(s) == PlainMain(mem[s]) /\ (Fresh(mem[s]) => Fresh(disk))
Holds(s) == Protected(info, History(mem[s], Session))

(* A save makes no session_context in the file that memory does not have.  *)
LEMMA FreshSave ==
    ASSUME TypeOK, NEW s \in Server, NEW L, Save(s, L), Fresh(mem[s]) => Fresh(disk),
           Fresh(L) => Fresh(mem[s])
    PROVE  mem'[s] = L /\ (Fresh(mem[s])' => Fresh(disk)')
<1>1. mem'[s] = L
  BY TypesAre DEF Save
<1>2. ~ (undefined > 0)
  BY DEF undefined
<1>3. CASE exists
  <2>1. disk'.tips[Session] = IF L.tips[Session] > 0 THEN L.tips[Session] ELSE disk.tips[Session]
    BY <1>3, BranchNames DEF Save, Merged
  <2>2. QED
    BY <1>1, <1>2, <2>1 DEF Fresh
<1>4. CASE ~exists
  BY <1>1, <1>4 DEF Save, Fresh
<1>5. QED
  BY <1>3, <1>4

(* An append: what session_context holds grows by a protected entry, or    *)
(* stays.                                                                  *)
LEMMA AppendBoot ==
    ASSUME TypeOK, TypeOK', NEW s \in Server, Steady(s), NEW b \in Branch,
           NEW prot \in BOOLEAN, NEW form \in {"plain", "folded"}, NEW payload \in 1..MaxId,
           AppendEntry(s, b, prot, form, payload), b = Main => ~prot
    PROVE  /\ Steady(s)'
           /\ Fresh(mem[s])' => Fresh(mem[s]) /\ b # Session
           /\ Holds(s)' = IF b = Session /\ prot THEN Holds(s) \cup {NewId} ELSE Holds(s)
           /\ NewId \notin Holds(s)
<1> DEFINE e == [parent |-> ParentIn(mem[s], b), form |-> form, prot |-> prot,
                 payload |-> payload]
<1>1. Puts(s, b, e) /\ e.prot = prot
  BY PutsIs
<1> HIDE DEF e
<1>2. /\ History(mem[s], b)' = <<NewId>> \o History(mem[s], b)
      /\ \A c \in Branch : c # b => History(mem[s], c)' = History(mem[s], c)
  BY <1>1, PutsHistory
<1>3. e \in Info /\ info' = Append(info, e) /\ mem'[s].tips = [mem[s].tips EXCEPT ![b] = NewId]
  BY <1>1 DEF Puts
<1>4. EntriesStay
  BY <1>3, NewInfo
<1>5. ASSUME NEW c \in Branch
      PROVE  /\ Protected(info', History(mem[s], c)') =
                  IF c = b /\ prot THEN Protected(info, History(mem[s], c)) \cup {NewId}
                  ELSE Protected(info, History(mem[s], c))
             /\ NewId \notin Protected(info, History(mem[s], c))
  <2>1. History(mem[s], c) \in Seq(Entry)
    BY HistoryIn
  <2>2. /\ NewId \notin Protected(info, History(mem[s], c))
        /\ Protected(info', <<NewId>> \o History(mem[s], c)) =
             IF prot THEN Protected(info, History(mem[s], c)) \cup {NewId}
             ELSE Protected(info, History(mem[s], c))
    BY <1>1, <1>3, <2>1, ProtectedOnTop
  <2>3. Protected(info', History(mem[s], c)) = Protected(info, History(mem[s], c))
    BY <1>4, <2>1, ProtectedStays
  <2>4. QED
    BY <1>2, <2>2, <2>3
<1>6. mem[s].tips \in [Branch -> {undefined, null} \cup Entry] /\ NewId # undefined
  BY TypesAre DEF LedgerIn, NewId, undefined
<1>7. mem'[s].tips[Session] = IF b = Session THEN NewId ELSE mem[s].tips[Session]
  BY <1>3, <1>6, BranchNames
<1>8. Fresh(mem[s])' => Fresh(mem[s]) /\ b # Session
  BY <1>6, <1>7 DEF Fresh
<1>9. PICK L : Grown(s, b, L)
  BY AppendSaves
<1>10. Fresh(L) => Fresh(mem[s])
  BY <1>8, <1>9 DEF Grown, Fresh
<1>11. Fresh(mem[s])' => Fresh(disk)'
  BY <1>9, <1>10, FreshSave DEF Grown, Steady
<1>12. PlainMain(mem[s])'
  <2>1. Protected(info', History(mem[s], Main)') = {}
    BY <1>5, BranchNames DEF Steady, PlainMain
  <2>2. QED
    BY <2>1 DEF PlainMain
<1>13. /\ Holds(s)' = IF b = Session /\ prot THEN Holds(s) \cup {NewId} ELSE Holds(s)
       /\ NewId \notin Holds(s)
  BY <1>5, BranchNames DEF Holds
<1>14. QED
  BY <1>8, <1>11, <1>12, <1>13 DEF Steady

(* A save that makes no entry.                                             *)
LEMMA KeepsBoot ==
    ASSUME TypeOK, TypeOK', NEW s \in Server, Steady(s), NEW L, Keeps(s, L),
           L.tips[Main] = mem[s].tips[Main], Fresh(L) => Fresh(mem[s])
    PROVE  /\ Steady(s)' /\ mem'[s] = L
           /\ L.tips[Session] = mem[s].tips[Session] => Holds(s)' = Holds(s)
           /\ \A b \in Branch : L.tips[Session] = mem[s].tips[b] =>
                 Holds(s)' = Protected(info, History(mem[s], b))
           /\ L.tips[Session] <= 0 => Holds(s)' = {}
<1>1. /\ \A c, d \in Branch :
            L.tips[c] = mem[s].tips[d] => History(mem[s], c)' = History(mem[s], d)
      /\ \A c \in Branch : L.tips[c] <= 0 => History(mem[s], c)' = <<>>
  BY KeepsHistory
<1>2. UNCHANGED info
  BY DEF Keeps
<1>3. History(mem[s], Main)' = History(mem[s], Main)
  BY <1>1, BranchNames
<1>4. PlainMain(mem[s])'
  BY <1>2, <1>3 DEF PlainMain, Steady
<1>5. mem'[s] = L /\ (Fresh(mem[s])' => Fresh(disk)')
  BY FreshSave DEF Keeps, Steady
<1>6. ASSUME NEW b \in Branch, L.tips[Session] = mem[s].tips[b]
      PROVE  Holds(s)' = Protected(info, History(mem[s], b))
  <2>1. History(mem[s], Session)' = History(mem[s], b)
    BY <1>1, <1>6, BranchNames
  <2>2. QED
    BY <1>2, <2>1 DEF Holds
<1>7. ASSUME L.tips[Session] <= 0 PROVE Holds(s)' = {}
  <2>1. History(mem[s], Session)' = <<>>
    BY <1>1, <1>7, BranchNames
  <2>2. QED
    BY <2>1, NothingProtected DEF Holds
<1>8. QED
  BY <1>4, <1>5, <1>6, <1>7, BranchNames DEF Steady, Holds

(* Only the server of the step matters.                                    *)
LEMMA OnlyBoot ==
    ASSUME Single, NEW s \in Server, s \in up', ~failed'[s], Steady(s)', Phase(s)'
    PROVE  BootInv'
<1>1. \A t \in Server : t = s
  BY DEF Single
<1>2. ASSUME NEW t \in Server
      PROVE  ~failed'[t] /\ t \in up' /\ Steady(t)' /\ Phase(t)'
  <2>1. t = s
    BY <1>1
  <2>2. QED
    BY <2>1 DEF Steady, Phase, PlainMain, Fresh
<1>3. QED
  BY <1>2 DEF BootInv, Steady

(* Between calls: session_context is filled, or it is not there yet.       *)
LEMMA NothingAdding == Adding(<<>>) = {} /\ ~One({}) /\ ~Two({})
BY DEF Adding, One, Two

(* A server with nothing left to append has its two.                       *)
LEMMA FillingIdle == \A P : Filling(<<>>, P) <=> Two(P)
<1>1. \A k \in 1..Len(<<>>) : FALSE
  OBVIOUS
<1>2. QED
  BY <1>1, NothingAdding DEF Filling

(* ... so a call finds session_context with its two protected entries, or  *)
(* not there yet in a server that has not booted.                          *)
LEMMA ReadyPhase ==
    ASSUME TypeOK, NEW s \in Server, BootInv, s \in up, job[s] = <<>>
    PROVE  \/ Two(Holds(s)) /\ mem[s].tips[Session] > 0 /\ ~Fresh(mem[s])
           \/ Fresh(mem[s]) /\ ~inited[s]
<1>1. Phase(s)
  BY DEF BootInv
<1>2. BootSaves # <<>>
  BY DEF BootSaves
<1>3. ~Resetting(<<>>)
  <2>1. Adding(<<>>) = {} /\ ~Two({})
    BY NothingAdding
  <2>2. QED
    BY <2>1 DEF Resetting
<1>4. CASE Filling(<<>>, Holds(s))
  <2>1. Two(Holds(s))
    BY <1>4, FillingIdle
  <2>2. ~ (mem[s].tips[Session] > 0) => History(mem[s], Session) = <<>>
    BY DEF History, ChainFrom
  <2>3. mem[s].tips[Session] > 0
    BY <2>1, <2>2, NothingProtected, NothingAdding DEF Holds
  <2>4. QED
    BY <2>1, <2>3 DEF Fresh, undefined
<1>5. QED
  BY <1>1, <1>2, <1>3, <1>4 DEF Phase, Holds

(* A step after which a server is idle and session_context has its two.    *)
LEMMA FilledPhase ==
    ASSUME NEW s \in Server, job'[s] = <<>>, Two(Holds(s)')
    PROVE  Phase(s)'
<1>1. Filling(job'[s], Holds(s)')
  BY FillingIdle
<1>2. QED
  BY <1>1 DEF Phase, Holds

(* Where the protected entries of a chain are.                             *)
TheProtected == {i \in Entry : info[i].prot}

(* A chain with two protected entries has them in two places.              *)
LEMMA ProtectedAt ==
    ASSUME NEW c \in Seq(Entry), Once(c), Two(Protected(info, c))
    PROVE  Two(At(c, TheProtected))
<1>0. DOMAIN c = 1..Len(c)
  OBVIOUS
<1>1. PICK x, y \in Protected(info, c) : x # y /\ Protected(info, c) = {x, y}
  BY DEF Two
<1>2. PICK p, q \in 1..Len(c) : c[p] = x /\ c[q] = y
  <2>1. x \in Range(c) /\ y \in Range(c)
    BY DEF Protected
  <2>2. QED
    BY <1>0, <2>1 DEF Range
<1>3. p # q
  BY <1>1, <1>2
<1>4. ASSUME NEW k \in 1..Len(c) PROVE c[k] \in TheProtected <=> k = p \/ k = q
  <2>1. c[k] \in Entry /\ c[k] \in Range(c)
    BY <1>0 DEF Range
  <2>2. c[k] \in TheProtected <=> c[k] \in Protected(info, c)
    BY <2>1 DEF TheProtected, Protected
  <2>3. c[k] \in Protected(info, c) <=> c[k] = x \/ c[k] = y
    BY <1>1
  <2>4. (c[k] = x => k = p) /\ (c[k] = y => k = q)
    BY <1>2 DEF Once
  <2>5. QED
    BY <1>2, <2>2, <2>3, <2>4
<1>5. At(c, TheProtected) = {p, q}
  BY <1>4 DEF At
<1>6. QED
  BY <1>3, <1>5, TwoIs

(* The saves that copy entries, field by field.                            *)
LEMMA CopyFields ==
    ASSUME NEW b, NEW ids \in Seq(Entry)
    PROVE  /\ Len(Copies(b, ids)) = Len(ids)
           /\ \A k \in 1..Len(ids) : /\ Copies(b, ids)[k].op = "append"
                                      /\ Copies(b, ids)[k].branch = b
                                      /\ Copies(b, ids)[k].prot = info[ids[k]].prot
<1>1. Len(Copies(b, ids)) = Len(ids)
  BY CopyAt
<1>2. \A k \in 1..Len(ids) : /\ Copies(b, ids)[k].op = "append"
                             /\ Copies(b, ids)[k].branch = b
                             /\ Copies(b, ids)[k].prot = info[ids[k]].prot
  BY DEF Copies
<1>3. QED
  BY <1>1, <1>2

(* The saves of a prune by age that append a protected entry again.        *)
LEMMA RebuildAdds ==
    ASSUME NEW keep \in Seq(Entry), Two(At(keep, TheProtected))
    PROVE  Two(Adding(Copies(Session, RebuildOrder(keep))))
<1> DEFINE back == Reverse(keep)
           r == Copies(Session, back)
           n == Len(keep)
<1>1. /\ Len(back) = n /\ back \in Seq(Entry) /\ n \in Nat
      /\ \A k \in 1..n : back[k] = keep[n + 1 - k]
  BY ReverseAt
<1> HIDE DEF back
<1>2. /\ Len(r) = n
      /\ \A k \in 1..n : /\ r[k].op = "append" /\ r[k].branch = Session
                         /\ r[k].prot = info[back[k]].prot
  BY <1>1, CopyFields
<1> HIDE DEF r
<1>3. ASSUME NEW k \in 1..n PROVE Adds(r[k]) <=> keep[n + 1 - k] \in TheProtected
  <2>1. n + 1 - k \in 1..n
    BY <1>1
  <2>2. keep[n + 1 - k] \in Entry
    BY <2>1
  <2>3. Adds(r[k]) <=> info[back[k]].prot
    <3>1. /\ r[k].op = "append" /\ r[k].branch = Session
          /\ r[k].prot = info[back[k]].prot
      BY <1>2
    <3>2. QED
      BY <3>1, Zenon DEF Adds
  <2>4. QED
    BY <1>1, <2>2, <2>3 DEF TheProtected
<1>4. PICK p, q \in At(keep, TheProtected) : p # q /\ At(keep, TheProtected) = {p, q}
  BY DEF Two
<1>5. p \in 1..n /\ q \in 1..n
  BY <1>4 DEF At
<1>6. PICK v, w : v = n + 1 - p /\ w = n + 1 - q
  OBVIOUS
<1>7. v # w /\ v \in 1..n /\ w \in 1..n
  BY <1>1, <1>4, <1>5, <1>6
<1>8. ASSUME NEW k \in 1..n PROVE Adds(r[k]) <=> k = v \/ k = w
  <2>1. n + 1 - k \in 1..n
    BY <1>1
  <2>2. Adds(r[k]) <=> n + 1 - k \in At(keep, TheProtected)
    BY <1>3, <2>1 DEF At
  <2>3. Adds(r[k]) <=> (n + 1 - k = p \/ n + 1 - k = q)
    BY <1>4, <2>2
  <2>4. (n + 1 - k = p <=> k = v) /\ (n + 1 - k = q <=> k = w)
    BY <1>1, <1>5, <1>6
  <2>5. QED
    BY <2>3, <2>4
<1>9. Adding(r) = {v, w}
  BY <1>2, <1>7, <1>8 DEF Adding
<1>10. Two(Adding(r))
  BY <1>7, <1>9, TwoIs
<1>11. QED
  BY <1>10 DEF r, back, RebuildOrder

(* The prune by age keeps all protected entries, so its saves append two   *)
(* after the one that empties the branch.                                  *)
LEMMA PruneAgeBoot ==
    ASSUME Booted, TypeOK, TypeOK', BootInv, NEW s \in Server, NEW cutoff \in Entry,
           PruneAge(s, cutoff)
    PROVE  Resetting(job'[s])
<1> DEFINE history == History(mem[s], Session)
           keep    == Only(history, Entry \ Old(cutoff))
           archive == Only(history, Old(cutoff))
           open    == IF mem[s].tips[Archive] = undefined
                      THEN <<[op |-> "null", name |-> Archive]>> ELSE <<>>
           empty   == <<[op |-> "null", name |-> Session]>>
           moved   == Copies(Archive, Reverse(archive))
           rebuilt == Copies(Session, RebuildOrder(keep))
           saves   == open \o moved \o empty \o rebuilt
<1>1. job' = [job EXCEPT ![s] = saves] /\ Ready(s) /\ archive # <<>>
  BY DEF PruneAge, Call, Booted
<1>2. job'[s] = saves
  BY <1>1, TypeParts DEF Calls
<1>3. history \in Seq(Entry) /\ Once(history)
  <2>1. history \in Seq(Entry)
    BY HistoryIn, BranchNames
  <2>2. LedgerIn(mem[s], Entry) /\ Walkable(mem[s])
    BY TypesAre, Walkables
  <2>3. mem[s].tips[Session] \in {undefined, null} \cup Entry
    BY <2>2, BranchNames DEF LedgerIn
  <2>4. mem[s].tips[Session] \in Int /\ mem[s].tips[Session] <= MaxId
    <3>1. PICK tip \in {undefined, null} \cup Entry : tip = mem[s].tips[Session]
      BY <2>3
    <3>2. tip \in Int /\ tip <= Len(info) /\ Len(info) \in 0..MaxId
      BY TipsAre
    <3>3. tip <= MaxId
      BY <3>2, ConstantsOK
    <3>4. QED
      BY <3>1, <3>2, <3>3
  <2>5. QED
    BY <2>1, <2>2, <2>4, ChainOnce DEF History
<1>4. Two(Protected(info, history))
  <2>1. CASE Fresh(mem[s])
    <3>1. history = <<>>
      BY <2>1 DEF Fresh, History, ChainFrom, undefined
    <3>2. archive \in Seq({} \cap Old(cutoff))
      <4>1. <<>> \in Seq({})
        OBVIOUS
      <4>2. QED
        BY <3>1, <4>1, OnlyOK
    <3> HIDE DEF archive
    <3>3. archive = <<>>
      BY <3>2
    <3>4. QED
      BY <1>1, <3>3
  <2>2. CASE ~Fresh(mem[s])
    BY <1>1, <2>2, ReadyPhase DEF Ready, Holds
  <2>3. QED
    BY <2>1, <2>2
<1> HIDE DEF history
<1>5. keep \in Seq(Entry) /\ archive \in Seq(Entry)
  BY <1>3, OnlyIn
<1>6. Two(At(keep, TheProtected))
  <2>1. Two(At(history, TheProtected))
    BY <1>3, <1>4, ProtectedAt
  <2>2. PICK S : S = Entry \ Old(cutoff)
    OBVIOUS
  <2>3. TheProtected \subseteq S
    BY <2>2 DEF TheProtected, Old, Prunable
  <2>4. AsMany(At(history, TheProtected), At(Only(history, S), TheProtected))
    BY <1>3, <2>3, OnlyAsMany
  <2>5. QED
    BY <2>1, <2>2, <2>4 DEF AsMany
<1>7. /\ open \in Seq(SaveStep) /\ empty \in Seq(SaveStep) /\ Len(empty) = 1
      /\ Empties(empty[1], Session)
      /\ Len(open) = 0 \/ (Len(open) = 1 /\ Empties(open[1], Archive))
  BY BranchNames, StepOK DEF Empties
<1> HIDE DEF keep, archive, open, empty
<1>8. /\ rebuilt \in Seq(SaveStep) /\ Two(Adding(rebuilt))
      /\ \A k \in 1..Len(rebuilt) : rebuilt[k].op = "append" /\ rebuilt[k].branch = Session
  <2>1. RebuildOrder(keep) \in Seq(Entry)
    BY <1>5, ReverseOK DEF RebuildOrder
  <2>2. PICK ids \in Seq(Entry) : ids = RebuildOrder(keep)
    BY <2>1
  <2>3. /\ Len(Copies(Session, ids)) = Len(ids)
        /\ \A k \in 1..Len(ids) : Copies(Session, ids)[k].op = "append"
                                  /\ Copies(Session, ids)[k].branch = Session
    BY CopyFields
  <2>4. QED
    BY <1>5, <1>6, <2>2, <2>3, CopiesOK, RebuildAdds, BranchNames
<1>9. /\ moved \in Seq(SaveStep)
      /\ \A k \in 1..Len(moved) : moved[k].op = "append" /\ moved[k].branch = Archive
  <2>1. PICK ids \in Seq(Entry) : ids = Reverse(archive)
    BY <1>5, ReverseOK
  <2>2. /\ Len(Copies(Archive, ids)) = Len(ids)
        /\ \A k \in 1..Len(ids) : Copies(Archive, ids)[k].op = "append"
                                  /\ Copies(Archive, ids)[k].branch = Archive
    BY CopyFields
  <2>3. QED
    BY <2>1, <2>2, CopiesOK, BranchNames
<1> HIDE DEF moved, rebuilt
<1> DEFINE first == open \o moved
           most == first \o empty
           all == most \o rebuilt
           n == Len(first) + 1
<1>10. /\ first \in Seq(SaveStep) /\ Len(first) \in Nat
       /\ \A k \in 1..Len(first) :
             \/ first[k].op = "append" /\ first[k].branch = Archive
             \/ k = 1 /\ Empties(first[k], Archive)
  <2>1. /\ first \in Seq(SaveStep) /\ Len(first) = Len(open) + Len(moved)
        /\ Len(open) \in Nat /\ Len(moved) \in Nat
        /\ \A k \in 1..Len(open) : first[k] = open[k]
        /\ \A k \in 1..Len(moved) : first[Len(open) + k] = moved[k]
    BY <1>7, <1>9, CatAt
  <2> HIDE DEF first
  <2>2. ASSUME NEW k \in 1..Len(first)
        PROVE  \/ first[k].op = "append" /\ first[k].branch = Archive
               \/ k = 1 /\ Empties(first[k], Archive)
    <3>1. CASE k \in 1..Len(open)
      <4>1. k = 1 /\ first[k] = open[1]
        BY <1>7, <2>1, <3>1
      <4>2. QED
        BY <1>7, <3>1, <4>1
    <3>2. CASE k \notin 1..Len(open)
      <4>1. k - Len(open) \in 1..Len(moved) /\ Len(open) + (k - Len(open)) = k
        BY <2>1, <3>2
      <4>2. first[k] = moved[k - Len(open)]
        BY <2>1, <4>1
      <4>3. QED
        BY <1>9, <4>1, <4>2
    <3>3. QED
      BY <3>1, <3>2
  <2>3. QED
    BY <2>1, <2>2
<1> HIDE DEF first
<1>11. /\ most \in Seq(SaveStep) /\ Len(most) = n
       /\ \A k \in 1..Len(first) : most[k] = first[k]
       /\ most[n] = empty[1]
  <2>1. /\ most \in Seq(SaveStep) /\ Len(most) = Len(first) + Len(empty)
        /\ \A k \in 1..Len(first) : most[k] = first[k]
        /\ \A k \in 1..Len(empty) : most[Len(first) + k] = empty[k]
    BY <1>7, <1>10, CatAt
  <2> HIDE DEF most
  <2>2. 1 \in 1..Len(empty)
    BY <1>7
  <2>3. most[Len(first) + 1] = empty[1]
    BY <2>1, <2>2
  <2>4. QED
    BY <1>7, <2>1, <2>3
<1> HIDE DEF most
<1>12. /\ all \in Seq(SaveStep) /\ Len(all) = n + Len(rebuilt) /\ Len(rebuilt) \in Nat
       /\ \A k \in 1..n : all[k] = most[k]
       /\ \A k \in 1..Len(rebuilt) : all[n + k] = rebuilt[k]
  <2>1. /\ all \in Seq(SaveStep) /\ Len(all) = Len(most) + Len(rebuilt)
        /\ Len(rebuilt) \in Nat
        /\ \A k \in 1..Len(most) : all[k] = most[k]
        /\ \A k \in 1..Len(rebuilt) : all[Len(most) + k] = rebuilt[k]
    <3>1. most \in Seq(SaveStep) /\ rebuilt \in Seq(SaveStep)
      BY <1>8, <1>11
    <3>2. QED
      BY <3>1, CatAt
  <2> HIDE DEF all, n
  <2>2. QED
    BY <1>11, <2>1
<1> HIDE DEF all
<1>13. n \in Nat /\ n >= 1 /\ n \in 1..Len(all)
  BY <1>10, <1>12
<1>14. ASSUME NEW k \in 1..Len(all)
       PROVE  \/ k < n /\ k \in 1..Len(first) /\ all[k] = first[k]
              \/ k = n /\ Empties(all[k], Session)
              \/ k > n /\ k - n \in 1..Len(rebuilt) /\ all[k] = rebuilt[k - n]
  <2>1. CASE k < n
    <3>1. k \in 1..Len(first) /\ k \in 1..n
      BY <1>10, <2>1
    <3>2. QED
      BY <1>11, <1>12, <2>1, <3>1
  <2>2. CASE k = n
    <3>1. all[k] = empty[1]
      BY <1>11, <1>12, <1>13, <2>2
    <3>2. QED
      BY <1>7, <2>2, <3>1
  <2>3. CASE k > n
    <3>1. k - n \in 1..Len(rebuilt) /\ n + (k - n) = k
      BY <1>12, <1>13, <2>3
    <3>2. QED
      BY <1>12, <2>3, <3>1
  <2>4. QED
    BY <1>13, <2>1, <2>2, <2>3
<1>15. \A o : /\ Empties(o, Session) => o.op = "null" /\ o.name = Session
              /\ Empties(o, Archive) => o.op = "null" /\ o.name = Archive
              /\ Adds(o) => o.op = "append" /\ o.branch = Session
  BY DEF Empties, Adds
<1>16. ASSUME NEW k \in 1..Len(all) PROVE Empties(all[k], Session) <=> k = n
  <2>1. CASE k < n
    BY <1>10, <1>13, <1>14, <1>15, <2>1, BranchNames
  <2>2. CASE k > n
    BY <1>8, <1>13, <1>14, <1>15, <2>2
  <2>3. CASE k = n
    BY <1>13, <1>14, <2>3
  <2>4. QED
    BY <1>13, <2>1, <2>2, <2>3
<1>17. ASSUME NEW k \in 1..Len(all) PROVE Adds(all[k]) <=> k > n /\ Adds(rebuilt[k - n])
  <2>1. CASE k < n
    BY <1>10, <1>13, <1>14, <1>15, <2>1, BranchNames
  <2>2. CASE k > n
    BY <1>13, <1>14, <2>2
  <2>3. CASE k = n
    BY <1>13, <1>14, <1>15, <2>3
  <2>4. QED
    BY <1>13, <2>1, <2>2, <2>3
<1>18. ASSUME NEW k \in 1..Len(all)
       PROVE  \/ all[k].op = "append" /\ all[k].branch # Main
              \/ k = 1 /\ Empties(all[k], Archive)
              \/ Empties(all[k], Session)
  BY <1>8, <1>10, <1>14, BranchNames
<1>19. Two(Adding(all))
  <2>1. PICK m \in Int : m = -n
    BY <1>13
  <2>2. Adding(all) \in SUBSET Int /\ Adding(rebuilt) \in SUBSET Int
    BY DEF Adding
  <2>3. ASSUME NEW k \in Int PROVE k \in Adding(all) <=> k + m \in Adding(rebuilt)
    <3>1. k + m = k - n
      BY <1>13, <2>1
    <3>2. k \in 1..Len(all) /\ k > n <=> k - n \in 1..Len(rebuilt)
      BY <1>12, <1>13
    <3>3. k \in Adding(all) <=> k \in 1..Len(all) /\ k > n /\ Adds(rebuilt[k - n])
      BY <1>17 DEF Adding
    <3>4. QED
      BY <3>1, <3>2, <3>3 DEF Adding
  <2>4. QED
    BY <1>8, <2>1, <2>2, <2>3, CountMoved
<1>20. \A k \in Adding(all) : k > n
  BY <1>17 DEF Adding
<1>21. Resetting(all)
  BY <1>13, <1>16, <1>18, <1>19, <1>20 DEF Resetting
<1>22. saves = all
  BY DEF all, most, first
<1>23. QED
  BY <1>2, <1>21, <1>22

-----------------------------------------------------------------------------
(* Every step keeps the invariant of the boot.                             *)

(* The saves of the boot.                                                  *)
LEMMA BootSavesAre ==
    /\ BootSaves \in Seq(SaveStep) /\ BootSaves # <<>> /\ Head(BootSaves).op = "branch"
    /\ Head(BootSaves).name = Session /\ Head(BootSaves).from = Main
    /\ Filling(Tail(BootSaves), {})
<1> DEFINE fact == [op |-> "append", branch |-> Session, prot |-> TRUE, copy |-> 0]
           open == [op |-> "branch", name |-> Session, from |-> Main]
<1>1. fact \in SaveStep /\ open \in SaveStep
  BY StepOK, BranchNames
<1>2. /\ fact.op = "append" /\ fact.branch = Session /\ Adds(fact)
      /\ open.op = "branch" /\ open.name = Session /\ open.from = Main
  BY DEF Adds
<1>3. BootSaves = <<open, fact, fact>>
  BY DEF BootSaves
<1> HIDE DEF fact, open
<1>4. Tail(BootSaves) = <<fact, fact>> /\ Head(BootSaves) = open
  BY <1>1, <1>3
<1>5. Adding(<<fact, fact>>) = {1, 2}
  BY <1>2 DEF Adding
<1>6. Two({1, 2})
  <2>1. PICK x, y : x = 1 /\ y = 2
    OBVIOUS
  <2>2. x # y
    BY <2>1
  <2>3. QED
    BY <2>1, <2>2, TwoIs
<1>7. Filling(<<fact, fact>>, {})
  BY <1>2, <1>5, <1>6, BranchNames DEF Filling
<1>8. QED
  BY <1>1, <1>2, <1>3, <1>4, <1>7

(* What the invariant says of a server that runs.                          *)
LEMMA UpBoot ==
    ASSUME BootInv, NEW s \in Server, s \in up
    PROVE  ~failed[s] /\ Steady(s) /\ Phase(s)
BY DEF BootInv, Steady

(* A step that leaves the ledgers alone.                                   *)
LEMMA IdleBoot ==
    ASSUME UNCHANGED <<info, mem, disk>>, NEW s \in Server, Steady(s)
    PROVE  Steady(s)' /\ Holds(s)' = Holds(s) /\ (Fresh(mem[s]) => Fresh(mem[s])')
<1>1. \A b : History(mem[s], b)' = History(mem[s], b)
  BY DEF History, ChainFrom
<1>2. QED
  BY <1>1 DEF Steady, PlainMain, Fresh, Holds

(* The bootstrap: nothing to do, or the three saves of BootSaves.          *)
LEMMA InitCallBoot ==
    ASSUME Booted, TypeOK, TypeOK', BootInv, NEW s \in Server, StandardInit(s)
    PROVE  BootInv'
<1> DEFINE saves == IF mem[s].tips[Session] > 0 THEN <<>> ELSE BootSaves
<1>1. Call(s, saves, NoPromise)
  BY DEF StandardInit, BootSaves
<1>2. /\ UNCHANGED <<info, mem, disk, up>> /\ s \in up /\ job[s] = <<>>
      /\ job' = [job EXCEPT ![s] = saves] /\ failed' = [failed EXCEPT ![s] = FALSE]
  BY <1>1 DEF Call, Ready
<1>3. job'[s] = saves /\ ~failed'[s] /\ s \in up'
  BY <1>2, TypeParts DEF Calls
<1>4. Steady(s)' /\ Holds(s)' = Holds(s) /\ (Fresh(mem[s]) => Fresh(mem[s])')
  BY <1>2, UpBoot, IdleBoot
<1>5. Phase(s)'
  <2>1. CASE Two(Holds(s)) /\ mem[s].tips[Session] > 0
    <3>1. job'[s] = <<>>
      BY <1>3, <2>1
    <3>2. Two(Holds(s)')
      BY <1>4, <2>1
    <3>3. QED
      BY <3>1, <3>2, FilledPhase
  <2>2. CASE Fresh(mem[s])
    <3>1. saves = BootSaves
      BY <2>2 DEF Fresh, undefined
    <3>2. QED
      BY <1>3, <1>4, <2>2, <3>1 DEF Phase
  <2>3. QED
    BY <1>2, <2>1, <2>2, ReadyPhase
<1>6. QED
  BY <1>3, <1>4, <1>5, OnlyBoot DEF Booted

(* A tool that ends within its step.                                       *)
LEMMA ReturnedBoot ==
    ASSUME Booted, TypeOK, BootInv, NEW s \in Server, Ready(s), Returned(s), Steady(s)',
           Two(Holds(s)) /\ ~Fresh(mem[s]) => Two(Holds(s)'),
           Fresh(mem[s]) /\ ~inited[s] => Fresh(mem[s])'
    PROVE  BootInv'
<1>1. /\ s \in up /\ job[s] = <<>> /\ UNCHANGED <<up, job, inited>>
      /\ failed' = [failed EXCEPT ![s] = FALSE]
  BY DEF Ready, Returned
<1>2. ~failed'[s] /\ job'[s] = <<>> /\ s \in up'
  BY <1>1, TypeParts DEF Calls
<1>3. Phase(s)'
  <2>1. CASE Two(Holds(s)) /\ ~Fresh(mem[s])
    <3>1. Two(Holds(s)')
      BY <2>1
    <3>2. QED
      BY <1>2, <3>1, FilledPhase
  <2>2. CASE Fresh(mem[s]) /\ ~inited[s]
    BY <1>1, <1>2, <2>2 DEF Phase
  <2>3. QED
    BY <1>1, <2>1, <2>2, ReadyPhase
<1>4. QED
  BY <1>2, <1>3, OnlyBoot DEF Booted

(* A tool that appends: an unprotected entry.                              *)
LEMMA AppendToolBoot ==
    ASSUME Booted, TypeOK, TypeOK', BootInv, NEW s \in Server, NEW b \in {Main, Session},
           AppendTool(s, b)
    PROVE  BootInv'
<1>1. /\ b \in Branch /\ AppendEntry(s, b, FALSE, "plain", NewId) /\ Ready(s) /\ Returned(s)
      /\ b = Session => inited[s]
  BY DEF Branch, AppendTool, Booted
<1>2. NewId \in 1..MaxId
  BY <1>1, TypesAre, ConstantsOK DEF AppendEntry, NewId
<1>3. Steady(s)
  BY <1>1, UpBoot DEF Ready
<1>4. /\ Steady(s)'
      /\ Fresh(mem[s])' => Fresh(mem[s]) /\ b # Session
      /\ Holds(s)' = IF b = Session /\ FALSE THEN Holds(s) \cup {NewId} ELSE Holds(s)
  BY <1>1, <1>2, <1>3, AppendBoot
<1>5. PICK L : Grown(s, b, L)
  BY <1>1, <1>2, AppendSaves
<1>6. ASSUME Fresh(mem[s]), ~inited[s] PROVE Fresh(mem[s])'
  <2>1. b # Session
    BY <1>1, <1>6
  <2>2. QED
    BY <1>5, <1>6, <2>1, BranchNames DEF Grown, Fresh
<1>7. QED
  BY <1>1, <1>4, <1>6, ReturnedBoot

(* The tools that make no entry.                                           *)
LEMMA KeepToolBoot ==
    ASSUME Booted, TypeOK, TypeOK', BootInv, NEW s \in Server, Ready(s), Returned(s),
           NEW L, Keeps(s, L), L.tips = mem[s].tips
    PROVE  BootInv'
<1>1. Steady(s)
  BY UpBoot DEF Ready
<1>2. Fresh(L) => Fresh(mem[s])
  BY DEF Fresh
<1>3. Steady(s)' /\ mem'[s] = L /\ Holds(s)' = Holds(s)
  BY <1>1, <1>2, KeepsBoot
<1>4. Fresh(mem[s]) => Fresh(mem[s])'
  BY <1>3 DEF Fresh
<1>5. QED
  BY <1>3, <1>4, ReturnedBoot

(* The next save of a call.                                                *)
LEMMA ProceedBoot ==
    ASSUME Booted, TypeOK, BootInv, NEW s \in Server, s \in up, job[s] # <<>>, Proceed(s),
           Steady(s)',
           Filling(Tail(job[s]), Holds(s)') \/ Resetting(Tail(job[s]))
    PROVE  BootInv'
<1>1. job'[s] = Tail(job[s]) /\ ~failed'[s] /\ s \in up'
  BY TypeParts, UpBoot DEF Calls, Proceed
<1>2. Phase(s)'
  BY <1>1 DEF Phase, Holds
<1>3. QED
  BY <1>1, <1>2, OnlyBoot DEF Booted

(* An append of a call.                                                    *)
LEMMA JobAppendBoot ==
    ASSUME Booted, TypeOK, TypeOK', BootInv, NEW s \in Server, s \in up, job[s] # <<>>,
           JobAppend(s)
    PROVE  BootInv'
<1> DEFINE o == Head(job[s])
<1>1. job[s] \in Seq(SaveStep) /\ o \in SaveStep /\ o = job[s][1] /\ 1 \in 1..Len(job[s])
  BY TypeParts DEF Calls
<1>2. Steady(s) /\ Phase(s) /\ Proceed(s)
  BY UpBoot DEF JobAppend
<1>3. Head(BootSaves).op # "append"
  BY BootSavesAre
<1> HIDE DEF o
<1>4. o.op = "append" /\ o.branch \in Branch /\ o.prot \in BOOLEAN /\ o.copy \in {0} \cup Entry
  BY <1>1, StepIs DEF JobAppend, o
<1>5. Filling(job[s], Holds(s)) \/ Resetting(job[s])
  BY <1>2, <1>3, <1>4 DEF Phase, Holds, o
<1>6. o.branch # Main
  BY <1>1, <1>4, <1>5 DEF Filling, Resetting, Empties
<1>7. \E form \in {"plain", "folded"} : \E payload \in 1..MaxId :
         AppendEntry(s, o.branch, o.prot, form, payload)
  <2>1. CASE o.copy = 0
    <3>1. AppendEntry(s, o.branch, o.prot, "plain", NewId)
      BY <2>1 DEF JobAppend, o
    <3>2. NewId \in 1..MaxId
      BY <3>1, TypesAre, ConstantsOK DEF AppendEntry, NewId
    <3>3. QED
      BY <3>1, <3>2
  <2>2. CASE o.copy # 0
    <3> DEFINE form == IF o.copy \in mem[s].folded THEN "folded" ELSE "plain"
    <3>1. AppendEntry(s, o.branch, o.prot, form, info[o.copy].payload)
      BY <2>2 DEF JobAppend, o
    <3>2. form \in {"plain", "folded"}
      OBVIOUS
    <3> HIDE DEF form
    <3>3. info[o.copy] \in Info
      BY <1>4, <2>2, TypesAre DEF Entry
    <3>4. info[o.copy].payload \in 1..MaxId
      BY <3>3 DEF Info
    <3>5. QED
      BY <3>1, <3>2, <3>4
  <2>3. QED
    BY <2>1, <2>2
<1>8. /\ Steady(s)'
      /\ Holds(s)' = IF o.branch = Session /\ o.prot THEN Holds(s) \cup {NewId} ELSE Holds(s)
      /\ NewId \notin Holds(s)
  BY <1>2, <1>4, <1>6, <1>7, AppendBoot
<1>9. Holds(s)' = IF Adds(job[s][1]) THEN Holds(s) \cup {NewId} ELSE Holds(s)
  BY <1>1, <1>4, <1>8 DEF Adds
<1>10. CASE Filling(job[s], Holds(s))
  <2>1. Filling(Tail(job[s]), Holds(s)')
    BY <1>1, <1>8, <1>9, <1>10, FillingTail
  <2>2. QED
    BY <1>2, <1>8, <2>1, ProceedBoot
<1>11. CASE Resetting(job[s])
  <2>1. ~Empties(job[s][1], Session)
    BY <1>1, <1>4 DEF Empties
  <2>2. Resetting(Tail(job[s]))
    BY <1>1, <1>11, <2>1, ResettingTail
  <2>3. QED
    BY <1>2, <1>8, <2>2, ProceedBoot
<1>12. QED
  BY <1>5, <1>10, <1>11

(* The branch of the bootstrap: session_context is not there yet, so       *)
(* nothing throws, and main has no protected entry to start from.          *)
LEMMA JobBranchBoot ==
    ASSUME Booted, TypeOK, TypeOK', BootInv, NEW s \in Server, s \in up, job[s] # <<>>,
           JobBranch(s) \/ JobThrow(s)
    PROVE  BootInv'
<1>1. job[s] \in Seq(SaveStep) /\ Head(job[s]) = job[s][1] /\ 1 \in 1..Len(job[s])
  BY TypeParts DEF Calls
<1>2. Steady(s) /\ Phase(s) /\ Head(job[s]).op = "branch"
  BY UpBoot DEF JobBranch, JobThrow
<1>3. job[s] = BootSaves /\ Fresh(mem[s])
  BY <1>1, <1>2 DEF Phase, Filling, Resetting, Empties
<1>4. mem[s].tips[Session] = undefined /\ JobBranch(s)
  BY <1>3, BootSavesAre DEF Fresh, JobThrow
<1>5. NewBranch(s, Session, Main) /\ Proceed(s)
  BY <1>3, <1>4, BootSavesAre DEF JobBranch
<1> DEFINE tip == ParentIn(mem[s], Main)
           L == [mem[s] EXCEPT !.tips[Session] = tip]
<1>6. Save(s, L) /\ LedgerIn(L, Entry) /\ UNCHANGED info
  BY <1>5, NewBranchIs, BranchNames
<1>7. /\ L.ids = mem[s].ids /\ L.tips[Session] = tip /\ L.tips[Main] = mem[s].tips[Main]
  BY TypesAre, BranchNames DEF LedgerIn
<1>8. \/ tip = mem[s].tips[Main]
      \/ tip = null
  BY DEF ParentIn
<1> HIDE DEF L, tip
<1>9. Keeps(s, L)
  BY <1>6, <1>7 DEF Keeps
<1>10. /\ Steady(s)'
       /\ L.tips[Session] = mem[s].tips[Main] =>
             Holds(s)' = Protected(info, History(mem[s], Main))
       /\ L.tips[Session] <= 0 => Holds(s)' = {}
  BY <1>2, <1>3, <1>7, <1>9, KeepsBoot, BranchNames
<1>11. Holds(s)' = {}
  BY <1>2, <1>7, <1>8, <1>10 DEF Steady, PlainMain, null
<1>12. Filling(Tail(job[s]), Holds(s)')
  BY <1>3, <1>11, BootSavesAre
<1>13. QED
  BY <1>5, <1>10, <1>12, ProceedBoot

(* An emptying of a prune.                                                 *)
LEMMA JobNullBoot ==
    ASSUME Booted, TypeOK, TypeOK', BootInv, NEW s \in Server, s \in up, job[s] # <<>>,
           JobNull(s)
    PROVE  BootInv'
<1> DEFINE b == Head(job[s]).name
           L == [mem[s] EXCEPT !.tips[b] = null]
<1>1. job[s] \in Seq(SaveStep) /\ Head(job[s]) = job[s][1] /\ 1 \in 1..Len(job[s])
      /\ Head(job[s]) \in SaveStep
  BY TypeParts DEF Calls
<1>2. Steady(s) /\ Phase(s) /\ Head(job[s]).op = "null" /\ Proceed(s)
  BY UpBoot DEF JobNull
<1>3. Head(BootSaves).op # "null"
  BY BootSavesAre
<1>4. Resetting(job[s])
  BY <1>1, <1>2, <1>3 DEF Phase, Filling
<1>5. b \in Branch /\ b \in {Session, Archive}
  BY <1>1, <1>2, <1>4, BranchNames DEF Resetting, Empties
<1>6. Save(s, L) /\ LedgerIn(L, Entry) /\ UNCHANGED info
  BY <1>5, EditsOK DEF JobNull
<1>7. /\ L.ids = mem[s].ids
      /\ \A c \in Branch : L.tips[c] = IF c = b THEN null ELSE mem[s].tips[c]
  BY TypesAre DEF LedgerIn
<1> HIDE DEF L
<1>8. Keeps(s, L) /\ L.tips[Main] = mem[s].tips[Main]
  BY <1>5, <1>6, <1>7, BranchNames DEF Keeps
<1>9. L.tips[Session] = IF b = Session THEN null ELSE mem[s].tips[Session]
  BY <1>7, BranchNames
<1>10. Fresh(L) => Fresh(mem[s])
  BY <1>9 DEF Fresh, null, undefined
<1>11. /\ Steady(s)'
       /\ L.tips[Session] <= 0 => Holds(s)' = {}
  BY <1>2, <1>8, <1>10, KeepsBoot
<1>12. CASE b = Session
  <2>1. Holds(s)' = {}
    BY <1>9, <1>11, <1>12 DEF null
  <2>2. Empties(job[s][1], Session)
    BY <1>1, <1>2, <1>12 DEF Empties
  <2>3. Filling(Tail(job[s]), Holds(s)')
    BY <1>1, <1>4, <2>1, <2>2, ResettingTail
  <2>4. QED
    BY <1>2, <1>11, <2>3, ProceedBoot
<1>13. CASE b # Session
  <2>1. ~Empties(job[s][1], Session)
    BY <1>1, <1>13 DEF Empties
  <2>2. Resetting(Tail(job[s]))
    BY <1>1, <1>4, <2>1, ResettingTail
  <2>3. QED
    BY <1>2, <1>11, <2>2, ProceedBoot
<1>14. QED
  BY <1>12, <1>13

(* The next save of a call.                                                *)
LEMMA RunJobBoot ==
    ASSUME Booted, TypeOK, TypeOK', SyncInv, ~trims, BootInv, NEW s \in Server, RunJob(s)
    PROVE  BootInv'
<1>1. job[s] # <<>>
  BY DEF RunJob
<1>2. s \in up
  BY <1>1 DEF SyncInv
<1>3. ~JobCut(s)
  <2>1. /\ Head(job[s]) = job[s][1] /\ 1 \in 1..Len(job[s])
    BY <1>1, TypeParts DEF Calls
  <2>2. job[s][1].op # "cut"
    BY <2>1 DEF SyncInv, Emptying
  <2>3. QED
    BY <2>1, <2>2 DEF JobCut
<1>4. QED
  BY <1>1, <1>2, <1>3, JobAppendBoot, JobBranchBoot, JobNullBoot DEF RunJob

(* The file alone: what a stop leaves, what a start finds.                 *)
LEMMA SettledStays ==
    ASSUME UNCHANGED info, NEW L, Settled(L)
    PROVE  Settled(L)'
<1>1. \A b : History(L, b)' = History(L, b)
  BY DEF History, ChainFrom
<1>2. QED
  BY <1>1 DEF Settled, PlainMain, Fresh, Filled

(* A server between two calls leaves a settled file.                       *)
LEMMA AgreeSettled ==
    ASSUME Booted, TypeOK, NEW s \in Server, Agree(mem[s], disk), Steady(s),
           \/ Two(Holds(s)) /\ mem[s].tips[Session] > 0
           \/ Fresh(mem[s])
    PROVE  Settled(disk)
<1>1. \A tip : ChainFrom(disk, tip) = ChainFrom(mem[s], tip)
  BY DEF ChainFrom, Agree
<1>2. ~ (null > 0)
  BY DEF null
<1>3. PlainMain(disk)
  <2>1. CASE disk.tips[Main] = mem[s].tips[Main]
    <3>1. History(disk, Main) = History(mem[s], Main)
      BY <1>1, <2>1 DEF History
    <3>2. QED
      BY <3>1 DEF PlainMain, Steady
  <2>2. CASE ~ (disk.tips[Main] > 0)
    <3>1. History(disk, Main) = <<>>
      BY <2>2 DEF History, ChainFrom
    <3>2. QED
      BY <3>1, NothingProtected DEF PlainMain
  <2>3. QED
    BY <2>1, <2>2, BranchNames DEF Agree, Booted
<1>4. Fresh(disk) \/ Filled(disk)
  <2>1. CASE Fresh(mem[s])
    BY <2>1 DEF Steady
  <2>2. CASE Two(Holds(s)) /\ mem[s].tips[Session] > 0
    <3>1. disk.tips[Session] = mem[s].tips[Session]
      BY <1>2, <2>2, BranchNames DEF Agree
    <3>2. History(disk, Session) = History(mem[s], Session)
      BY <1>1, <3>1 DEF History
    <3>3. QED
      BY <2>2, <3>1, <3>2 DEF Filled, Holds
  <2>3. QED
    BY <2>1, <2>2
<1>5. QED
  BY <1>3, <1>4 DEF Settled

(* ... which the next process finds.                                       *)
LEMMA StartBoot ==
    ASSUME Booted, TypeOK, SyncInv, ~trims, BootInv, NEW s \in Server, Start(s)
    PROVE  BootInv'
<1>1. /\ s \notin up /\ s \in up' /\ UNCHANGED <<info, disk, job>>
      /\ mem'[s] = IF exists THEN disk ELSE EmptyLedger
      /\ inited'[s] = FALSE /\ failed'[s] = FALSE
  BY TypesAre DEF Start
<1>2. job'[s] = <<>> /\ mem'[s] = disk /\ Settled(disk)
  BY <1>1 DEF SyncInv, BootInv
<1>3. PICK L : L = disk
  OBVIOUS
<1>4. mem'[s] = L /\ disk' = L /\ Settled(L)'
  BY <1>1, <1>2, <1>3, SettledStays
<1>5. Steady(s)'
  BY <1>4 DEF Steady, Settled, PlainMain, History, Fresh
<1>6. CASE Fresh(L)'
  <2>1. Phase(s)'
    BY <1>1, <1>2, <1>4, <1>6 DEF Phase, Fresh
  <2>2. QED
    BY <1>1, <1>5, <2>1, OnlyBoot DEF Booted
<1>7. CASE Filled(L)'
  <2>1. Two(Holds(s)')
    BY <1>4, <1>7 DEF Filled, Holds, History
  <2>2. Phase(s)'
    BY <1>2, <2>1, FilledPhase
  <2>3. QED
    BY <1>1, <1>5, <2>2, OnlyBoot DEF Booted
<1>8. QED
  BY <1>4, <1>6, <1>7 DEF Settled

(* A server that is not killed stops between two calls.                    *)
LEMMA StopBoot ==
    ASSUME Booted, TypeOK, SyncInv, ~trims, BootInv, NEW s \in Server, Stop(s)
    PROVE  BootInv'
<1>1. /\ s \in up /\ up' = up \ {s} /\ job[s] = <<>> /\ UNCHANGED <<info, disk, failed>>
  BY DEF Stop, Booted
<1>2. Agree(mem[s], disk) /\ Steady(s) /\ ~failed[s]
  BY <1>1, UpBoot DEF SyncInv
<1>3. Settled(disk)
  BY <1>1, <1>2, ReadyPhase, AgreeSettled
<1>4. PICK L : L = disk
  OBVIOUS
<1>5. disk' = L /\ Settled(L)'
  BY <1>1, <1>3, <1>4, SettledStays
<1>6. Settled(disk)'
  BY <1>5 DEF Settled, PlainMain, Fresh, Filled, History
<1>7. \A t \in Server : t = s
  BY DEF Booted, Single
<1>8. ASSUME NEW t \in Server PROVE ~failed'[t] /\ t \notin up'
  BY <1>1, <1>2, <1>7
<1>9. QED
  BY <1>6, <1>8 DEF BootInv

(* The invariant of the boot holds at first.                               *)
LEMMA InitBoot == Init => BootInv
<1> SUFFICES ASSUME Init PROVE BootInv
  OBVIOUS
<1>1. /\ disk = EmptyLedger /\ up = {} /\ \A s \in Server : ~failed[s]
  BY DEF Init
<1>2. Fresh(disk)
  BY <1>1, BranchNames DEF Fresh, EmptyLedger
<1>3. PlainMain(disk)
  <2>1. ~ (disk.tips[Main] > 0)
    BY <1>1, BranchNames, EmptyTips
  <2>2. History(disk, Main) = <<>>
    BY <2>1 DEF History, ChainFrom
  <2>3. QED
    BY <2>2, NothingProtected DEF PlainMain
<1>4. QED
  BY <1>1, <1>2, <1>3 DEF BootInv, Settled

(* Every step keeps it.                                                    *)
LEMMA StepBoot ==
    Booted /\ TypeOK /\ TypeOK' /\ SyncInv /\ (~trims => BootInv) /\ [Next]_vars
      => (~trims => BootInv)'
<1> SUFFICES ASSUME Booted, TypeOK, TypeOK', SyncInv, ~trims => BootInv, [Next]_vars, ~trims'
             PROVE  BootInv'
  OBVIOUS
<1>a. ~trims /\ BootInv
  BY TrimsStay
<1>1. ASSUME NEW s \in Server, NEW name \in {Session}, NEW from \in {Main},
             BranchTool(s, name, from)
      PROVE  FALSE
  <2>1. Ready(s) /\ inited[s] /\ Fresh(mem[s])
    BY <1>1 DEF BranchTool, NewBranch, Booted, Fresh
  <2>2. QED
    BY <1>a, <2>1, ReadyPhase DEF Ready
<1>2. ASSUME NEW s \in Server, NEW b \in Branch, NEW F \in SUBSET Range(History(mem[s], b)),
             Fold(s, b, F)
      PROVE  BootInv'
  <2> DEFINE L == [mem[s] EXCEPT !.folded = @ \cup F]
  <2>1. Save(s, L) /\ LedgerIn(L, Entry) /\ UNCHANGED info /\ Ready(s) /\ Returned(s)
    BY <1>2, FoldIs DEF Fold
  <2>2. L.ids = mem[s].ids /\ L.tips = mem[s].tips
    BY TypesAre DEF LedgerIn
  <2> HIDE DEF L
  <2>3. Keeps(s, L)
    BY <2>1, <2>2 DEF Keeps
  <2>4. QED
    BY <1>a, <2>1, <2>2, <2>3, KeepToolBoot
<1>3. ASSUME NEW s \in Server, NEW b \in Branch, Unfold(s, b) PROVE BootInv'
  <2>1. PICK F : /\ Save(s, [mem[s] EXCEPT !.folded = @ \ F])
                 /\ LedgerIn([mem[s] EXCEPT !.folded = @ \ F], Entry) /\ UNCHANGED info
    BY <1>3, UnfoldIs
  <2> DEFINE L == [mem[s] EXCEPT !.folded = @ \ F]
  <2>2. L.ids = mem[s].ids /\ L.tips = mem[s].tips
    BY TypesAre DEF LedgerIn
  <2>3. Save(s, L) /\ LedgerIn(L, Entry)
    BY <2>1
  <2> HIDE DEF L
  <2>4. Keeps(s, L)
    BY <2>1, <2>2, <2>3 DEF Keeps
  <2>5. Ready(s) /\ Returned(s)
    BY <1>3 DEF Unfold
  <2>6. QED
    BY <1>a, <2>2, <2>4, <2>5, KeepToolBoot
<1>4. ASSUME NEW s \in Server, NEW cutoff \in Entry, PruneAge(s, cutoff) PROVE BootInv'
  <2>1. /\ UNCHANGED <<info, mem, disk, up>> /\ s \in up
        /\ failed' = [failed EXCEPT ![s] = FALSE]
    BY <1>4 DEF PruneAge, Call, Ready
  <2>2. ~failed'[s] /\ s \in up'
    BY <2>1, TypeParts DEF Calls
  <2>3. Steady(s)'
    BY <1>a, <2>1, UpBoot, IdleBoot
  <2>4. Phase(s)'
    BY <1>a, <1>4, PruneAgeBoot DEF Phase
  <2>5. QED
    BY <2>2, <2>3, <2>4, OnlyBoot DEF Booted
<1>5. ASSUME NEW s \in Server, PruneLast(s) PROVE FALSE
  BY <1>5 DEF PruneLast
<1>6. CASE UNCHANGED vars
  <2>1. ASSUME NEW s \in Server, s \in up PROVE ~failed'[s] /\ Steady(s)' /\ Phase(s)'
    <3>1. ~failed[s] /\ Steady(s) /\ Phase(s)
      BY <1>a, <2>1, UpBoot
    <3>2. UNCHANGED <<info, mem, disk, job, inited, failed>>
      BY <1>6 DEF vars
    <3>3. Steady(s)' /\ Holds(s)' = Holds(s) /\ (Fresh(mem[s]) => Fresh(mem[s])')
      BY <3>1, <3>2, IdleBoot
    <3>4. QED
      BY <3>1, <3>2, <3>3 DEF Phase, Holds
  <2>2. ASSUME NEW s \in Server, s \notin up PROVE ~failed'[s] /\ Settled(disk)'
    <3>1. PICK L : L = disk
      OBVIOUS
    <3>2. disk' = L /\ Settled(L)' /\ ~failed'[s]
      BY <1>a, <1>6, <2>2, <3>1, SettledStays DEF BootInv, vars
    <3>3. QED
      BY <3>2 DEF Settled, PlainMain, Fresh, Filled, History
  <2>3. up' = up
    BY <1>6 DEF vars
  <2>4. QED
    BY <2>1, <2>2, <2>3 DEF BootInv, Steady
<1>7. QED
  BY <1>a, <1>1, <1>2, <1>3, <1>4, <1>5, <1>6, StartBoot, StopBoot, AppendToolBoot, InitCallBoot,
     RunJobBoot
     DEF Next

(* What the invariants say of a server between calls.                      *)
LEMMA AgreeTransparent ==
    ASSUME TypeOK, NEW s \in Server, Agree(mem[s], disk)
    PROVE  \A b \in Branch :
            ~ ("prune_age" \in Tools /\ b = PruneBranch /\ mem[s].tips[b] = null) =>
            /\ History(mem[s], b) = History(disk, b)
            /\ Checkpoints(mem[s], b) = Checkpoints(disk, b)
            /\ \A i \in Range(History(disk, b)) : i \in disk.folded <=> i \in mem[s].folded
<1>1. \A tip : ChainFrom(disk, tip) = ChainFrom(mem[s], tip)
  BY DEF ChainFrom, Agree
<1>2. ASSUME NEW b \in Branch,
             ~ ("prune_age" \in Tools /\ b = PruneBranch /\ mem[s].tips[b] = null)
      PROVE  History(mem[s], b) = History(disk, b)
  <2>1. CASE disk.tips[b] = mem[s].tips[b]
    BY <1>1, <2>1 DEF History
  <2>2. CASE ~ (disk.tips[b] > 0) /\ ~ (mem[s].tips[b] > 0)
    BY <2>2 DEF History, ChainFrom
  <2>3. QED
    BY <1>2, <2>1, <2>2 DEF Agree
<1>3. QED
  BY <1>2 DEF Checkpoints, Agree

(* A branch that is pruned by age is session_context, whose protected      *)
(* entries the prune appends again.                                        *)
Remade == "prune_age" \in Tools => Booted

(* Between calls memory and file agree on every branch.                    *)
LEMMA ReadyTransparent ==
    Single /\ TypeOK /\ SyncInv /\ (Booted => (~trims => BootInv)) /\ Remade
      => RestartTransparent
<1> SUFFICES ASSUME Single, TypeOK, SyncInv, Booted => (~trims => BootInv), Remade,
                    NEW s \in Server \ trimmed, Ready(s),
                    NEW b \in Branch, trims => mem[s].tips[b] # null
             PROVE  /\ History(mem[s], b) = History(disk, b)
                    /\ Checkpoints(mem[s], b) = Checkpoints(disk, b)
                    /\ \A i \in Range(History(disk, b)) :
                          i \in disk.folded <=> i \in mem[s].folded
  BY DEF RestartTransparent
<1>1. s \in up /\ job[s] = <<>> /\ Agree(mem[s], disk)
  BY DEF Ready, SyncInv
<1>2. ASSUME "prune_age" \in Tools, b = PruneBranch, mem[s].tips[b] = null PROVE FALSE
  <2>1. Booted /\ BootInv /\ PruneBranch = Session
    BY <1>2 DEF Remade, Booted
  <2>2. mem[s].tips[Session] > 0 \/ Fresh(mem[s])
    BY <1>1, <2>1, ReadyPhase
  <2>3. QED
    BY <1>2, <2>1, <2>2 DEF null, undefined, Fresh
<1>3. QED
  BY <1>1, <1>2, AgreeTransparent

(* Two is a cardinality.                                                   *)
LEMMA TwoAreTwo ==
    ASSUME NEW S, Two(S)
    PROVE  Cardinality(S) = 2
<1>1. PICK x, y \in S : x # y /\ S = {x, y}
  BY DEF Two
<1>2. IsFiniteSet({x}) /\ Cardinality({x}) = 1
  BY FS_Singleton
<1>3. Cardinality({x} \cup {y}) = Cardinality({x}) + 1
  BY <1>1, <1>2, FS_AddElement
<1>4. {x} \cup {y} = S
  BY <1>1
<1>5. QED
  BY <1>2, <1>3, <1>4

(* Between calls a server that has booted has its two entries.             *)
LEMMA ReadyBootstrapped ==
    TypeOK /\ (~trims => BootInv) => BootstrappedOnce /\ (~trims => InitNeverFails)
<1> SUFFICES ASSUME TypeOK, BootInv PROVE BootstrappedOnce /\ InitNeverFails
  BY DEF BootstrappedOnce
<1>1. InitNeverFails
  BY DEF BootInv, InitNeverFails
<1>2. ASSUME NEW s \in Server, Ready(s), inited[s]
      PROVE  Cardinality({i \in Range(History(mem[s], Session)) : info[i].prot}) = 2
  <2>1. Two(Holds(s))
    BY <1>2, ReadyPhase DEF Ready
  <2>2. QED
    BY <2>1, TwoAreTwo DEF Holds, Protected
<1>3. QED
  BY <1>1, <1>2 DEF BootstrappedOnce

(* A server that has the file to itself and has called no keep-last prune  *)
(* since it started answers between calls what it would answer after a     *)
(* restart -- with prunes by age, if it takes calls only once it has       *)
(* booted, is not killed within one, and prunes session_context, which the *)
(* two protected entries keep from being emptied until a keep-last prune   *)
(* has cut them off (on a branch a prune leaves empty memory and file      *)
(* differ: PersistedOnEveryWrite).                                         *)
THEOREM RestartAlwaysTransparent == Single /\ Remade => (Spec => []RestartTransparent)
<1> SUFFICES ASSUME Single, Remade PROVE Spec => []RestartTransparent
  OBVIOUS
<1> DEFINE Inv == SyncInv /\ (Booted => (~trims => BootInv))
<1>1. Init => Inv
  BY InitSync, InitBoot
<1>2. TypeOK /\ TypeOK' /\ Inv /\ [Next]_vars => Inv'
  BY StepSync, StepBoot DEF Booted
<1>3. TypeOK /\ Inv => RestartTransparent
  BY ReadyTransparent
<1> HIDE DEF Inv
<1>4. QED
  BY <1>1, <1>2, <1>3, TypeCorrect, PTL DEF Spec

(* Under the same conditions, until its first keep-last prune, a server    *)
(* that has booted has the server_init and the system_prompt entry of      *)
(* session_context exactly once, also after prunes by age and restarts,    *)
(* and the bootstrap never throws.                                         *)
THEOREM BootAlwaysOnce ==
    Booted => (Spec => []BootstrappedOnce /\ [](~trims => InitNeverFails))
<1> SUFFICES ASSUME Booted PROVE Spec => []BootstrappedOnce /\ [](~trims => InitNeverFails)
  OBVIOUS
<1> DEFINE Inv == SyncInv /\ (~trims => BootInv)
           Fine == ~trims => InitNeverFails
<1>1. Init => Inv
  BY InitSync, InitBoot
<1>2. TypeOK /\ TypeOK' /\ Inv /\ [Next]_vars => Inv'
  BY StepSync, StepBoot DEF Booted
<1>3. TypeOK /\ Inv => BootstrappedOnce /\ Fine
  BY ReadyBootstrapped
<1> HIDE DEF Inv
<1>4. QED
  BY <1>1, <1>2, <1>3, TypeCorrect, PTL DEF Spec
=============================================================================
