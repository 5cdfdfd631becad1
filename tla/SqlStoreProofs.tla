--------------------------- MODULE SqlStoreProofs ---------------------------
(***************************************************************************)
(* Proofs about SqlStore.  The types hold for any number of servers; that  *)
(* no late row is lost and that file and image agree needs a server that   *)
(* has the file to itself (Alone), for any number of rows and queries.     *)
(***************************************************************************)
EXTENDS SqlStore, TLAPS

(* Who waits for the sql.js module was called here, or is the boot.        *)
WaitersCalled ==
    \A s \in Server : \A i \in 1 .. Len(waiting[s]) :
        \/ waiting[s][i] = s
        \/ waiting[s][i] \in Client /\ at[waiting[s][i]] = s

(* A database was given only to who called for it, and the server it was   *)
(* given on has one open.                                                  *)
HandlesGiven ==
    /\ \A c \in Client : handle[c] # NULL => at[c] # NULL
    /\ \A s \in Server : \A c \in Resuming(s) : sqlDb[s] # NULL

TypeInv == TypeOK /\ WaitersCalled /\ HandlesGiven

(* The kinds of values are different.                                      *)
LEMMA NullDiffers ==
    /\ NULL \notin Server /\ NULL \notin Client /\ NULL \notin Caller
    /\ \A R \in SUBSET Row : R # NULL
    /\ Client \cap Server = {} /\ Server \subseteq Caller /\ Client \subseteq Caller
    /\ Row \subseteq Client /\ Query \subseteq Client /\ Row \cap Query = {}
BY SqlConstantsOK DEF Client, Caller

(* The queue of the continuations, one longer.                             *)
LEMMA Joined ==
    ASSUME NEW T, NEW q \in Seq(T), IsInjective(q), NEW c \in T,
           \A i \in 1 .. Len(q) : q[i] # c
    PROVE  /\ Append(q, c) \in Seq(T) /\ IsInjective(Append(q, c))
           /\ Len(Append(q, c)) = Len(q) + 1
           /\ \A i \in 1 .. Len(q) : Append(q, c)[i] = q[i]
           /\ Append(q, c)[Len(q) + 1] = c
BY DEF IsInjective

(* The queue of the continuations, one shorter.                            *)
LEMMA Left ==
    ASSUME NEW T, NEW q \in Seq(T), IsInjective(q), q # <<>>
    PROVE  /\ Head(q) \in T /\ Head(q) = q[1] /\ 1 \in 1 .. Len(q)
           /\ Tail(q) \in Seq(T) /\ IsInjective(Tail(q))
           /\ Len(Tail(q)) = Len(q) - 1
           /\ \A i \in 1 .. Len(Tail(q)) : i + 1 \in 1 .. Len(q) /\ Tail(q)[i] = q[i + 1]
BY DEF IsInjective

-----------------------------------------------------------------------------
(* What the actions have in common: the calls, and the types.              *)

(* The types of what a process leaves behind when it is gone.              *)
LEMMA GoneTypes ==
    ASSUME TypeInv, NEW s \in Server, Gone(s), UNCHANGED at
    PROVE  /\ sqlDb' \in [Server -> Caller \cup {NULL}]
           /\ handle' \in [Caller -> Caller \cup {NULL}]
           /\ writing' \in [Server -> {NULL} \cup SUBSET Row]
           /\ running' \subseteq Server
           /\ waiting' \in [Server -> Seq(Caller)]
           /\ \A t \in Server : IsInjective(waiting'[t])
           /\ WaitersCalled' /\ HandlesGiven'
<1> USE NullDiffers DEF TypeInv, TypeOK, Gone
<1>1. <<>> \in Seq(Caller) /\ IsInjective(<<>>) /\ Len(<<>>) = 0
  BY DEF IsInjective
<1>2. /\ sqlDb' \in [Server -> Caller \cup {NULL}]
      /\ writing' \in [Server -> {NULL} \cup SUBSET Row]
      /\ running' \subseteq Server
  OBVIOUS
<1>3. handle' \in [Caller -> Caller \cup {NULL}]
  OBVIOUS
<1>4. /\ waiting' \in [Server -> Seq(Caller)]
      /\ \A t \in Server : IsInjective(waiting'[t])
  BY <1>1
<1>5. WaitersCalled'
  BY <1>1 DEF WaitersCalled
<1>6. HandlesGiven'
  BY DEF HandlesGiven, Resuming
<1> QED BY <1>2, <1>3, <1>4, <1>5, <1>6

(* The types hold at first.                                                *)
LEMMA TypeInit == Init => TypeInv
<1> SUFFICES ASSUME Init PROVE TypeInv
  OBVIOUS
<1>1. <<>> \in Seq(Caller) /\ IsInjective(<<>>) /\ Len(<<>>) = 0
  BY DEF IsInjective
<1>2. WaitersCalled
  BY <1>1 DEF Init, WaitersCalled
<1>3. TypeOK
  BY <1>1 DEF Init, TypeOK
<1>4. HandlesGiven
  BY NullDiffers DEF Init, HandlesGiven, Resuming
<1> QED BY <1>2, <1>3, <1>4 DEF TypeInv

(* Every step keeps them.                                                  *)
LEMMA TypeNext == TypeInv /\ [Next]_vars => TypeInv'
<1> SUFFICES ASSUME TypeInv, [Next]_vars PROVE TypeInv'
  OBVIOUS
<1> USE NullDiffers
<1>t. TypeOK /\ WaitersCalled /\ HandlesGiven
  BY DEF TypeInv
<1>1. ASSUME NEW s \in Server, Start(s) PROVE TypeInv'
  <2>1. <<s>> \in Seq(Caller) /\ IsInjective(<<s>>) /\ Len(<<s>>) = 1 /\ <<s>>[1] = s
    BY DEF IsInjective
  <2>2. TypeOK'
    BY <1>t, <1>1, <2>1 DEF Start, TypeOK, histVars
  <2>3. WaitersCalled'
    BY <1>t, <1>1, <2>1 DEF Start, TypeOK, WaitersCalled
  <2>4. HandlesGiven'
    BY <1>t, <1>1 DEF Start, HandlesGiven, Resuming
  <2> QED BY <2>2, <2>3, <2>4 DEF TypeInv
<1>2. ASSUME NEW s \in Server, NEW c \in Client, CallGetDb(s, c) PROVE TypeInv'
  <2>1. at[c] = NULL /\ \A i \in 1 .. Len(waiting[s]) : waiting[s][i] # c
    BY <1>t, <1>2 DEF CallGetDb, WaitersCalled
  <2>2. \A d \in Client : at'[d] = IF d = c THEN s ELSE at[d]
    BY <1>t, <1>2 DEF CallGetDb, TypeOK
  <2>3. /\ file' \in {NULL} \cup SUBSET Row /\ sqlDb' \in [Server -> Caller \cup {NULL}]
        /\ image' \in [Caller -> SUBSET Row] /\ at' \in [Client -> Server \cup {NULL}]
        /\ handle' \in [Caller -> Caller \cup {NULL}]
        /\ writing' \in [Server -> {NULL} \cup SUBSET Row]
        /\ running' \subseteq Server /\ acked' \subseteq Row
        /\ late' \subseteq Client /\ torn' \in BOOLEAN
    BY <1>t, <1>2 DEF CallGetDb, TypeOK
  <2>h. HandlesGiven'
    <3>1. handle[c] = NULL
      BY <1>t, <2>1 DEF HandlesGiven
    <3>2. \A d \in Caller : handle'[d] # handle[d] => d = c /\ handle'[c] = sqlDb[s] /\ sqlDb[s] # NULL
      BY <1>t, <1>2 DEF CallGetDb, TypeOK
    <3>3. sqlDb' = sqlDb
      BY <1>2 DEF CallGetDb
    <3>4. \A d \in Client : handle'[d] # NULL => at'[d] # NULL
      BY <1>t, <2>2, <3>1, <3>2 DEF HandlesGiven
    <3>5. ASSUME NEW t \in Server, NEW d \in Caller, handle'[d] # NULL,
                 d = t \/ (d \in Client /\ at'[d] = t)
          PROVE  sqlDb'[t] # NULL
      <4>1. CASE d = c
        BY <2>2, <3>1, <3>2, <3>3, <3>5, <4>1
      <4>2. CASE d # c
        BY <1>t, <2>2, <3>2, <3>3, <3>5, <4>2 DEF HandlesGiven, Resuming
      <4> QED BY <4>1, <4>2
    <3> QED BY <3>4, <3>5 DEF HandlesGiven, Resuming
  <2>4. CASE sqlDb[s] = NULL
    <3> DEFINE q == Append(waiting[s], c)
    <3>1. waiting[s] \in Seq(Caller) /\ IsInjective(waiting[s]) /\ c \in Caller
      BY <1>t DEF TypeOK
    <3>2. /\ q \in Seq(Caller) /\ IsInjective(q) /\ Len(q) = Len(waiting[s]) + 1
          /\ \A i \in 1 .. Len(waiting[s]) : q[i] = waiting[s][i]
          /\ q[Len(waiting[s]) + 1] = c
      BY <2>1, <3>1, Joined
    <3>3. waiting' = [waiting EXCEPT ![s] = q]
      BY <1>2, <2>4 DEF CallGetDb
    <3> HIDE DEF q
    <3>4. /\ waiting' \in [Server -> Seq(Caller)]
          /\ \A t \in Server : IsInjective(waiting'[t])
      BY <1>t, <3>2, <3>3 DEF TypeOK
    <3>5. ASSUME NEW t \in Server, NEW i \in 1 .. Len(waiting'[t])
          PROVE  \/ waiting'[t][i] = t
                 \/ waiting'[t][i] \in Client /\ at'[waiting'[t][i]] = t
      <4>1. CASE t # s
        BY <1>t, <2>1, <2>2, <3>3, <3>5, <4>1 DEF TypeOK, WaitersCalled
      <4>2. CASE t = s /\ i \in 1 .. Len(waiting[s])
        BY <1>t, <2>1, <2>2, <3>2, <3>3, <3>5, <4>2 DEF TypeOK, WaitersCalled
      <4>3. CASE t = s /\ i \notin 1 .. Len(waiting[s])
        <5>1. Len(waiting[s]) \in Nat
          BY <3>1
        <5>2. waiting'[t] = q
          BY <1>t, <3>3, <4>3 DEF TypeOK
        <5>3. i = Len(waiting[s]) + 1
          BY <3>2, <3>5, <4>3, <5>1, <5>2
        <5> QED BY <2>2, <3>2, <4>3, <5>2, <5>3
      <4> QED BY <4>1, <4>2, <4>3
    <3> QED BY <2>3, <2>h, <3>4, <3>5 DEF TypeInv, TypeOK, WaitersCalled
  <2>5. CASE sqlDb[s] # NULL
    <3>1. waiting' = waiting
      BY <1>2, <2>5 DEF CallGetDb
    <3>2. WaitersCalled'
      BY <1>t, <2>1, <2>2, <3>1 DEF WaitersCalled
    <3>3. waiting' \in [Server -> Seq(Caller)] /\ \A t \in Server : IsInjective(waiting'[t])
      BY <1>t, <3>1 DEF TypeOK
    <3> QED BY <2>3, <2>h, <3>2, <3>3 DEF TypeInv, TypeOK
  <2> QED BY <2>4, <2>5
<1>3. ASSUME NEW s \in Server, OpenNext(s) PROVE TypeInv'
  <2> DEFINE q == Tail(waiting[s])
             c == Head(waiting[s])
  <2>1. waiting[s] \in Seq(Caller) /\ IsInjective(waiting[s]) /\ waiting[s] # <<>>
    BY <1>t, <1>3 DEF TypeOK, OpenNext
  <2>2. /\ c \in Caller /\ q \in Seq(Caller) /\ IsInjective(q)
        /\ \A i \in 1 .. Len(q) : i + 1 \in 1 .. Len(waiting[s]) /\ q[i] = waiting[s][i + 1]
    BY <2>1, Left
  <2>3. waiting' = [waiting EXCEPT ![s] = q]
    BY <1>3 DEF OpenNext
  <2>4. /\ image' = [image EXCEPT ![c] = Opens] /\ sqlDb' = [sqlDb EXCEPT ![s] = c]
        /\ handle' = [handle EXCEPT ![c] = c]
    BY <1>3 DEF OpenNext
  <2>5. Opens \in SUBSET Row
    BY <1>t DEF Opens, Stored, TypeOK
  <2> HIDE DEF q, c
  <2>6. TypeOK'
    <3>1. /\ image' \in [Caller -> SUBSET Row] /\ sqlDb' \in [Server -> Caller \cup {NULL}]
          /\ handle' \in [Caller -> Caller \cup {NULL}]
      BY <1>t, <2>2, <2>4, <2>5 DEF TypeOK
    <3>2. waiting' \in [Server -> Seq(Caller)] /\ \A t \in Server : IsInjective(waiting'[t])
      BY <1>t, <2>2, <2>3 DEF TypeOK
    <3> QED BY <1>t, <1>3, <3>1, <3>2 DEF TypeOK, OpenNext, histVars
  <2>7. WaitersCalled'
    <3> SUFFICES ASSUME NEW t \in Server, NEW i \in 1 .. Len(waiting'[t])
                 PROVE  \/ waiting'[t][i] = t
                        \/ waiting'[t][i] \in Client /\ at[waiting'[t][i]] = t
      BY <1>3 DEF OpenNext, WaitersCalled
    <3>1. CASE t = s
      BY <1>t, <2>2, <2>3, <3>1 DEF TypeOK, WaitersCalled
    <3>2. CASE t # s
      BY <1>t, <2>3, <3>2 DEF TypeOK, WaitersCalled
    <3> QED BY <3>1, <3>2
  <2>8. HandlesGiven'
    <3>1. c = s \/ (c \in Client /\ at[c] = s)
      BY <1>t, <2>1, Left DEF WaitersCalled, c
    <3>2. \A d \in Caller : handle'[d] = IF d = c THEN c ELSE handle[d]
      BY <1>t, <2>2, <2>4 DEF TypeOK
    <3>3. \A t \in Server : sqlDb'[t] = IF t = s THEN c ELSE sqlDb[t]
      BY <1>t, <2>2, <2>4 DEF TypeOK
    <3>4. at' = at
      BY <1>3 DEF OpenNext
    <3> QED BY <1>t, <2>2, <3>1, <3>2, <3>3, <3>4 DEF HandlesGiven, Resuming
  <2> QED BY <2>6, <2>7, <2>8 DEF TypeInv
<1>4. ASSUME NEW s \in Server, NEW c \in Caller, Resumes(s, c),
             handle' = [handle EXCEPT ![c] = NULL],
             UNCHANGED <<file, sqlDb, image, waiting, at, writing, running, histVars>>
      PROVE  TypeInv'
  <2>1. TypeOK'
    BY <1>t, <1>4 DEF TypeOK, histVars
  <2>2. WaitersCalled'
    BY <1>t, <1>4 DEF WaitersCalled
  <2>3. HandlesGiven'
    BY <1>t, <1>4 DEF HandlesGiven, Resuming, TypeOK
  <2> QED BY <2>1, <2>2, <2>3 DEF TypeInv
<1>5. ASSUME NEW s \in Server, NEW r \in Row, Exec(s, r) PROVE TypeInv'
  <2>1. handle[r] \in Caller
    BY <1>t, <1>5 DEF Exec, Resumes, Resuming, TypeOK
  <2>2. image' = [image EXCEPT ![handle[r]] = @ \cup {r}]
    BY <1>5 DEF Exec
  <2>3. image' \in [Caller -> SUBSET Row]
    BY <1>t, <2>1, <2>2 DEF TypeOK
  <2>4. Saved(s, r) \in SUBSET Row
    <3>1. sqlDb[s] \in Caller
      BY <1>t, <1>5 DEF Exec, Resumes, HandlesGiven, TypeOK
    <3> QED BY <2>3, <3>1 DEF Saved
  <2>5. TypeOK'
    BY <1>t, <1>5, <2>3, <2>4 DEF TypeOK, Exec, histVars
  <2>6. WaitersCalled' /\ HandlesGiven'
    BY <1>t, <1>5 DEF WaitersCalled, HandlesGiven, Resuming, Exec
  <2> QED BY <2>5, <2>6 DEF TypeInv
<1>6. ASSUME NEW s \in Server, NEW r \in Row, ExecWritten(s, r) PROVE TypeInv'
  <2>1. TypeOK'
    BY <1>t, <1>6 DEF TypeOK, ExecWritten
  <2>2. WaitersCalled'
    BY <1>t, <1>6 DEF WaitersCalled, ExecWritten
  <2>3. HandlesGiven'
    BY <1>t, <1>6 DEF HandlesGiven, Resuming, ExecWritten, TypeOK
  <2> QED BY <2>1, <2>2, <2>3 DEF TypeInv
<1>7. ASSUME NEW s \in Server, Exit(s) PROVE TypeInv'
  <2>1. Gone(s) /\ UNCHANGED at
    BY <1>7 DEF Exit
  <2>2. file' \in {NULL} \cup SUBSET Row
    BY <1>t, <1>7 DEF Exit, TypeOK
  <2>3. UNCHANGED <<image, acked, late, torn>>
    BY <1>7 DEF Exit, histVars
  <2> QED BY <1>t, <2>1, <2>2, <2>3, GoneTypes DEF TypeInv, TypeOK
<1>8. ASSUME NEW s \in Server, Kill(s) PROVE TypeInv'
  <2>1. Gone(s) /\ UNCHANGED at
    BY <1>8 DEF Kill
  <2>2. UNCHANGED <<file, image, acked, late>> /\ torn' \in BOOLEAN
    BY <1>8 DEF Kill
  <2> QED BY <1>t, <2>1, <2>2, GoneTypes DEF TypeInv, TypeOK
<1>9. CASE UNCHANGED vars
  <2>1. TypeOK'
    BY <1>t, <1>9 DEF TypeOK, vars, procVars, histVars
  <2>2. WaitersCalled' /\ HandlesGiven'
    BY <1>t, <1>9 DEF WaitersCalled, HandlesGiven, Resuming, vars, procVars, histVars
  <2> QED BY <2>1, <2>2 DEF TypeInv
<1>10. ASSUME NEW s \in Server, ServerStep(s) PROVE TypeInv'
  <2>1. ASSUME BootGoesOn(s) PROVE TypeInv'
    BY <1>4, <2>1 DEF BootGoesOn
  <2>2. ASSUME NEW q \in Query, Answer(s, q) PROVE TypeInv'
    BY <1>4, <2>2 DEF Answer
  <2> QED
    BY <1>1, <1>2, <1>3, <1>5, <1>6, <1>7, <1>8, <1>10, <2>1, <2>2 DEF ServerStep
<1> QED
  BY <1>9, <1>10 DEF Next

(* Types, for every server, call and database: a database is one that was  *)
(* opened, and no call waits twice for the sql.js module.                  *)
THEOREM TypeCorrect == Spec => []TypeOK
<1>1. TypeInv => TypeOK
  BY DEF TypeInv
<1> QED BY <1>1, TypeInit, TypeNext, PTL DEF Spec

-----------------------------------------------------------------------------
(* One server, with the file to itself.                                    *)
Alone == \A s, t \in Server : s = t

(* A server that is off has no call, and no database open.                 *)
OffHoldsNothing(s) ==
    s \notin running => /\ sqlDb[s] = NULL /\ waiting[s] = <<>>
                        /\ writing[s] = NULL /\ Resuming(s) = {}

(* During a write: every first call has opened its database, and the bytes *)
(* under way are the rows of the one in use.                               *)
WriteFits(s) ==
    writing[s] # NULL => /\ sqlDb[s] # NULL /\ waiting[s] = <<>>
                         /\ writing[s] = image[sqlDb[s]]

(* Between two writes: what is in use is what is stored.                   *)
FileFits(s) == writing[s] = NULL /\ sqlDb[s] # NULL => image[sqlDb[s]] = Stored

(* Who waits for a continuation of its own did not find a database open.   *)
WaitersEarly(s) == \A i \in 1 .. Len(waiting[s]) : waiting[s][i] \notin late

(* A late call got the newest database: no continuation waits behind it to *)
(* put another in its place.                                               *)
LateUseNewest(s) ==
    \A c \in Resuming(s) \cap late : waiting[s] = <<>> /\ handle[c] = sqlDb[s]

(* The late rows are in the database in use and, between two writes, in    *)
(* the file.  A row or a query is called for once.                         *)
LateKept(s) ==
    ~torn => /\ sqlDb[s] # NULL => acked \cap late \subseteq image[sqlDb[s]]
             /\ writing[s] = NULL => acked \cap late \subseteq Stored

CalledFirst == \A c \in acked \cup late : at[c] # NULL

ServerOK(s) ==
    /\ OffHoldsNothing(s) /\ WriteFits(s) /\ FileFits(s)
    /\ WaitersEarly(s) /\ LateUseNewest(s) /\ LateKept(s)

StoreInv == CalledFirst /\ \A s \in Server : ServerOK(s)

(* The invariant of the store holds at first.                              *)
LEMMA StoreInit == Init => StoreInv
BY NullDiffers
   DEF Init, StoreInv, CalledFirst, ServerOK, OffHoldsNothing, WriteFits, FileFits,
       WaitersEarly, LateUseNewest, LateKept, Resuming, Stored

(* When the server goes, nothing of it stays.                              *)
LEMMA GoneOK ==
    ASSUME TypeInv, NEW s \in Server, Gone(s), UNCHANGED at
    PROVE  /\ sqlDb'[s] = NULL /\ waiting'[s] = <<>> /\ writing'[s] = NULL
           /\ Resuming(s)' = {}
BY DEF TypeInv, TypeOK, Gone, Resuming

(* Every step of a server that has the file to itself keeps it.            *)
LEMMA StoreNext == Alone /\ TypeInv /\ StoreInv /\ [Next]_vars => StoreInv'
<1> SUFFICES ASSUME Alone, TypeInv, StoreInv, [Next]_vars PROVE StoreInv'
  OBVIOUS
<1> USE NullDiffers
<1>t. TypeOK /\ WaitersCalled /\ HandlesGiven /\ CalledFirst
  BY DEF TypeInv, StoreInv
<1>a. \A s \in Server : ServerOK(s)
  BY DEF StoreInv
<1>g. ASSUME NEW s \in Server, ServerOK(s)', CalledFirst' PROVE StoreInv'
  BY <1>g DEF Alone, StoreInv
<1>1. ASSUME NEW s \in Server, Start(s) PROVE StoreInv'
  <2>1. OffHoldsNothing(s) /\ LateKept(s)
    BY <1>a DEF ServerOK
  <2>2. sqlDb[s] = NULL /\ writing[s] = NULL /\ Resuming(s) = {}
    BY <1>1, <2>1 DEF OffHoldsNothing, Start
  <2>3. /\ s \in running'
        /\ UNCHANGED <<file, sqlDb, image, at, handle, writing, acked, late, torn>>
    BY <1>1 DEF Start, histVars
  <2>4. Resuming(s)' = {}
    BY <2>2, <2>3 DEF Resuming
  <2>5. OffHoldsNothing(s)' /\ WriteFits(s)' /\ FileFits(s)' /\ LateUseNewest(s)'
    BY <2>2, <2>3, <2>4 DEF OffHoldsNothing, WriteFits, FileFits, LateUseNewest
  <2>6. LateKept(s)' /\ CalledFirst'
    BY <1>t, <2>1, <2>3 DEF LateKept, CalledFirst, Stored
  <2>7. WaitersEarly(s)'
    <3>1. waiting'[s] = <<s>> /\ late' = late /\ s \notin late
      BY <1>t, <1>1, <2>3 DEF Start, TypeOK
    <3> QED BY <3>1 DEF WaitersEarly
  <2> QED BY <1>g, <2>5, <2>6, <2>7 DEF ServerOK
<1>2. ASSUME NEW s \in Server, NEW c \in Client, CallGetDb(s, c) PROVE StoreInv'
  <2>1. WriteFits(s) /\ FileFits(s) /\ WaitersEarly(s) /\ LateKept(s)
    BY <1>a DEF ServerOK
  <2>2. /\ s \in running /\ writing[s] = NULL /\ Resuming(s) = {}
        /\ waiting[s] # <<>> => sqlDb[s] = NULL
        /\ at[c] = NULL
    BY <1>2 DEF CallGetDb, Quiet
  <2>3. UNCHANGED <<file, sqlDb, image, writing, running, acked, torn>>
    BY <1>2 DEF CallGetDb
  <2>4. \A d \in Client : at'[d] = IF d = c THEN s ELSE at[d]
    BY <1>t, <1>2 DEF CallGetDb, TypeOK
  <2>5. c \notin acked
    BY <1>t, <2>2 DEF CalledFirst
  <2>6. late' \subseteq late \cup {c} /\ late \subseteq late'
    BY <1>2 DEF CallGetDb
  <2>7. OffHoldsNothing(s)' /\ WriteFits(s)' /\ FileFits(s)'
    BY <2>1, <2>2, <2>3 DEF OffHoldsNothing, WriteFits, FileFits, Stored
  <2>8. LateUseNewest(s)'
    <3>1. CASE sqlDb[s] = NULL
      <4>1. handle' = handle /\ late' = late /\ handle[c] = NULL
        BY <1>t, <1>2, <2>2, <3>1 DEF CallGetDb, HandlesGiven
      <4>2. Resuming(s)' = {}
        BY <2>2, <2>4, <4>1 DEF Resuming
      <4> QED BY <4>2 DEF LateUseNewest
    <3>2. CASE sqlDb[s] # NULL
      <4>1. waiting' = waiting /\ waiting[s] = <<>>
        BY <1>2, <2>2, <3>2 DEF CallGetDb
      <4>2. \A d \in Caller : handle'[d] = IF d = c THEN sqlDb[s] ELSE handle[d]
        BY <1>t, <1>2, <3>2 DEF CallGetDb, TypeOK
      <4>3. \A d \in Resuming(s)' : d = c
        BY <2>2, <2>4, <4>2 DEF Resuming
      <4> QED BY <2>3, <4>1, <4>2, <4>3 DEF LateUseNewest
    <3> QED BY <3>1, <3>2
  <2>9. LateKept(s)'
    <3>1. acked' \cap late' = acked \cap late
      BY <2>3, <2>5, <2>6
    <3> QED BY <2>1, <2>3, <3>1 DEF LateKept, Stored
  <2>10. CalledFirst'
    <3>1. \A d \in acked' \cup late' : d \in Client /\ (d = c \/ at[d] # NULL)
      BY <1>t, <2>3, <2>6 DEF CalledFirst, TypeOK
    <3> QED BY <2>4, <3>1 DEF CalledFirst
  <2>11. WaitersEarly(s)'
    <3>1. waiting[s] \in Seq(Caller)
      BY <1>t DEF TypeOK
    <3>2. CASE sqlDb[s] = NULL
      <4>1. waiting'[s] = Append(waiting[s], c) /\ late' = late /\ c \notin late
        BY <1>t, <1>2, <2>2, <3>2 DEF CallGetDb, CalledFirst, TypeOK
      <4> QED BY <2>1, <3>1, <4>1 DEF WaitersEarly
    <3>3. CASE sqlDb[s] # NULL
      <4>1. waiting'[s] = <<>>
        BY <1>2, <2>2, <3>3 DEF CallGetDb
      <4> QED BY <4>1 DEF WaitersEarly
    <3> QED BY <3>2, <3>3
  <2> QED BY <1>g, <2>11, <2>7, <2>8, <2>9, <2>10 DEF ServerOK
<1>3. ASSUME NEW s \in Server, OpenNext(s) PROVE StoreInv'
  <2> DEFINE c == Head(waiting[s])
  <2>1. WaitersEarly(s) /\ LateUseNewest(s) /\ LateKept(s)
    BY <1>a DEF ServerOK
  <2>2. /\ s \in running /\ writing[s] = NULL /\ waiting[s] # <<>>
        /\ image' = [image EXCEPT ![c] = Stored] /\ sqlDb' = [sqlDb EXCEPT ![s] = c]
        /\ handle' = [handle EXCEPT ![c] = c]
        /\ UNCHANGED <<file, at, writing, running, acked, late, torn>>
    BY <1>3 DEF OpenNext, Opens, histVars
  <2>3. waiting[s] \in Seq(Caller) /\ IsInjective(waiting[s])
    BY <1>t DEF TypeOK
  <2>4. c \in Caller
    BY <2>2, <2>3, Left
  <2> HIDE DEF c
  <2>5. sqlDb'[s] = c /\ image'[c] = Stored /\ c # NULL
    BY <1>t, <2>2, <2>4 DEF TypeOK
  <2>6. OffHoldsNothing(s)' /\ WriteFits(s)' /\ FileFits(s)'
    BY <2>2, <2>5 DEF OffHoldsNothing, WriteFits, FileFits, Stored
  <2>7. LateKept(s)' /\ CalledFirst'
    BY <1>t, <2>1, <2>2, <2>5 DEF LateKept, Stored, CalledFirst
  <2>8. LateUseNewest(s)'
    <3>1. c \notin late
      BY <2>1, <2>2, <2>3, Left DEF WaitersEarly, c
    <3>2. \A d \in Caller : d # c => handle'[d] = handle[d]
      BY <1>t, <2>2 DEF TypeOK
    <3>3. Resuming(s)' \cap late' = {}
      BY <2>1, <2>2, <3>1, <3>2 DEF LateUseNewest, Resuming
    <3> QED BY <3>3 DEF LateUseNewest
  <2>9. WaitersEarly(s)'
    <3>1. waiting'[s] = Tail(waiting[s]) /\ late' = late
      BY <1>t, <1>3 DEF OpenNext, TypeOK, histVars
    <3> QED BY <2>1, <2>2, <2>3, <3>1, Left DEF WaitersEarly
  <2> QED BY <1>g, <2>6, <2>7, <2>8, <2>9 DEF ServerOK
<1>4. ASSUME NEW s \in Server, NEW c \in Caller, Resumes(s, c),
             handle' = [handle EXCEPT ![c] = NULL],
             UNCHANGED <<file, sqlDb, image, waiting, at, writing, running, histVars>>
      PROVE  StoreInv'
  <2>1. OffHoldsNothing(s) /\ WriteFits(s) /\ FileFits(s) /\ WaitersEarly(s)
        /\ LateUseNewest(s) /\ LateKept(s)
    BY <1>a DEF ServerOK
  <2>2. \A d \in Caller : handle'[d] = IF d = c THEN NULL ELSE handle[d]
    BY <1>t, <1>4 DEF TypeOK
  <2>3. UNCHANGED <<file, sqlDb, image, waiting, at, writing, running, acked, late, torn>>
    BY <1>4 DEF histVars
  <2>4. Resuming(s)' \subseteq Resuming(s) /\ \A d \in Resuming(s)' : handle'[d] = handle[d]
    BY <2>2, <2>3 DEF Resuming
  <2>5. /\ OffHoldsNothing(s)' /\ WriteFits(s)' /\ FileFits(s)'
        /\ WaitersEarly(s)' /\ LateKept(s)' /\ CalledFirst'
    BY <1>t, <2>1, <2>3, <2>4
       DEF OffHoldsNothing, WriteFits, FileFits, WaitersEarly, LateKept, Stored, CalledFirst
  <2>6. LateUseNewest(s)'
    BY <2>1, <2>3, <2>4 DEF LateUseNewest
  <2> QED BY <1>g, <2>5, <2>6 DEF ServerOK
<1>5. ASSUME NEW s \in Server, NEW r \in Row, Exec(s, r) PROVE StoreInv'
  <2>1. OffHoldsNothing(s) /\ WaitersEarly(s) /\ LateUseNewest(s) /\ LateKept(s)
    BY <1>a DEF ServerOK
  <2>2. /\ s \in running /\ waiting[s] = <<>> /\ r \in Resuming(s)
        /\ UNCHANGED <<sqlDb, waiting, at, handle, running, acked, late, torn>>
    BY <1>5 DEF Exec, Resumes, histVars
  <2>3. sqlDb[s] \in Caller /\ sqlDb[s] # NULL /\ handle[r] \in Caller
    BY <1>t, <2>2 DEF HandlesGiven, TypeOK, Resuming
  <2>4. image' = [image EXCEPT ![handle[r]] = @ \cup {r}]
    BY <1>5 DEF Exec
  <2>5. image[sqlDb[s]] \subseteq image'[sqlDb[s]] /\ image'[sqlDb[s]] \in SUBSET Row
    BY <1>t, <2>3, <2>4 DEF TypeOK
  <2>6. writing'[s] = image'[sqlDb[s]] /\ writing'[s] # NULL
    <3>1. writing' = [writing EXCEPT ![s] = image'[sqlDb[s]]]
      BY <1>5 DEF Exec, Saved
    <3> QED BY <1>t, <2>5, <3>1 DEF TypeOK
  <2>7. /\ OffHoldsNothing(s)' /\ WriteFits(s)' /\ FileFits(s)'
        /\ WaitersEarly(s)' /\ CalledFirst'
    BY <1>t, <2>1, <2>2, <2>3, <2>6
       DEF OffHoldsNothing, WriteFits, FileFits, WaitersEarly, CalledFirst
  <2>8. LateUseNewest(s)'
    BY <2>1, <2>2 DEF LateUseNewest, Resuming
  <2>9. LateKept(s)'
    BY <2>1, <2>2, <2>3, <2>5, <2>6 DEF LateKept
  <2> QED BY <1>g, <2>7, <2>8, <2>9 DEF ServerOK
<1>6. ASSUME NEW s \in Server, NEW r \in Row, ExecWritten(s, r) PROVE StoreInv'
  <2>1. OffHoldsNothing(s) /\ WriteFits(s) /\ WaitersEarly(s)
        /\ LateUseNewest(s) /\ LateKept(s)
    BY <1>a DEF ServerOK
  <2>2. /\ writing[s] # NULL /\ r \in Resuming(s) /\ r \in image[handle[r]]
        /\ file' = writing[s] /\ acked' = acked \cup {r}
        /\ UNCHANGED <<sqlDb, image, waiting, at, running, late, torn>>
    BY <1>6 DEF ExecWritten
  <2>3. /\ writing'[s] = NULL
        /\ \A d \in Caller : handle'[d] = IF d = r THEN NULL ELSE handle[d]
    BY <1>t, <1>6 DEF ExecWritten, TypeOK
  <2>4. Resuming(s)' \subseteq Resuming(s) /\ \A d \in Resuming(s)' : handle'[d] = handle[d]
    BY <2>2, <2>3 DEF Resuming
  <2>5. writing[s] = image[sqlDb[s]] /\ sqlDb[s] # NULL /\ Stored' = image[sqlDb[s]]
    <3>1. writing[s] = image[sqlDb[s]] /\ sqlDb[s] # NULL
      BY <2>1, <2>2 DEF WriteFits
    <3>2. Stored' = writing[s]
      BY <2>2 DEF Stored
    <3> QED BY <3>1, <3>2
  <2>6. /\ OffHoldsNothing(s)' /\ WriteFits(s)' /\ FileFits(s)' /\ WaitersEarly(s)'
    BY <2>1, <2>2, <2>3, <2>4, <2>5 DEF OffHoldsNothing, WriteFits, FileFits, WaitersEarly
  <2>7. LateUseNewest(s)'
    BY <2>1, <2>2, <2>4 DEF LateUseNewest
  <2>8. LateKept(s)'
    <3>1. r \in late => handle[r] = sqlDb[s]
      BY <2>1, <2>2 DEF LateUseNewest
    <3> QED BY <2>1, <2>2, <2>5, <3>1 DEF LateKept
  <2>9. CalledFirst'
    <3>1. at[r] # NULL
      BY <1>t, <2>2 DEF Resuming, HandlesGiven
    <3> QED BY <1>t, <2>2, <3>1 DEF CalledFirst
  <2> QED BY <1>g, <2>6, <2>7, <2>8, <2>9 DEF ServerOK
<1>7. ASSUME NEW s \in Server, Gone(s), UNCHANGED <<image, at, acked, late>>,
             LateKept(s)'
      PROVE  StoreInv'
  <2>1. /\ sqlDb'[s] = NULL /\ waiting'[s] = <<>> /\ writing'[s] = NULL
        /\ Resuming(s)' = {}
    BY <1>7, GoneOK
  <2>2. OffHoldsNothing(s)' /\ WriteFits(s)' /\ FileFits(s)' /\ LateUseNewest(s)'
    BY <2>1 DEF OffHoldsNothing, WriteFits, FileFits, LateUseNewest
  <2>3. WaitersEarly(s)' /\ CalledFirst'
    BY <1>t, <1>7, <2>1 DEF WaitersEarly, CalledFirst
  <2> QED BY <1>g, <1>7, <2>2, <2>3 DEF ServerOK
<1>8. ASSUME NEW s \in Server, Exit(s) PROVE StoreInv'
  <2>1. LateKept(s) /\ writing[s] = NULL
    BY <1>a, <1>8 DEF ServerOK, Exit, Quiet
  <2>2. /\ Gone(s) /\ UNCHANGED <<image, at, acked, late, torn>>
        /\ file' = IF sqlDb[s] = NULL THEN file ELSE image[sqlDb[s]]
    BY <1>8 DEF Exit, histVars
  <2>3. sqlDb'[s] = NULL
    BY <2>2, GoneOK
  <2>4. Stored' = IF sqlDb[s] = NULL THEN Stored ELSE image[sqlDb[s]]
    <3>1. sqlDb[s] # NULL => image[sqlDb[s]] # NULL
      BY <1>t DEF TypeOK
    <3> QED BY <2>2, <3>1 DEF Stored
  <2>5. LateKept(s)'
    BY <2>1, <2>2, <2>3, <2>4 DEF LateKept
  <2> QED BY <1>7, <2>2, <2>5
<1>9. ASSUME NEW s \in Server, Kill(s) PROVE StoreInv'
  <2>1. Gone(s) /\ UNCHANGED <<image, at, acked, late>> /\ torn' = TRUE
    BY <1>9 DEF Kill
  <2>2. LateKept(s)'
    BY <2>1 DEF LateKept
  <2> QED BY <1>7, <2>1, <2>2
<1>10. CASE UNCHANGED vars
  <2>1. \A s \in Server : ServerOK(s)'
    BY <1>a, <1>10
       DEF ServerOK, OffHoldsNothing, WriteFits, FileFits, WaitersEarly, LateUseNewest,
           LateKept, Resuming, Stored, vars, procVars, histVars
  <2> QED BY <1>t, <1>10, <2>1 DEF StoreInv, CalledFirst, vars, procVars, histVars
<1>11. ASSUME NEW s \in Server, ServerStep(s) PROVE StoreInv'
  <2>1. ASSUME BootGoesOn(s) PROVE StoreInv'
    BY <1>4, <2>1 DEF BootGoesOn
  <2>2. ASSUME NEW q \in Query, Answer(s, q) PROVE StoreInv'
    BY <1>4, <2>2 DEF Answer
  <2> QED
    BY <1>1, <1>2, <1>3, <1>5, <1>6, <1>8, <1>9, <1>11, <2>1, <2>2 DEF ServerStep
<1> QED
  BY <1>10, <1>11 DEF Next

(* So it always holds.                                                     *)
LEMMA StoreAlways == Alone => (Spec => [](TypeInv /\ StoreInv))
<1> SUFFICES ASSUME Alone PROVE Spec => [](TypeInv /\ StoreInv)
  OBVIOUS
<1>1. Init => TypeInv /\ StoreInv
  BY TypeInit, StoreInit
<1>2. TypeInv /\ StoreInv /\ [Next]_vars => (TypeInv /\ StoreInv)'
  BY TypeNext, StoreNext
<1> QED BY <1>1, <1>2, PTL DEF Spec

(* What a server answers from is what its next start will load, between    *)
(* two writes, whatever calls raced while sql.js was loading.              *)
THEOREM FileAgreesWithImage == Alone => (Spec => []StoreCoherent)
<1> SUFFICES ASSUME Alone PROVE Spec => []StoreCoherent
  OBVIOUS
<1>1. StoreInv => StoreCoherent
  BY DEF StoreInv, ServerOK, FileFits, StoreCoherent, AllWritten
<1> QED BY <1>1, StoreAlways, PTL

(* No row is lost whose db_exec found a database open, as long as no kill  *)
(* has left the file truncated.  It takes a server: with none, no row.     *)
THEOREM NoLateRowLost == Alone => (Spec => []LateRowsStored)
<1> SUFFICES ASSUME Alone PROVE Spec => []LateRowsStored
  OBVIOUS
<1>1. TypeInv /\ StoreInv => LateRowsStored
  <2> SUFFICES ASSUME TypeInv, StoreInv, AllWritten, ~torn, NEW r \in acked \cap late
               PROVE  r \in Stored
    BY DEF LateRowsStored
  <2>1. PICK s \in Server : TRUE
    BY NullDiffers DEF TypeInv, TypeOK, StoreInv, CalledFirst
  <2> QED BY <2>1 DEF StoreInv, ServerOK, LateKept, AllWritten
<1> QED BY <1>1, StoreAlways, PTL

(* A query that finds a database open is answered with every such row.     *)
THEOREM LateQueryComplete == Alone => (Spec => LateQueriesSeeRows)
<1> SUFFICES ASSUME Alone PROVE Spec => LateQueriesSeeRows
  OBVIOUS
<1> DEFINE Seen == \A s \in Server, q \in Query \cap late :
                     Answer(s, q) /\ ~torn => acked \cap late \subseteq image[handle[q]]
<1>1. TypeInv /\ StoreInv => Seen
  <2> SUFFICES ASSUME TypeInv, StoreInv, NEW s \in Server, NEW q \in Query \cap late,
                      Answer(s, q), ~torn
               PROVE  acked \cap late \subseteq image[handle[q]]
    OBVIOUS
  <2>1. q \in Resuming(s)
    BY DEF Answer, Resumes
  <2>2. handle[q] = sqlDb[s] /\ sqlDb[s] # NULL
    BY <2>1 DEF StoreInv, ServerOK, LateUseNewest, TypeInv, HandlesGiven
  <2> QED BY <2>2 DEF StoreInv, ServerOK, LateKept
<1>2. TypeInv /\ StoreInv /\ [Next]_vars => [Seen]_vars
  BY <1>1
<1> QED BY <1>2, StoreAlways, PTL DEF Spec, LateQueriesSeeRows
=============================================================================
