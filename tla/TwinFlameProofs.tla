--------------------------- MODULE TwinFlameProofs ---------------------------
(***************************************************************************)
(* Proofs about TwinFlame, for any questions, hashes, windows and bounds:  *)
(* what the two probes call drift, stable and ok agrees with what the      *)
(* chain in the memory of the server has recorded.                         *)
(***************************************************************************)
EXTENDS TwinFlame, WellFoundedInduction, TLAPS

(* The least element of a nonempty set of numbers: what FindNewest takes.  *)
LEMMA MinOK ==
    ASSUME NEW S \in SUBSET Nat, S # {}
    PROVE  Min(S) \in S /\ \A y \in S : Min(S) <= y
<1> DEFINE R == OpToRel(<, Nat)
<1>1. \A x, y \in Nat : x < y => <<x, y>> \in R
  BY DEF OpToRel
<1>2. IsWellFoundedOn(R, Nat)
  BY NatLessThanWellFounded
<1> HIDE DEF R
<1>3. PICK x \in S : \A y \in S : ~ (<<y, x>> \in R)
  BY <1>2, WFMin
<1>4. \A y \in S : ~ (y < x)
  BY <1>1, <1>3
<1>5. \A y \in S : x <= y
  BY <1>4
<1>6. QED
  BY <1>5 DEF Min

(* FindNewest finds the first hit of the window, when there is one.        *)
Finds(seq, limit, hits, found) ==
    \/ /\ found = NULL
       /\ \A i \in 1 .. Len(seq) : i <= limit => seq[i] \notin hits
    \/ \E i \in 1 .. Len(seq) :
          /\ i <= limit /\ seq[i] \in hits /\ found = seq[i]
          /\ \A j \in 1 .. Len(seq) : j < i => seq[j] \notin hits

(* What the search of the newest entries finds, by the shortest prefix for *)
(* which it would be wrong.                                                *)
LEMMA FindNewestOK ==
    ASSUME NEW seq \in Seq(Probe), NEW limit \in Nat, NEW hits
    PROVE  Finds(seq, limit, hits, FindNewest(seq, limit, hits))
<1> DEFINE at == {i \in 1 .. Len(seq) : i <= limit /\ seq[i] \in hits}
<1>1. CASE at = {}
  BY <1>1 DEF FindNewest, Finds
<1>2. CASE at # {}
  <2>1. at \in SUBSET Nat
    OBVIOUS
  <2>2. Min(at) \in at /\ \A j \in at : Min(at) <= j
    BY <1>2, <2>1, MinOK
  <2>3. \A j \in 1 .. Len(seq) : j < Min(at) => seq[j] \notin hits
    BY <2>2
  <2>4. FindNewest(seq, limit, hits) = seq[Min(at)]
    BY <1>2 DEF FindNewest
  <2>5. QED
    BY <2>2, <2>3, <2>4 DEF Finds
<1>3. QED
  BY <1>1, <1>2

-----------------------------------------------------------------------------
(* The types.                                                              *)

(* The probes branch and the evals branch are the branches.                *)
LEMMA BranchesDiffer ==
    /\ Branch = {"twin_flame_probes", "twin_flame_evals"}
    /\ Room["twin_flame_probes"] = MaxProbes /\ Room["twin_flame_evals"] = MaxEvals
    /\ Room \in [Branch -> Nat]
BY TwinFlameConstantsOK DEF Branch, Room

(* What a branch holds.                                                    *)
Held(b) == IF b = "twin_flame_probes" THEN Probe ELSE Eval

(* What the chains of a memory are, branch by branch.                      *)
LEMMA ChainsIs ==
    ASSUME NEW c
    PROVE  c \in Chains <=>
             /\ c \in [Branch -> {NULL} \cup Seq(Probe) \cup Seq(Eval)]
             /\ \A b \in Branch : c[b] # NULL => c[b] \in Seq(Held(b)) /\ Len(c[b]) <= Room[b]
BY BranchesDiffer DEF Chains, Held

(* The entries of a branch are of the kind it holds.                       *)
LEMMA EntriesOK ==
    ASSUME TypeOK, NEW s \in Server, NEW b \in Branch
    PROVE  Entries(s, b) \in Seq(Held(b))
BY ChainsIs DEF TypeOK, Entries

(* The probes a server has are probes.                                     *)
LEMMA ProbesOK ==
    ASSUME TypeOK, NEW s \in Server
    PROVE  Probes(s) \in Seq(Probe)
BY EntriesOK, BranchesDiffer DEF Probes, Held

(* A save leaves chains in the file.                                       *)
LEMMA SavesOK ==
    ASSUME NEW mine \in Chains, file \in Chains, Saves(mine)
    PROVE  file' \in Chains
BY ChainsIs DEF Saves

(* A tool that appends adds its entry on top of one branch in the memory   *)
(* of its server, and nothing else.                                        *)
LEMMA AppendsOK ==
    ASSUME TypeOK, NEW s \in Server, NEW b \in Branch, NEW e \in Held(b), Appends(s, b, e)
    PROVE  /\ chain' \in [Server -> Chains] /\ file' \in Chains
           /\ Entries(s, b)' = <<e>> \o Entries(s, b)
           /\ \A t \in Server, c \in Branch : 
                 t # s \/ c # b => Entries(t, c)' = Entries(t, c)
<1> DEFINE new == <<e>> \o Entries(s, b)
<1>1. Entries(s, b) \in Seq(Held(b)) /\ Len(Entries(s, b)) < Room[b]
  BY EntriesOK DEF Appends
<1>2. new \in Seq(Held(b)) /\ Len(new) <= Room[b]
  BY <1>1, BranchesDiffer
<1>3. new \in Seq(Probe) \cup Seq(Eval) /\ new # NULL
  BY <1>2, NullOK DEF Held
<1>4. chain' = [chain EXCEPT ![s][b] = new]
  BY DEF Appends
<1> HIDE DEF new
<1>5. /\ chain'[s] = [chain[s] EXCEPT ![b] = new]
      /\ \A t \in Server : t # s => chain'[t] = chain[t]
  BY <1>4 DEF TypeOK
<1>6. chain[s] \in Chains
  BY DEF TypeOK
<1>7. chain'[s] \in Chains
  BY <1>2, <1>3, <1>5, <1>6, ChainsIs
<1>8. chain'[s][b] = new /\ \A c \in Branch : c # b => chain'[s][c] = chain[s][c]
  BY <1>5, <1>6, ChainsIs
<1>9. chain' \in [Server -> Chains]
  BY <1>4, <1>5, <1>7 DEF TypeOK
<1>10. file' \in Chains
  BY <1>7, SavesOK DEF Appends, TypeOK
<1>11. Entries(s, b)' = new
  BY <1>3, <1>8 DEF Entries
<1>12. \A t \in Server, c \in Branch : t # s \/ c # b => Entries(t, c)' = Entries(t, c)
  BY <1>5, <1>8 DEF Entries
<1>13. QED
  BY <1>9, <1>10, <1>11, <1>12 DEF new

(* A tool that creates its branch leaves the entries of all as they are.   *)
LEMMA OpensOK ==
    ASSUME TypeOK, NEW s \in Server, NEW b \in Branch, Opens(s, b)
    PROVE  /\ chain' \in [Server -> Chains] /\ file' \in Chains
           /\ \A t \in Server, c \in Branch : Entries(t, c)' = Entries(t, c)
<1>1. CASE chain[s][b] # NULL
  BY <1>1 DEF Opens, ledgerVars, TypeOK, Entries
<1>2. CASE chain[s][b] = NULL
  <2> DEFINE new == <<>>
  <2>1. chain' = [chain EXCEPT ![s][b] = new] /\ Saves(chain'[s])
    BY <1>2 DEF Opens
  <2>2. new \in Seq(Held(b)) /\ new \in Seq(Probe) /\ new # NULL /\ Len(new) <= Room[b]
    <3>1. new \in Seq(Held(b)) /\ new \in Seq(Probe) /\ Len(new) = 0
      OBVIOUS
    <3>2. Room[b] \in Nat
      BY BranchesDiffer
    <3> HIDE DEF new
    <3>3. new # NULL
      BY <3>1, NullOK
    <3>4. Len(new) <= Room[b]
      BY <3>1, <3>2
    <3>5. QED
      BY <3>1, <3>3, <3>4
  <2>3. Entries(s, b) = new
    BY <1>2 DEF Entries
  <2> HIDE DEF new
  <2>4. /\ chain'[s] = [chain[s] EXCEPT ![b] = new]
        /\ \A t \in Server : t # s => chain'[t] = chain[t]
    BY <2>1 DEF TypeOK
  <2>5. chain[s] \in Chains
    BY DEF TypeOK
  <2>6. chain'[s] \in Chains
    BY <2>4, <2>5, <2>2, ChainsIs
  <2>7. chain' \in [Server -> Chains]
    BY <2>1, <2>4, <2>6 DEF TypeOK
  <2>8. file' \in Chains
    BY <2>1, <2>6, SavesOK DEF TypeOK
  <2>9. chain'[s][b] = new /\ \A c \in Branch : c # b => chain'[s][c] = chain[s][c]
    BY <2>4, <2>5, ChainsIs
  <2>10. \A t \in Server, c \in Branch : Entries(t, c)' = Entries(t, c)
    BY <2>2, <2>3, <2>4, <2>9 DEF Entries
  <2>11. QED
    BY <2>7, <2>8, <2>10
<1>3. QED
  BY <1>1, <1>2

(* The entries the tools append are entries of their branch.               *)
LEMMA EntryOK ==
    ASSUME NEW h \in Hash
    PROVE  /\ \A q \in Question, question \in Question \cup {NULL} :
                 Entry("baseline", "A", q, question, h) \in Probe
           /\ \A q \in Question : Entry("check", "A", q, ABSENT, h) \in Probe
           /\ \A q \in Asked : /\ Entry("baseline", "B", NULL, q, h) \in Probe
                              /\ DriftEntry(q, h) \in Probe
BY TwinFlameConstantsOK DEF Entry, DriftEntry, Probe, Server

(* A probe records the hash of one question of its server.                 *)
LEMMA RecordsOK ==
    ASSUME TypeOK, NEW s \in Server, NEW q \in Question \cup {ABSENT}, NEW h \in Hash,
           Records(s, q, h)
    PROVE  /\ last' \in [Server -> [Question \cup {ABSENT} -> Hash \cup {NULL}]]
           /\ \A r : r # q => last'[s][r] = last[s][r]
           /\ last'[s][q] = h
           /\ \A t \in Server : t # s => last'[t] = last[t]
<1> DEFINE D == Question \cup {ABSENT}
           R == Hash \cup {NULL}
<1>1. last \in [Server -> [D -> R]] /\ q \in D /\ h \in R
  BY DEF TypeOK
<1>2. last' = [last EXCEPT ![s] = [last[s] EXCEPT ![q] = h]]
  BY DEF Records
<1> HIDE DEF D, R
<1>3. last[s] \in [D -> R] /\ [last[s] EXCEPT ![q] = h] \in [D -> R]
  BY <1>1
<1>4. QED
  BY <1>1, <1>2, <1>3 DEF D, R

(* The types hold at first.                                                *)
LEMMA InitType == Init => TypeOK
<1> SUFFICES ASSUME Init PROVE TypeOK
  OBVIOUS
<1>1. [b \in Branch |-> NULL] \in Chains
  BY ChainsIs
<1>2. QED
  BY <1>1 DEF Init, TypeOK

(* Every step keeps them.                                                  *)
LEMMA StepType == TypeOK /\ [Next]_vars => TypeOK'
<1> SUFFICES ASSUME TypeOK, [Next]_vars PROVE TypeOK'
  OBVIOUS
<1> USE DEF histVars
<1> DEFINE probes == "twin_flame_probes"
<1>1. ASSUME NEW s \in Server, LlmQuery(s) \/ SelfHeal(s) PROVE TypeOK'
  <2>1. file' \in Chains /\ UNCHANGED <<up, chain, verdict, last, flagged>>
    BY <1>1, SavesOK DEF LlmQuery, SelfHeal, TypeOK
  <2>2. QED
    BY <2>1 DEF TypeOK
<1>2. ASSUME NEW s \in Server, Stop(s) PROVE TypeOK'
  BY <1>2 DEF Stop, TypeOK, ledgerVars
<1>3. ASSUME NEW s \in Server, Start(s) PROVE TypeOK'
  BY <1>3 DEF Start, TypeOK
<1>4. ASSUME NEW s \in Server, LogEval(s) PROVE TypeOK'
  <2>1. PICK c \in Conf : Appends(s, "twin_flame_evals", [by |-> s, conf |-> c])
    BY <1>4 DEF LogEval
  <2>2. [by |-> s, conf |-> c] \in Held("twin_flame_evals") /\ "twin_flame_evals" \in Branch
    BY BranchesDiffer DEF Held, Eval
  <2>3. chain' \in [Server -> Chains] /\ file' \in Chains
    BY <2>1, <2>2, AppendsOK
  <2>4. QED
    BY <1>4, <2>3 DEF LogEval, TypeOK
<1>5. ASSUME NEW s \in Server, Divergence(s) PROVE TypeOK'
  BY <1>5 DEF Divergence, Diverged, TypeOK, ledgerVars
<1>6. probes \in Branch /\ Held(probes) = Probe /\ "A" \in Server /\ "B" \in Server
  BY BranchesDiffer DEF Held, Server
<1>7. ASSUME NEW q \in Question, QueryA(q) PROVE TypeOK'
  <2>1. chain' \in [Server -> Chains] /\ file' \in Chains
    BY <1>6, <1>7, OpensOK DEF QueryA
  <2>2. QED
    BY <1>7, <2>1 DEF QueryA, Says, TypeOK
<1>8. ASSUME NEW q \in Question, NEW h \in Hash, SetBaseline(q, h) PROVE TypeOK'
  <2>1. PICK question \in {q, NULL} :
          Appends("A", probes, Entry("baseline", "A", q, question, h))
    BY <1>8 DEF SetBaseline
  <2>2. chain' \in [Server -> Chains] /\ file' \in Chains
    BY <1>6, <2>1, AppendsOK, EntryOK
  <2>3. QED
    BY <1>6, <1>8, <2>2 DEF SetBaseline, Says, Records, TypeOK
<1>9. ASSUME NEW q \in Question, NEW h \in Hash, CompareA(q, h) PROVE TypeOK'
  <2>1. chain' \in [Server -> Chains] /\ file' \in Chains
    <3>1. CASE Opens("A", probes)
      BY <1>6, <3>1, OpensOK
    <3>2. CASE Appends("A", probes, Entry("check", "A", q, ABSENT, h))
      BY <1>6, <3>2, AppendsOK, EntryOK
    <3>3. QED
      BY <1>9, <3>1, <3>2 DEF CompareA
  <2>2. verdict' \in [says : {"stored", "none", "known", "stable", "drift", "ok"}]
    BY <1>9 DEF CompareA, Says
  <2>3. last' \in [Server -> [Question \cup {ABSENT} -> Hash \cup {NULL}]]
    BY <1>6, <1>9, RecordsOK DEF CompareA, TypeOK
  <2>4. QED
    BY <1>9, <2>1, <2>2, <2>3 DEF CompareA, TypeOK
<1>10. ASSUME NEW q \in Asked, NEW h \in Hash, ProbeB(q, h) PROVE TypeOK'
  <2>1. chain' \in [Server -> Chains] /\ file' \in Chains
    <3>1. CASE UNCHANGED ledgerVars
      BY <3>1 DEF ledgerVars, TypeOK
    <3>2. CASE Appends("B", probes, Entry("baseline", "B", NULL, q, h))
      BY <1>6, <3>2, AppendsOK, EntryOK
    <3>3. CASE Appends("B", probes, DriftEntry(q, h))
      BY <1>6, <3>3, AppendsOK, EntryOK
    <3>4. QED
      BY <1>10, <3>1, <3>2, <3>3 DEF ProbeB
  <2>2. verdict' \in [says : {"stored", "none", "known", "stable", "drift", "ok"}]
    BY <1>10 DEF ProbeB, Says
  <2>3. last' \in [Server -> [Question \cup {ABSENT} -> Hash \cup {NULL}]]
    <3>1. last' = last \/ Records("B", q, h)
      BY <1>10 DEF ProbeB
    <3>2. q \in Question \cup {ABSENT}
      BY TwinFlameConstantsOK
    <3>3. QED
      BY <1>6, <3>1, <3>2, RecordsOK DEF TypeOK
  <2>4. flagged' \subseteq Asked /\ up' = up
    BY <1>10 DEF ProbeB, TypeOK
  <2>5. QED
    BY <2>1, <2>2, <2>3, <2>4 DEF TypeOK
<1>11. CASE UNCHANGED vars
  BY <1>11 DEF vars, ledgerVars, TypeOK
<1>12. QED
  BY <1>1, <1>2, <1>3, <1>4, <1>5, <1>7, <1>8, <1>9, <1>10, <1>11 DEF Next

(* The chains in memory and in the file hold entries of their branch and   *)
(* are as long as their bound at most, whatever order the tools of both    *)
(* servers, their stops and starts come in.                                *)
THEOREM TypeCorrect == Spec => []TypeOK
<1>1. QED
  BY InitType, StepType, PTL DEF Spec

-----------------------------------------------------------------------------
(* What the chain in memory keeps of the last probe: the newest entry of   *)
(* question_id q, or of question q, holds h.  After a drift of B that is   *)
(* the entry which no answer matches.                                      *)
TopA(seq, q, h) ==
    \E i \in 1 .. Len(seq) :
        /\ seq[i].id = q /\ seq[i].hash = h
        /\ \A j \in 1 .. Len(seq) : j < i => seq[j].id # q
TopB(seq, q, h) ==
    \E i \in 1 .. Len(seq) :
        /\ seq[i].question = q /\ seq[i].hash = h
        /\ \A j \in 1 .. Len(seq) : j < i => seq[j].question # q

LastOnTop  == \A q \in Question : last["A"][q] # NULL => TopA(Probes("A"), q, last["A"][q])
BaseOnTop ==
    \A q \in Asked : last["B"][q] # NULL =>
        \/ TopB(Probes("B"), q, last["B"][q])
        \/ q \in flagged /\ TopB(Probes("B"), q, NULL)
Inv == TypeOK /\ LastOnTop /\ BaseOnTop

(* An entry of another question changes neither; one of the question is    *)
(* the newest of it.                                                       *)
LEMMA OnTop ==
    ASSUME NEW seq \in Seq(Probe), NEW e \in Probe
    PROVE  /\ TopA(<<e>> \o seq, e.id, e.hash)
           /\ TopB(<<e>> \o seq, e.question, e.hash)
           /\ \A q, h : TopA(seq, q, h) /\ e.id # q => TopA(<<e>> \o seq, q, h)
           /\ \A q, h : TopB(seq, q, h) /\ e.question # q => TopB(<<e>> \o seq, q, h)
<1> DEFINE new == <<e>> \o seq
<1>1. /\ Len(new) = Len(seq) + 1 /\ new[1] = e
      /\ \A i \in 1 .. Len(seq) : new[i + 1] = seq[i]
      /\ \A j \in 2 .. Len(new) : j - 1 \in 1 .. Len(seq) /\ new[j] = seq[j - 1]
  OBVIOUS
<1> HIDE DEF new
<1>2. TopA(new, e.id, e.hash) /\ TopB(new, e.question, e.hash)
  BY <1>1 DEF TopA, TopB
<1>3. ASSUME NEW q, NEW h, TopA(seq, q, h), e.id # q PROVE TopA(new, q, h)
  <2>1. PICK i \in 1 .. Len(seq) :
          /\ seq[i].id = q /\ seq[i].hash = h
          /\ \A j \in 1 .. Len(seq) : j < i => seq[j].id # q
    BY <1>3 DEF TopA
  <2>2. i + 1 \in 1 .. Len(new) /\ new[i + 1].id = q /\ new[i + 1].hash = h
    BY <1>1, <2>1
  <2>3. ASSUME NEW j \in 1 .. Len(new), j < i + 1 PROVE new[j].id # q
    BY <1>1, <1>3, <2>1, <2>3
  <2>4. QED
    BY <2>2, <2>3 DEF TopA
<1>4. ASSUME NEW q, NEW h, TopB(seq, q, h), e.question # q PROVE TopB(new, q, h)
  <2>1. PICK i \in 1 .. Len(seq) :
          /\ seq[i].question = q /\ seq[i].hash = h
          /\ \A j \in 1 .. Len(seq) : j < i => seq[j].question # q
    BY <1>4 DEF TopB
  <2>2. i + 1 \in 1 .. Len(new) /\ new[i + 1].question = q /\ new[i + 1].hash = h
    BY <1>1, <2>1
  <2>3. ASSUME NEW j \in 1 .. Len(new), j < i + 1 PROVE new[j].question # q
    BY <1>1, <1>4, <2>1, <2>3
  <2>4. QED
    BY <2>2, <2>3 DEF TopB
<1>5. QED
  BY <1>2, <1>3, <1>4 DEF new

(* What the probes find, then, is what the last probe recorded, unless it  *)
(* is out of the window.                                                   *)
LEMMA KnownToAOK ==
    ASSUME TypeOK, LastOnTop, NEW q \in Question, last["A"][q] # NULL
    PROVE  IF KnownToA(q) = NULL THEN Len(Probes("A")) > Recent["A"]
           ELSE KnownToA(q).hash = last["A"][q]
<1> DEFINE seq  == Probes("A")
           hits == {e \in ToSet(seq) : e.id = q}
<1>1. seq \in Seq(Probe) /\ Recent["A"] \in Nat
  BY ProbesOK, TwinFlameConstantsOK DEF Server
<1>2. \A i \in 1 .. Len(seq) : seq[i] \in hits <=> seq[i].id = q
  BY <1>1 DEF ToSet
<1>3. PICK i \in 1 .. Len(seq) :
         /\ seq[i].id = q /\ seq[i].hash = last["A"][q]
         /\ \A j \in 1 .. Len(seq) : j < i => seq[j].id # q
  BY DEF LastOnTop, TopA
<1>4. KnownToA(q) = FindNewest(seq, Recent["A"], hits)
  BY DEF KnownToA
<1>5. Len(seq) \in Nat /\ \A k \in 1 .. Len(seq) : seq[k] # NULL
  BY <1>1, NullOK
<1> HIDE DEF seq, hits
<1>6. Finds(seq, Recent["A"], hits, KnownToA(q))
  BY <1>1, <1>4, FindNewestOK
<1>7. CASE KnownToA(q) = NULL
  <2>1. ~ (i <= Recent["A"])
    BY <1>2, <1>3, <1>5, <1>6, <1>7 DEF Finds
  <2>2. QED
    BY <1>1, <1>5, <1>7, <2>1 DEF seq
<1>8. CASE KnownToA(q) # NULL
  <2>1. PICK k \in 1 .. Len(seq) :
           /\ seq[k] \in hits /\ KnownToA(q) = seq[k]
           /\ \A j \in 1 .. Len(seq) : j < k => seq[j] \notin hits
    BY <1>6, <1>8 DEF Finds
  <2>2. ~ (k < i) /\ ~ (i < k)
    BY <1>2, <1>3, <2>1
  <2>3. k = i
    BY <1>5, <2>2
  <2>4. QED
    BY <1>3, <1>8, <2>1, <2>3
<1>9. QED
  BY <1>7, <1>8

(* What B finds of a question it has stored a baseline of is that baseline *)
(* or, once it has logged a drift, an entry without a hash.                *)
LEMMA KnownToBOK ==
    ASSUME TypeOK, BaseOnTop, NEW q \in Asked, last["B"][q] # NULL
    PROVE  IF KnownToB(q) = NULL THEN Len(Probes("B")) > Recent["B"]
           ELSE \/ KnownToB(q).hash = last["B"][q]
                \/ q \in flagged /\ KnownToB(q).hash = NULL
<1> DEFINE seq  == Probes("B")
           hits == {e \in ToSet(seq) : e.question = q}
           base == last["B"][q]
<1>1. seq \in Seq(Probe) /\ Recent["B"] \in Nat
  BY ProbesOK, TwinFlameConstantsOK DEF Server
<1>2. \A i \in 1 .. Len(seq) : seq[i] \in hits <=> seq[i].question = q
  BY <1>1 DEF ToSet
<1>3. PICK h \in {base, NULL} : TopB(seq, q, h) /\ (h = base \/ q \in flagged)
  BY DEF BaseOnTop
<1>4. PICK i \in 1 .. Len(seq) :
         /\ seq[i].question = q /\ seq[i].hash = h
         /\ \A j \in 1 .. Len(seq) : j < i => seq[j].question # q
  BY <1>3 DEF TopB
<1>5. KnownToB(q) = FindNewest(seq, Recent["B"], hits)
  BY DEF KnownToB
<1>6. Len(seq) \in Nat /\ \A k \in 1 .. Len(seq) : seq[k] # NULL
  BY <1>1, NullOK
<1> HIDE DEF seq, hits
<1>7. Finds(seq, Recent["B"], hits, KnownToB(q))
  BY <1>1, <1>5, FindNewestOK
<1>8. CASE KnownToB(q) = NULL
  <2>1. ~ (i <= Recent["B"])
    BY <1>2, <1>4, <1>6, <1>7, <1>8 DEF Finds
  <2>2. QED
    BY <1>1, <1>6, <1>8, <2>1 DEF seq
<1>9. CASE KnownToB(q) # NULL
  <2>1. PICK k \in 1 .. Len(seq) :
           /\ seq[k] \in hits /\ KnownToB(q) = seq[k]
           /\ \A j \in 1 .. Len(seq) : j < k => seq[j] \notin hits
    BY <1>7, <1>9 DEF Finds
  <2>2. ~ (k < i) /\ ~ (i < k)
    BY <1>2, <1>4, <2>1
  <2>3. k = i
    BY <1>6, <2>2
  <2>4. QED
    BY <1>3, <1>4, <1>9, <2>1, <2>3
<1>10. QED
  BY <1>8, <1>9

(* The invariant of the newest entries holds at first.                     *)
LEMMA InitTop == Init => LastOnTop /\ BaseOnTop
BY TwinFlameConstantsOK DEF Init, LastOnTop, BaseOnTop, Server

(* A step that adds no probe and forgets no more than a start does.        *)
LEMMA SameTop ==
    ASSUME LastOnTop, BaseOnTop, Probes("A")' = Probes("A"), Probes("B")' = Probes("B"),
           UNCHANGED <<last, flagged>>
    PROVE  LastOnTop' /\ BaseOnTop'
BY DEF LastOnTop, BaseOnTop

(* A step that records h for q as the newest of its chain, or a drift.     *)
LEMMA RecordsTop ==
    ASSUME TypeOK, LastOnTop, BaseOnTop, NEW q \in Question, NEW h \in Hash, NEW e \in Probe,
           e.id = q, e.hash = h, Appends("A", "twin_flame_probes", e), Records("A", q, h),
           UNCHANGED flagged
    PROVE  LastOnTop' /\ BaseOnTop'
<1>1. /\ Probes("A")' = <<e>> \o Probes("A") /\ Probes("B")' = Probes("B")
      /\ Probes("A") \in Seq(Probe)
  BY AppendsOK, ProbesOK, BranchesDiffer DEF Held, Server, Probes
<1>2. /\ \A r \in Question : last'["A"][r] = IF r = q THEN h ELSE last["A"][r]
      /\ last'["B"] = last["B"]
  BY RecordsOK DEF Server
<1> DEFINE seq == Probes("A")
           new == <<e>> \o seq
<1>3. /\ TopA(new, e.id, e.hash)
      /\ \A r, g : TopA(seq, r, g) /\ e.id # r => TopA(new, r, g)
  BY <1>1, OnTop
<1> HIDE DEF seq, new
<1>4. Probes("A")' = new /\ Probes("A") = seq
  BY <1>1 DEF seq, new
<1>5. ASSUME NEW r \in Question, last'["A"][r] # NULL
      PROVE  TopA(Probes("A")', r, last'["A"][r])
  <2>1. CASE r = q
    BY <1>2, <1>3, <1>4, <2>1
  <2>2. CASE r # q
    <3>1. last'["A"][r] = last["A"][r]
      BY <1>2, <2>2
    <3>2. TopA(seq, r, last["A"][r])
      BY <1>4, <1>5, <3>1 DEF LastOnTop
    <3>3. QED
      BY <1>3, <1>4, <2>2, <3>1, <3>2
  <2>3. QED
    BY <2>1, <2>2
<1>6. BaseOnTop'
  BY <1>1, <1>2 DEF BaseOnTop
<1>7. QED
  BY <1>5, <1>6 DEF LastOnTop

(* Every step keeps it.                                                    *)
LEMMA StepTop == Inv /\ [Next]_vars => LastOnTop' /\ BaseOnTop'
<1> SUFFICES ASSUME Inv, [Next]_vars PROVE LastOnTop' /\ BaseOnTop'
  OBVIOUS
<1> USE DEF Inv, histVars
<1> DEFINE probes == "twin_flame_probes"
           Same   == \A t \in Server : Probes(t)' = Probes(t)
<1>0. /\ probes \in Branch /\ Held(probes) = Probe
      /\ Server = {"A", "B"} /\ Asked \subseteq Question \cup {ABSENT}
  BY BranchesDiffer, TwinFlameConstantsOK DEF Held, Server
<1>1. ASSUME NEW s \in Server, LlmQuery(s) \/ SelfHeal(s) PROVE LastOnTop' /\ BaseOnTop'
  BY <1>0, <1>1, SameTop DEF LlmQuery, SelfHeal, Probes, Entries
<1>2. ASSUME NEW s \in Server, Stop(s) PROVE LastOnTop' /\ BaseOnTop'
  BY <1>0, <1>2, SameTop DEF Stop, ledgerVars, Probes, Entries
<1>3. ASSUME NEW s \in Server, Start(s) PROVE LastOnTop' /\ BaseOnTop'
  <2>1. \A t \in Server : t # s => Probes(t)' = Probes(t)
    BY <1>3 DEF Start, TypeOK, Probes, Entries
  <2>2. \A q \in Question \cup {ABSENT} : last'[s][q] = NULL
    BY <1>3 DEF Start, TypeOK
  <2>3. \A t \in Server : t # s => last'[t] = last[t]
    BY <1>3 DEF Start, TypeOK
  <2>4. LastOnTop'
    BY <1>0, <2>1, <2>2, <2>3 DEF LastOnTop
  <2>5. s # "B" => flagged' = flagged
    BY <1>3 DEF Start
  <2>6. BaseOnTop'
    <3>1. CASE s = "B"
      BY <1>0, <2>2, <3>1 DEF BaseOnTop
    <3>2. CASE s # "B"
      BY <1>0, <2>1, <2>3, <2>5, <3>2 DEF BaseOnTop
    <3>3. QED
      BY <3>1, <3>2
  <2>7. QED
    BY <2>4, <2>6
<1>4. ASSUME NEW s \in Server, LogEval(s) PROVE LastOnTop' /\ BaseOnTop'
  <2>1. PICK c \in Conf : Appends(s, "twin_flame_evals", [by |-> s, conf |-> c])
    BY <1>4 DEF LogEval
  <2>2. /\ [by |-> s, conf |-> c] \in Held("twin_flame_evals")
        /\ "twin_flame_evals" \in Branch
    BY BranchesDiffer DEF Held, Eval
  <2>3. \A t \in Server, b \in Branch : b # "twin_flame_evals" => Entries(t, b)' = Entries(t, b)
    BY <2>1, <2>2, AppendsOK
  <2>4. Same
    BY <1>0, <2>3 DEF Probes
  <2>5. QED
    BY <1>0, <1>4, <2>4, SameTop DEF LogEval
<1>5. ASSUME NEW s \in Server, Divergence(s) PROVE LastOnTop' /\ BaseOnTop'
  BY <1>0, <1>5, SameTop DEF Divergence, ledgerVars, Probes, Entries
<1>6. ASSUME NEW s \in Server, Opens(s, probes) PROVE Same
  BY <1>0, <1>6, OpensOK DEF Probes
<1>7. ASSUME NEW q \in Question, QueryA(q) PROVE LastOnTop' /\ BaseOnTop'
  BY <1>0, <1>6, <1>7, SameTop DEF QueryA
<1>8. ASSUME NEW q \in Question, NEW h \in Hash, SetBaseline(q, h)
      PROVE  LastOnTop' /\ BaseOnTop'
  <2>1. PICK question \in {q, NULL} :
          Appends("A", probes, Entry("baseline", "A", q, question, h))
    BY <1>8 DEF SetBaseline
  <2> DEFINE e == Entry("baseline", "A", q, question, h)
  <2>2. e \in Probe /\ e.id = q /\ e.hash = h
    BY EntryOK DEF Entry
  <2>3. QED
    BY <1>8, <2>1, <2>2, RecordsTop DEF SetBaseline
<1>9. ASSUME NEW q \in Question, NEW h \in Hash, CompareA(q, h)
      PROVE  LastOnTop' /\ BaseOnTop'
  <2>1. CASE Opens("A", probes) /\ UNCHANGED last
    BY <1>0, <1>6, <1>9, <2>1, SameTop DEF CompareA
  <2>2. CASE Appends("A", probes, Entry("check", "A", q, ABSENT, h)) /\ Records("A", q, h)
    <3> DEFINE e == Entry("check", "A", q, ABSENT, h)
    <3>1. e \in Probe /\ e.id = q /\ e.hash = h
      BY EntryOK DEF Entry
    <3>2. QED
      BY <1>9, <2>2, <3>1, RecordsTop DEF CompareA
  <2>3. QED
    BY <1>9, <2>1, <2>2 DEF CompareA
<1>10. ASSUME NEW q \in Asked, NEW h \in Hash, ProbeB(q, h)
       PROVE  LastOnTop' /\ BaseOnTop'
  <2>1. CASE UNCHANGED <<ledgerVars, last, flagged>>
    BY <1>0, <2>1, SameTop DEF ledgerVars, Probes, Entries
  <2>2. ASSUME NEW e \in Probe, Appends("B", probes, e)
        PROVE  /\ Probes("B")' = <<e>> \o Probes("B") /\ Probes("A")' = Probes("A")
               /\ Probes("B") \in Seq(Probe)
    BY <1>0, <2>2, AppendsOK, ProbesOK DEF Probes
  <2>3. last'["A"] = last["A"]
    <3>1. q \in Question \cup {ABSENT}
      BY <1>0
    <3>2. QED
      BY <1>0, <1>10, <3>1, RecordsOK DEF ProbeB
  <2>4. CASE /\ Appends("B", probes, Entry("baseline", "B", NULL, q, h))
             /\ Records("B", q, h) /\ flagged' = flagged \ {q}
    <3> DEFINE e == Entry("baseline", "B", NULL, q, h)
    <3>1. e \in Probe /\ e.question = q /\ e.hash = h
      BY EntryOK DEF Entry
    <3> HIDE DEF e
    <3>2. /\ Probes("B")' = <<e>> \o Probes("B") /\ Probes("A")' = Probes("A")
          /\ Probes("B") \in Seq(Probe)
      BY <2>2, <2>4, <3>1 DEF e
    <3>3. \A r \in Asked : last'["B"][r] = IF r = q THEN h ELSE last["B"][r]
      BY <1>0, <2>4, RecordsOK
    <3>4. TopB(Probes("B")', q, h)
      BY <3>1, <3>2, OnTop
    <3>5. ASSUME NEW r \in Asked, r # q, NEW g, TopB(Probes("B"), r, g)
          PROVE  TopB(Probes("B")', r, g)
      BY <3>1, <3>2, <3>5, OnTop
    <3>6. BaseOnTop'
      BY <2>4, <3>3, <3>4, <3>5 DEF BaseOnTop
    <3>7. QED
      BY <2>3, <3>2, <3>6 DEF LastOnTop
  <2>5. CASE /\ Appends("B", probes, DriftEntry(q, h))
             /\ flagged' = flagged \cup {q} /\ UNCHANGED last
    <3> DEFINE e == DriftEntry(q, h)
    <3>1. e \in Probe /\ e.question = q /\ e.hash = NULL
      BY EntryOK DEF DriftEntry, Entry
    <3> HIDE DEF e
    <3>2. /\ Probes("B")' = <<e>> \o Probes("B") /\ Probes("A")' = Probes("A")
          /\ Probes("B") \in Seq(Probe)
      BY <2>2, <2>5, <3>1 DEF e
    <3>3. TopB(Probes("B")', q, NULL)
      BY <3>1, <3>2, OnTop
    <3>4. ASSUME NEW r \in Asked, r # q, NEW g, TopB(Probes("B"), r, g)
          PROVE  TopB(Probes("B")', r, g)
      BY <3>1, <3>2, <3>4, OnTop
    <3>5. BaseOnTop'
      BY <2>5, <3>3, <3>4 DEF BaseOnTop
    <3>6. QED
      BY <2>3, <3>2, <3>5 DEF LastOnTop
  <2>6. QED
    BY <1>10, <2>1, <2>4, <2>5 DEF ProbeB
<1>11. CASE UNCHANGED vars
  BY <1>0, <1>11, SameTop DEF vars, ledgerVars, Probes, Entries
<1>12. QED
  BY <1>1, <1>2, <1>3, <1>4, <1>5, <1>7, <1>8, <1>9, <1>10, <1>11 DEF Next

(* The inductive invariant: the types, and what the newest entries of the  *)
(* probe chains are.                                                       *)
THEOREM InvAlways == Spec => []Inv
<1>1. Init => Inv
  BY InitType, InitTop DEF Inv
<1>2. Inv /\ [Next]_vars => Inv'
  BY StepType, StepTop DEF Inv
<1>3. QED
  BY <1>1, <1>2, PTL DEF Spec

(* What server.js calls drift or stable is told by the hash its last probe *)
(* of the question recorded, for any window, any number of questions and   *)
(* whatever the peer writes; it may have forgotten that probe only when    *)
(* its window is full.                                                     *)
THEOREM DriftAlwaysChange == Spec => DriftIsChange
<1>1. ASSUME Inv, NEW q \in Question, NEW h \in Hash, CompareA(q, h), last["A"][q] # NULL
      PROVE  \/ verdict'.says = IF h = last["A"][q] THEN "stable" ELSE "drift"
             \/ verdict'.says = "none" /\ Len(Probes("A")) > Recent["A"]
  <2>1. IF KnownToA(q) = NULL THEN Len(Probes("A")) > Recent["A"]
        ELSE KnownToA(q).hash = last["A"][q]
    BY <1>1, KnownToAOK DEF Inv
  <2>2. CASE KnownToA(q) = NULL
    BY <1>1, <2>1, <2>2 DEF CompareA, Says
  <2>3. CASE KnownToA(q) # NULL
    BY <1>1, <2>1, <2>3 DEF CompareA, Says
  <2>4. QED
    BY <2>2, <2>3
<1> DEFINE Told == \A q \in Question, h \in Hash :
              CompareA(q, h) /\ last["A"][q] # NULL =>
                \/ verdict'.says = IF h = last["A"][q] THEN "stable" ELSE "drift"
                \/ verdict'.says = "none" /\ Len(Probes("A")) > Recent["A"]
<1>2. Inv /\ [Next]_vars => [Told]_vars
  BY <1>1
<1>3. QED
  BY <1>2, InvAlways, PTL DEF Spec, DriftIsChange

(* What server-dos.js calls ok, drift or new is told by the baseline it    *)
(* stored last and the drifts it has logged since, for any window, any     *)
(* questions, an absent one included, and whatever the peer writes.        *)
THEOREM BaselineAlwaysDecides == Spec => BaselineDecides
<1>1. ASSUME Inv, NEW q \in Asked, NEW h \in Hash, ProbeB(q, h), last["B"][q] # NULL
      PROVE  \/ verdict'.says = "ok" /\ h = last["B"][q]
             \/ verdict'.says = "drift" /\ (h # last["B"][q] \/ q \in flagged)
             \/ verdict'.says = "stored" /\ Len(Probes("B")) > Recent["B"]
  <2>1. IF KnownToB(q) = NULL THEN Len(Probes("B")) > Recent["B"]
        ELSE \/ KnownToB(q).hash = last["B"][q]
             \/ q \in flagged /\ KnownToB(q).hash = NULL
    BY <1>1, KnownToBOK DEF Inv
  <2>2. h # NULL
    BY TwinFlameConstantsOK
  <2>3. CASE KnownToB(q) = NULL
    BY <1>1, <2>1, <2>3 DEF ProbeB, Says
  <2>4. CASE KnownToB(q) # NULL
    BY <1>1, <2>1, <2>2, <2>4 DEF ProbeB, Says
  <2>5. QED
    BY <2>3, <2>4
<1> DEFINE Told == \A q \in Asked, h \in Hash :
              ProbeB(q, h) /\ last["B"][q] # NULL =>
                \/ verdict'.says = "ok" /\ h = last["B"][q]
                \/ verdict'.says = "drift" /\ (h # last["B"][q] \/ q \in flagged)
                \/ verdict'.says = "stored" /\ Len(Probes("B")) > Recent["B"]
<1>2. Inv /\ [Next]_vars => [Told]_vars
  BY <1>1
<1>3. QED
  BY <1>2, InvAlways, PTL DEF Spec, BaselineDecides
=============================================================================
