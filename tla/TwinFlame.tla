------------------------------ MODULE TwinFlame ------------------------------
(***************************************************************************)
(* The twin-flame tools: each server keeps, on two branches of the ledger, *)
(* the answers of the model to known questions and the confidence it had.  *)
(* A probe compares an answer with what the branch says of its question; a *)
(* divergence compares the confidences of the two servers.                 *)
(*                                                                         *)
(* server.js ("A") and server-dos.js ("B") have tools of one name and of   *)
(* different code.  Each works on the chains it has in memory; a save      *)
(* writes the tips of all its branches over those of the file, and only a  *)
(* start reads the file.  A chain is here the sequence of its entries,     *)
(* newest first, and NULL when there is no such branch; what lies below    *)
(* the point where the branch came off main is left out: no entry there is *)
(* a probe or an eval.  Main is taken to have an entry, so that a branch   *)
(* with no entry of its own has a tip, which saves write.                  *)
(***************************************************************************)
EXTENDS Naturals, Sequences, SequencesExt, FiniteSetsExt

CONSTANTS
    Question,
    Hash,       \* of the answers
    Conf,       \* the confidences evals may have; NULL counts as 5
    NULL,
    ABSENT,     \* the question of a probe or an entry that names none
    Asked,      \* what the callers of server-dos.js ask, ABSENT included or not
    Recent,     \* how far a probe looks: [A |-> 100, B |-> 50] in the code
    MaxProbes,  \* bound: entries of a probes branch
    MaxEvals    \* bound: entries of an evals branch

ASSUME TwinFlameConstantsOK ==
    /\ NULL \notin Question \cup Hash \cup {ABSENT} /\ ABSENT \notin Question
    /\ Asked \subseteq Question \cup {ABSENT}
    /\ Conf \subseteq 0 .. 10 \cup {NULL}
    /\ Recent \in [{"A", "B"} -> Nat \ {0}] /\ MaxProbes \in Nat /\ MaxEvals \in Nat

Server == {"A", "B"}
Branch == {"twin_flame_probes", "twin_flame_evals"}
Room == [b \in Branch |-> IF b = "twin_flame_probes" THEN MaxProbes ELSE MaxEvals]

(* An entry of the probes branch.  The tools of the two servers look for   *)
(* different fields: question_id or question, and answer_hash.  server.js  *)
(* writes a null for the question a baseline does not have, and no such    *)
(* field in its checks.                                                    *)
Probe ==
    {e \in [kind : {"baseline", "check", "drift"}, by : Server,
            id   : Question \cup {NULL}, question : Question \cup {ABSENT, NULL},
            hash : Hash \cup {NULL}] :
        /\ e.kind = "check" => e.question = ABSENT
        /\ e.kind = "drift" => e.hash = NULL}
Eval  == [by : Server, conf : Conf]

ASSUME NullOK == NULL \notin Probe /\ NULL \notin Seq(Probe) \cup Seq(Eval)

VARIABLES
    up,       \* the servers that run
    chain,    \* the branches in the memory of each server
    file,     \* the branches the tips of the ledger file lead to
    verdict,  \* the last answer of a tool, NULL before
    last,     \* per server and question: the hash its last probe recorded
    flagged   \* questions B has logged a drift of since it recorded that hash

ledgerVars == <<chain, file>>
histVars   == <<last, flagged>>
vars       == <<up, ledgerVars, verdict, histVars>>

Chains ==
    {c \in [Branch -> {NULL} \cup Seq(Probe) \cup Seq(Eval)] :
        /\ c["twin_flame_probes"] \in {NULL} \cup Seq(Probe)
        /\ c["twin_flame_evals"] \in {NULL} \cup Seq(Eval)
        /\ \A b \in Branch : c[b] # NULL => Len(c[b]) <= Room[b]}
TypeOK ==
    /\ up \subseteq Server
    /\ chain \in [Server -> Chains] /\ file \in Chains
    /\ verdict \in {NULL} \cup [says : {"stored", "none", "known", "stable", "drift", "ok"}]
                     \cup [seen : SUBSET Server, diverged : BOOLEAN]
    /\ last \in [Server -> [Question \cup {ABSENT} -> Hash \cup {NULL}]]
    /\ flagged \subseteq Asked

Init ==
    /\ up = Server
    /\ chain = [s \in Server |-> [b \in Branch |-> NULL]]
    /\ file = [b \in Branch |-> NULL]
    /\ verdict = NULL
    /\ last = [s \in Server |-> [q \in Question \cup {ABSENT} |-> NULL]]
    /\ flagged = {}

-----------------------------------------------------------------------------
(* The ledger.                                                             *)

(* erlSave: the tips of all branches this server has, those it has not     *)
(* touched included.                                                       *)
Saves(mine) == file' = [b \in Branch |-> IF mine[b] = NULL THEN file[b] ELSE mine[b]]

(* Every tool but the divergence first creates the branch it works on when *)
(* this server has none, whatever the file has by now.                     *)
Entries(s, b) == IF chain[s][b] = NULL THEN <<>> ELSE chain[s][b]
Opens(s, b) ==
    IF chain[s][b] = NULL
    THEN chain' = [chain EXCEPT ![s][b] = <<>>] /\ Saves(chain'[s])
    ELSE UNCHANGED ledgerVars

Appends(s, b, entry) ==
    /\ Len(Entries(s, b)) < Room[b]
    /\ chain' = [chain EXCEPT ![s][b] = <<entry>> \o Entries(s, b)]
    /\ Saves(chain'[s])

(* llm_query and self_heal append to session_context: the former when LM   *)
(* Studio has answered and the caller has not asked for no log, the latter *)
(* when a server does not take a connection.                               *)
LlmQuery(s) ==
    /\ s \in up
    /\ Saves(chain[s])
    /\ UNCHANGED <<up, chain, verdict, histVars>>

SelfHeal(s) ==
    /\ s \in up /\ up # Server
    /\ Saves(chain[s])
    /\ UNCHANGED <<up, chain, verdict, histVars>>

Stop(s) ==
    /\ s \in up
    /\ up' = up \ {s}
    /\ UNCHANGED <<ledgerVars, verdict, histVars>>

(* What a probe has recorded may be gone after a start: the file has the   *)
(* chain of the server that saved last.                                    *)
Start(s) ==
    /\ s \notin up
    /\ up' = up \cup {s}
    /\ chain' = [chain EXCEPT ![s] = file]
    /\ last' = [last EXCEPT ![s] = [q \in Question \cup {ABSENT} |-> NULL]]
    /\ flagged' = IF s = "B" THEN {} ELSE flagged
    /\ UNCHANGED <<file, verdict>>

-----------------------------------------------------------------------------
(* twin_flame_probe.                                                       *)

(* The newest of the recent entries that are among the given, or NULL.     *)
FindNewest(seq, limit, hits) ==
    LET at == {i \in 1 .. Len(seq) : i <= limit /\ seq[i] \in hits}
    IN IF at = {} THEN NULL ELSE seq[Min(at)]
FindOldest(seq, limit, hits) ==
    LET at == {i \in 1 .. Len(seq) : i <= limit /\ seq[i] \in hits}
    IN IF at = {} THEN NULL ELSE seq[Max(at)]

Probes(s) == Entries(s, "twin_flame_probes")

(* server.js looks for the question_id.  Its checks have one, too.         *)
KnownToAOldest(q) ==
    FindOldest(Probes("A"), Recent["A"], {e \in ToSet(Probes("A")) : e.id = q})
KnownToA(q) ==
    FindNewest(Probes("A"), Recent["A"], {e \in ToSet(Probes("A")) : e.id = q})

Entry(kind, s, id, question, h) ==
    [kind |-> kind, by |-> s, id |-> id, question |-> question, hash |-> h]
Says(what) == verdict' = [says |-> what]
Records(s, q, h) == last' = [last EXCEPT ![s][q] = h]

SetBaseline(q, h) ==
    /\ "A" \in up
    /\ \E question \in {q, NULL} :
          Appends("A", "twin_flame_probes", Entry("baseline", "A", q, question, h))
    /\ Says("stored") /\ Records("A", q, h)
    /\ UNCHANGED <<up, flagged>>

QueryA(q) ==
    /\ "A" \in up
    /\ Says(IF KnownToA(q) = NULL THEN "none" ELSE "known")
    /\ Opens("A", "twin_flame_probes")
    /\ UNCHANGED <<up, histVars>>

CompareA(q, h) ==
    /\ "A" \in up
    /\ LET known == KnownToA(q) IN
       \/ /\ known = NULL
          /\ Says("none") /\ Opens("A", "twin_flame_probes")
          /\ UNCHANGED last
       \/ /\ known # NULL
          /\ Appends("A", "twin_flame_probes", Entry("check", "A", q, ABSENT, h))
          /\ Says(IF known.hash = h THEN "stable" ELSE "drift")
          /\ Records("A", q, h)
    /\ UNCHANGED <<up, flagged>>

(* server-dos.js looks for the question; a probe that names none finds the *)
(* entries that have none, the checks of server.js among them.  The first  *)
(* answer is stored, and an answer that differs is logged under other      *)
(* names than answer_hash.                                                 *)
KnownToB(q) ==
    FindNewest(Probes("B"), Recent["B"], {e \in ToSet(Probes("B")) : e.question = q})

DriftEntryWithHash(q, h) == Entry("drift", "B", NULL, q, h)
DriftEntry(q, h) == Entry("drift", "B", NULL, q, NULL)

ProbeB(q, h) ==
    /\ "B" \in up
    /\ LET known == KnownToB(q) IN
       \/ /\ known = NULL
          /\ Appends("B", "twin_flame_probes", Entry("baseline", "B", NULL, q, h))
          /\ Says("stored") /\ Records("B", q, h)
          /\ flagged' = flagged \ {q}
       \/ /\ known # NULL /\ known.hash = h
          /\ Says("ok")
          /\ UNCHANGED <<ledgerVars, histVars>>
       \/ /\ known # NULL /\ known.hash # h
          /\ Appends("B", "twin_flame_probes", DriftEntry(q, h))
          /\ Says("drift")
          /\ flagged' = flagged \cup {q}
          /\ UNCHANGED last
    /\ UNCHANGED up

-----------------------------------------------------------------------------
(* twin_flame_eval and twin_flame_divergence.                              *)

LogEval(s) ==
    /\ s \in up
    /\ \E c \in Conf : Appends(s, "twin_flame_evals", [by |-> s, conf |-> c])
    /\ UNCHANGED <<up, verdict, histVars>>

(* The averages, as fractions.  (The code rounds them to hundredths, which *)
(* changes no comparison with 2 for averages of so few.)                   *)
EvalsOf(s, port) == SelectSeq(Entries(s, "twin_flame_evals"), LAMBDA e : e.by = port)
Total(evals) == FoldSeq(LAMBDA e, n : n + (IF e.conf = NULL THEN 5 ELSE e.conf), 0, evals)
Gap(m, n) == IF m > n THEN m - n ELSE n - m

Diverged(a, b) ==
    /\ a # <<>> /\ b # <<>>
    /\ Gap(Total(a) * Len(b), Total(b) * Len(a)) > 2 * Len(a) * Len(b)

Divergence(s) ==
    /\ s \in up
    /\ verdict' = [seen     |-> {p \in Server : EvalsOf(s, p) # <<>>},
                   diverged |-> Diverged(EvalsOf(s, "A"), EvalsOf(s, "B"))]
    /\ UNCHANGED <<up, ledgerVars, histVars>>

Next ==
    \/ \E s \in Server : \/ LlmQuery(s) \/ SelfHeal(s) \/ Stop(s) \/ Start(s)
                         \/ LogEval(s) \/ Divergence(s)
    \/ \E q \in Question : QueryA(q)
    \/ \E q \in Question, h \in Hash : SetBaseline(q, h) \/ CompareA(q, h)
    \/ \E q \in Asked, h \in Hash : ProbeB(q, h)

Spec == Init /\ [][Next]_vars

-----------------------------------------------------------------------------
(* Properties.                                                             *)

(* What server.js calls drift is a change: the answer differs from the one *)
(* its last probe of the question recorded, be it a baseline or a check,   *)
(* whatever the peer has written meanwhile; it knows of no probe only when *)
(* more entries than it looks at may lie on top of it. (twin_flame_probe)  *)
DriftIsChange ==
    [][\A q \in Question, h \in Hash :
          CompareA(q, h) /\ last["A"][q] # NULL =>
              \/ verdict'.says = IF h = last["A"][q] THEN "stable" ELSE "drift"
              \/ verdict'.says = "none" /\ Len(Probes("A")) > Recent["A"]]_vars

(* What server-dos.js calls ok equals the newest baseline of the question  *)
(* on its chain.  (twin_flame_probe)                                       *)
OkMeansBaseline ==
    [][\A q \in Question, h \in Hash :
          ProbeB(q, h) /\ verdict'.says = "ok" =>
              LET base == FindNewest(Probes("B"), MaxProbes,
                             {e \in ToSet(Probes("B")) : e.kind = "baseline" /\ e.question = q})
              IN base # NULL /\ base.hash = h]_vars

(* The answers of server-dos.js are told by the baseline it stored last:   *)
(* ok means its hash, drift means another or that a drift has been logged  *)
(* on top of it, and it is forgotten only behind more entries than a probe *)
(* looks at, whatever the peer has written meanwhile. (twin_flame_probe)   *)
BaselineDecides ==
    [][\A q \in Asked, h \in Hash :
          ProbeB(q, h) /\ last["B"][q] # NULL =>
              \/ verdict'.says = "ok" /\ h = last["B"][q]
              \/ verdict'.says = "drift" /\ (h # last["B"][q] \/ q \in flagged)
              \/ verdict'.says = "stored" /\ Len(Probes("B")) > Recent["B"]]_vars

(* "Hash mismatch = model drift": what server-dos.js calls drift differs   *)
(* from the newest baseline on its chain.  It does not hold: the entry of  *)
(* an earlier drift is found first.  (twin_flame_probe)                    *)
DriftMeansMismatch ==
    [][\A q \in Question, h \in Hash :
          ProbeB(q, h) /\ verdict'.says = "drift" =>
              LET base == FindNewest(Probes("B"), MaxProbes,
                             {e \in ToSet(Probes("B")) : e.kind = "baseline" /\ e.question = q})
              IN base = NULL \/ base.hash # h]_vars

(* "Stable - answer hash matches baseline": the baseline last set.  It     *)
(* does not hold.  (twin_flame_probe of server.js)                         *)
StableMeansBaseline ==
    [][\A q \in Question, h \in Hash :
          CompareA(q, h) /\ verdict'.says = "stable" =>
              LET base == FindNewest(Probes("A"), MaxProbes,
                             {e \in ToSet(Probes("A")) : e.kind = "baseline" /\ e.id = q})
              IN base = NULL \/ base.hash = h]_vars

(* "compare both ports' recent eval entries": a divergence sees the evals  *)
(* both servers have logged.  It does not hold: each has its own chain in  *)
(* memory.  (twin_flame_divergence)                                        *)
DivergenceSeesPeers ==
    [][\A s \in Server : Divergence(s) =>
          verdict'.seen = {p \in Server : \E t \in Server : EvalsOf(t, p) # <<>>}]_vars
=============================================================================
