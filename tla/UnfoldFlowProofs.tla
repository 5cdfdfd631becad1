-------------------------- MODULE UnfoldFlowProofs --------------------------
(***************************************************************************)
(* Proofs about UnfoldFlow, for any flows, tasks and files: the plans that *)
(* selectPassSequence makes; the log of a flow; and whose data the flow    *)
(* state and the files hold.                                               *)
(***************************************************************************)
EXTENDS UnfoldFlow, WellFoundedInduction, TLAPS

(* A sequence of passes ends with its only RESPOND, and does not convert   *)
(* what it has stored or recalled.                                         *)
GoodPasses(passes) ==
    /\ passes \in Seq(PASS) /\ Len(passes) \in 1 .. 5
    /\ \A i \in 1 .. Len(passes) : passes[i] = "RESPOND" <=> i = Len(passes)
    /\ \A i, j \in 1 .. Len(passes) :
          i < j /\ passes[i] \in {"STORE", "RECALL"} => passes[j] # "TRANSFORM"

(* ... and every pass has a hint.                                         *)
GoodPlan(p) == GoodPasses(p.passes) /\ Len(p.hints) = Len(p.passes)

(* The tables of selectPassSequence, row by row.                            *)
LEMMA FixedPasses ==
    /\ GoodPasses(<<"FETCH", "TRANSFORM", "TRANSFORM", "STORE", "RESPOND">>)
    /\ GoodPasses(<<"FETCH", "TRANSFORM", "STORE", "RESPOND">>)
    /\ GoodPasses(<<"FETCH", "CODE", "STORE", "RESPOND">>)
    /\ GoodPasses(<<"FETCH", "RESPOND">>)
    /\ GoodPasses(<<"CODE", "STORE", "RESPOND">>)
    /\ GoodPasses(<<"SHELL", "SHELL", "RESPOND">>)
    /\ GoodPasses(<<"SHELL", "RESPOND">>)
    /\ GoodPasses(<<"STORE", "RECALL", "RESPOND">>)
    /\ GoodPasses(<<"RECALL", "RESPOND">>)
    /\ GoodPasses(<<"RESPOND">>)
BY DEF GoodPasses, PASS

(* The passes of the strategies that choose some of them are in order.     *)
LEMMA OptionalPasses ==
    ASSUME NEW c \in BOOLEAN, NEW d \in BOOLEAN
    PROVE  /\ GoodPasses(<<"BROWSE">> \o Optional(c, "STORE") \o <<"RESPOND">>)
           /\ GoodPasses(<<"RECALL">> \o Optional(c, "CODE") \o <<"RESPOND">>)
           /\ GoodPasses(Optional(c, "FETCH") \o Optional(d, "SHELL") \o <<"NOTIFY", "RESPOND">>)
<1>1. GoodPasses(<<"BROWSE">> \o Optional(c, "STORE") \o <<"RESPOND">>)
  <2>1. CASE c
    BY <2>1 DEF GoodPasses, PASS, Optional
  <2>2. CASE ~c
    BY <2>2 DEF GoodPasses, PASS, Optional
  <2> QED BY <2>1, <2>2
<1>2. GoodPasses(<<"RECALL">> \o Optional(c, "CODE") \o <<"RESPOND">>)
  <2>1. CASE c
    BY <2>1 DEF GoodPasses, PASS, Optional
  <2>2. CASE ~c
    BY <2>2 DEF GoodPasses, PASS, Optional
  <2> QED BY <2>1, <2>2
<1>3. GoodPasses(Optional(c, "FETCH") \o Optional(d, "SHELL") \o <<"NOTIFY", "RESPOND">>)
  <2>1. CASE c /\ d
    BY <2>1 DEF GoodPasses, PASS, Optional
  <2>2. CASE c /\ ~d
    BY <2>2 DEF GoodPasses, PASS, Optional
  <2>3. CASE ~c /\ d
    BY <2>3 DEF GoodPasses, PASS, Optional
  <2>4. CASE ~c /\ ~d
    BY <2>4 DEF GoodPasses, PASS, Optional
  <2> QED BY <2>1, <2>2, <2>3, <2>4
<1> QED BY <1>1, <1>2, <1>3

(* The hints are as many as the passes, whatever is left out.              *)
LEMMA AsMany ==
    ASSUME NEW c \in BOOLEAN, NEW d \in BOOLEAN, NEW x, NEW y, NEW z, NEW w,
           NEW u, NEW v, NEW p, NEW q
    PROVE  /\ Len(<<x>> \o Optional(c, y) \o <<z>>) = Len(<<u>> \o Optional(c, v) \o <<w>>)
           /\ Len(Optional(c, x) \o Optional(d, y) \o <<z, w>>)
                = Len(Optional(c, u) \o Optional(d, v) \o <<p, q>>)
BY DEF Optional

(* Every row of the table is a plan, and the last one always applies.      *)
LEMMA StrategiesGood ==
    ASSUME NEW S
    PROVE  /\ DOMAIN Strategies(S) = 1 .. 13
           /\ \A i \in 1 .. 13 : GoodPlan(Strategies(S)[i])
           /\ Strategies(S)[13].when
<1> DEFINE R == Strategies(S)
           has(x) == x \in S
<1>1. DOMAIN R = 1 .. 13 /\ R[13].when
  BY DEF Strategies
<1>2. /\ R[1].passes = <<"FETCH", "TRANSFORM", "TRANSFORM", "STORE", "RESPOND">>
      /\ R[2].passes = <<"FETCH", "TRANSFORM", "STORE", "RESPOND">>
      /\ R[4].passes = <<"FETCH", "CODE", "STORE", "RESPOND">>
      /\ R[5].passes = <<"FETCH", "RESPOND">>
      /\ R[6].passes = <<"CODE", "STORE", "RESPOND">>
      /\ R[7].passes = <<"SHELL", "SHELL", "RESPOND">>
      /\ R[8].passes = <<"SHELL", "RESPOND">>
      /\ R[9].passes = <<"STORE", "RECALL", "RESPOND">>
      /\ R[11].passes = <<"RECALL", "RESPOND">>
      /\ R[13].passes = <<"RESPOND">>
  BY DEF Strategies
<1>3. /\ Len(R[1].hints) = 5 /\ Len(R[2].hints) = 4 /\ Len(R[4].hints) = 4
      /\ Len(R[5].hints) = 2 /\ Len(R[6].hints) = 3 /\ Len(R[7].hints) = 3
      /\ Len(R[8].hints) = 2 /\ Len(R[9].hints) = 3 /\ Len(R[11].hints) = 2
      /\ Len(R[13].hints) = 1
  BY DEF Strategies
<1>4. /\ R[3].passes = <<"BROWSE">> \o Optional(has("save"), "STORE") \o <<"RESPOND">>
      /\ R[3].hints = <<"playwright">> \o Optional(has("save"), "save") \o <<"summary">>
  BY DEF Strategies
<1>5. /\ R[10].passes = <<"RECALL">> \o Optional(has("code"), "CODE") \o <<"RESPOND">>
      /\ R[10].hints = <<"retrieve">> \o Optional(has("code"), "process") \o <<"respond">>
  BY DEF Strategies
<1>6. /\ R[12].passes = Optional(has("url"), "FETCH") \o Optional(has("shell"), "SHELL")
                          \o <<"NOTIFY", "RESPOND">>
      /\ R[12].hints = Optional(has("url"), "fetch") \o Optional(has("shell"), "shell")
                          \o <<"notify", "respond">>
  BY DEF Strategies
<1>7. \A x : has(x) \in BOOLEAN
  OBVIOUS
<1> HIDE DEF R, has
<1>8. GoodPlan(R[3]) /\ GoodPlan(R[10]) /\ GoodPlan(R[12])
  <2>1. GoodPlan(R[3])
    BY <1>4, <1>7, OptionalPasses, AsMany DEF GoodPlan
  <2>2. GoodPlan(R[10])
    BY <1>5, <1>7, OptionalPasses, AsMany DEF GoodPlan
  <2>3. GoodPlan(R[12])
    BY <1>6, <1>7, OptionalPasses, AsMany DEF GoodPlan
  <2> QED BY <2>1, <2>2, <2>3
<1>9. /\ GoodPlan(R[1]) /\ GoodPlan(R[2]) /\ GoodPlan(R[4]) /\ GoodPlan(R[5]) /\ GoodPlan(R[6])
      /\ GoodPlan(R[7]) /\ GoodPlan(R[8]) /\ GoodPlan(R[9]) /\ GoodPlan(R[11]) /\ GoodPlan(R[13])
  BY <1>2, <1>3, FixedPasses DEF GoodPlan
<1> QED BY <1>1, <1>8, <1>9 DEF R

(* A nonempty set of numbers has a least element.                          *)
LEMMA LeastOf ==
    ASSUME NEW T \in SUBSET Nat, T # {}
    PROVE  \E x \in T : \A y \in T : x <= y
<1> DEFINE R == OpToRel(<, Nat)
<1>1. \A x, y \in Nat : x < y => <<x, y>> \in R
  BY DEF OpToRel
<1>2. IsWellFoundedOn(R, Nat)
  BY NatLessThanWellFounded
<1> HIDE DEF R
<1>3. PICK x \in T : \A y \in T : ~ (<<y, x>> \in R)
  BY <1>2, WFMin
<1>4. \A y \in T : ~ (y < x)
  BY <1>1, <1>3
<1>5. \A y \in T : x <= y
  BY <1>4
<1> QED BY <1>5

(* Whatever signals a task has, its plan is a good one.                     *)
LEMMA PlanGood == ASSUME NEW S PROVE GoodPlan(selectPassSequence(S))
<1> DEFINE R == Strategies(S)
           T == {i \in 1 .. 13 : R[i].when}
<1>1. DOMAIN R = 1 .. 13 /\ R[13].when /\ \A i \in 1 .. 13 : GoodPlan(R[i])
  BY StrategiesGood
<1>2. selectPassSequence(S) =
         R[CHOOSE i \in DOMAIN R : R[i].when /\ \A j \in 1 .. i - 1 : ~R[j].when]
  BY Zenon DEF selectPassSequence
<1> HIDE DEF R
<1>3. PICK i \in T : \A j \in T : i <= j
  <2>1. 13 \in T /\ T \subseteq Nat
    BY <1>1
  <2> QED BY <2>1, LeastOf
<1>4. i \in DOMAIN R /\ R[i].when /\ \A j \in 1 .. i - 1 : ~R[j].when
  BY <1>1, <1>3
<1> DEFINE P(k) == R[k].when /\ \A j \in 1 .. k - 1 : ~R[j].when
<1>5. \E k \in DOMAIN R : P(k)
  BY <1>4
<1>6. (CHOOSE k \in DOMAIN R : P(k)) \in DOMAIN R
  <2> HIDE DEF P
  <2> QED BY <1>5
<1> QED BY <1>1, <1>2, <1>6

-----------------------------------------------------------------------------
(* The log.  A flow that runs has logged each pass before the next one,    *)
(* none of them a RESPOND or an error; only one that is about to respond   *)
(* has an error, as its last entry.                                        *)
Clean(e) == ~e.error /\ e.pass # "RESPOND"

LogFits(f) ==
    LET n == Len(log[f])
        rows == plan[f].passes
    IN /\ pc[f] = "idle" => log[f] = <<>> /\ next[f] = 1
       /\ pc[f] \in {"run", "code"} => /\ n = next[f] - 1 /\ next[f] \in 1 .. Len(rows)
                                       /\ \A i \in 1 .. n : Clean(log[f][i])
       /\ pc[f] = "code" => rows[next[f]] = "CODE"
       /\ pc[f] = "respond" => /\ n > 0 /\ log[f][n].error /\ log[f][n].pass # "RESPOND"
                               /\ \A i \in 1 .. n - 1 : Clean(log[f][i])
       /\ pc[f] = "done" => /\ n > 0 /\ ~log[f][n].error /\ log[f][n].pass = "RESPOND"
                            /\ \A i \in 1 .. n - 1 : log[f][i].pass # "RESPOND"
                            /\ \A i \in 1 .. n - 2 : ~log[f][i].error

Control ==
    /\ task \in [Flow -> Task \cup {NULL}]
    /\ plan = [f \in Flow |-> IF task[f] = NULL THEN NULL
                              ELSE selectPassSequence(task[f].signals)]
    /\ pc \in [Flow -> {"idle", "run", "code", "respond", "done"}]
    /\ next \in [Flow -> 1 .. 5]
    /\ log \in [Flow -> Seq([pass : PASS, error : BOOLEAN])]
    /\ \A f \in Flow : (pc[f] = "idle" <=> task[f] = NULL) /\ LogFits(f)

(* So a flow that has a task has a plan.                                   *)
LEMMA PlansGood ==
    ASSUME Control, NEW f \in Flow, task[f] # NULL
    PROVE  GoodPlan(plan[f])
BY PlanGood DEF Control

(* One entry more.                                                         *)
LEMMA Logs ==
    ASSUME Control, NEW f \in Flow, NEW pass \in PASS, NEW error \in BOOLEAN,
           Logged(f, pass, error)
    PROVE  /\ log' \in [Flow -> Seq([pass : PASS, error : BOOLEAN])]
           /\ Len(log'[f]) = Len(log[f]) + 1 /\ Len(log[f]) \in Nat
           /\ log'[f][Len(log[f]) + 1] = [pass |-> pass, error |-> error]
           /\ \A i \in 1 .. Len(log[f]) : log'[f][i] = log[f][i]
           /\ \A g \in Flow : g # f => log'[g] = log[g]
<1> DEFINE e == [pass |-> pass, error |-> error]
<1>1. e \in [pass : PASS, error : BOOLEAN]
  OBVIOUS
<1>2. log' = [log EXCEPT ![f] = Append(log[f], e)]
  BY DEF Logged
<1>3. log \in [Flow -> Seq([pass : PASS, error : BOOLEAN])]
  BY DEF Control
<1> HIDE DEF e
<1>4. log'[f] = Append(log[f], e) /\ log[f] \in Seq([pass : PASS, error : BOOLEAN])
  BY <1>2, <1>3
<1>5. /\ Append(log[f], e) \in Seq([pass : PASS, error : BOOLEAN])
      /\ Len(Append(log[f], e)) = Len(log[f]) + 1 /\ Len(log[f]) \in Nat
      /\ Append(log[f], e)[Len(log[f]) + 1] = e
      /\ \A i \in 1 .. Len(log[f]) : Append(log[f], e)[i] = log[f][i]
  BY <1>1, <1>4
<1> QED BY <1>2, <1>3, <1>4, <1>5 DEF e

(* The other flows are where they were.                                    *)
LEMMA OthersStay ==
    ASSUME Control, NEW f \in Flow, UNCHANGED <<task, plan>>,
           pc' \in [Flow -> {"idle", "run", "code", "respond", "done"}],
           next' \in [Flow -> 1 .. 5],
           log' \in [Flow -> Seq([pass : PASS, error : BOOLEAN])],
           \A g \in Flow : g # f => pc'[g] = pc[g] /\ next'[g] = next[g] /\ log'[g] = log[g],
           pc[f] # "idle", pc'[f] # "idle", LogFits(f)'
    PROVE  Control'
<1>1. ASSUME NEW g \in Flow PROVE (pc'[g] = "idle" <=> task'[g] = NULL) /\ LogFits(g)'
  <2>1. CASE g = f
    BY <2>1 DEF Control
  <2>2. CASE g # f
    <3>1. LogFits(g) /\ (pc[g] = "idle" <=> task[g] = NULL)
      BY DEF Control
    <3>2. pc'[g] = pc[g] /\ next'[g] = next[g] /\ log'[g] = log[g] /\ plan' = plan
      BY <2>2
    <3>3. LogFits(g)'
      BY <3>1, <3>2 DEF LogFits
    <3> QED BY <3>1, <3>2, <3>3
  <2> QED BY <2>1, <2>2
<1> QED BY <1>1 DEF Control

(* A pass without an error: there is a next one, for it is no RESPOND.     *)
LEMMA ResultControl ==
    ASSUME Control, NEW f \in Flow, NEW pass \in PASS \ {"RESPOND"}, Result(f, pass),
           At(f, pass) \/ (pc[f] = "code" /\ pass = "CODE")
    PROVE  /\ Control' /\ UNCHANGED <<task, plan>>
           /\ next'[f] = next[f] + 1 /\ pc'[f] = "run" /\ pc[f] # "idle"
           /\ plan[f].passes[next[f]] = pass
           /\ \A g \in Flow : g # f => pc'[g] = pc[g] /\ next'[g] = next[g]
<1>1. /\ Logged(f, pass, FALSE) /\ UNCHANGED <<task, plan>>
      /\ next' = [next EXCEPT ![f] = @ + 1] /\ pc' = [pc EXCEPT ![f] = "run"]
  BY DEF Result, Step
<1>2. /\ pc[f] \in {"run", "code"} /\ plan[f].passes[next[f]] = pass
  BY DEF At, Control, LogFits
<1>3. /\ Len(log[f]) = next[f] - 1 /\ next[f] \in 1 .. Len(plan[f].passes)
      /\ \A i \in 1 .. Len(log[f]) : Clean(log[f][i])
  BY <1>2 DEF Control, LogFits
<1>4. task[f] # NULL
  BY <1>2 DEF Control
<1>5. next[f] + 1 \in 1 .. Len(plan[f].passes) /\ next[f] + 1 \in 1 .. 5
  <2> DEFINE rows == plan[f].passes
             n == next[f]
  <2>1. /\ Len(rows) \in 1 .. 5
        /\ \A i \in 1 .. Len(rows) : rows[i] = "RESPOND" <=> i = Len(rows)
    BY <1>4, PlansGood DEF GoodPlan, GoodPasses
  <2>2. n \in 1 .. Len(rows) /\ rows[n] # "RESPOND"
    BY <1>2, <1>3
  <2> HIDE DEF rows, n
  <2>3. n + 1 \in 1 .. Len(rows) /\ n + 1 \in 1 .. 5
    BY <2>1, <2>2
  <2> QED BY <2>3 DEF rows, n
<1>6. /\ pc' \in [Flow -> {"idle", "run", "code", "respond", "done"}]
      /\ next' \in [Flow -> 1 .. 5] /\ next'[f] = next[f] + 1 /\ pc'[f] = "run"
      /\ \A g \in Flow : g # f => pc'[g] = pc[g] /\ next'[g] = next[g]
  BY <1>1, <1>5 DEF Control
<1>7. /\ log' \in [Flow -> Seq([pass : PASS, error : BOOLEAN])]
      /\ Len(log'[f]) = Len(log[f]) + 1 /\ Len(log[f]) \in Nat
      /\ log'[f][Len(log[f]) + 1] = [pass |-> pass, error |-> FALSE]
      /\ \A i \in 1 .. Len(log[f]) : log'[f][i] = log[f][i]
      /\ \A g \in Flow : g # f => log'[g] = log[g]
  BY <1>1, Logs
<1>8. \A i \in 1 .. Len(log'[f]) : Clean(log'[f][i])
  <2>1. Clean(log'[f][Len(log[f]) + 1])
    BY <1>7 DEF Clean
  <2>2. \A i \in 1 .. Len(log[f]) : Clean(log'[f][i])
    BY <1>3, <1>7
  <2>3. \A i \in 1 .. Len(log'[f]) : i \in 1 .. Len(log[f]) \/ i = Len(log[f]) + 1
    BY <1>7
  <2> QED BY <2>1, <2>2, <2>3
<1>9. LogFits(f)'
  BY <1>1, <1>3, <1>5, <1>6, <1>7, <1>8 DEF LogFits, Control
<1>10. Control'
  BY <1>1, <1>2, <1>6, <1>7, <1>9, OthersStay
<1> QED BY <1>1, <1>2, <1>6, <1>10

(* A pass with an error.                                                   *)
LEMMA FailsControl ==
    ASSUME Control, NEW f \in Flow, NEW pass \in PASS \ {"RESPOND"}, Fails(f, pass),
           At(f, pass)
    PROVE  Control' /\ \A g \in Flow : g # f => pc'[g] = pc[g]
<1>1. /\ Logged(f, pass, TRUE) /\ UNCHANGED <<task, plan, next>>
      /\ pc' = [pc EXCEPT ![f] = "respond"]
  BY DEF Fails
<1>2. /\ pc[f] = "run" /\ Len(log[f]) = next[f] - 1
      /\ \A i \in 1 .. Len(log[f]) : Clean(log[f][i])
  BY DEF At, Control, LogFits
<1>3. /\ pc' \in [Flow -> {"idle", "run", "code", "respond", "done"}]
      /\ pc'[f] = "respond" /\ \A g \in Flow : g # f => pc'[g] = pc[g]
  BY <1>1 DEF Control
<1>4. /\ log' \in [Flow -> Seq([pass : PASS, error : BOOLEAN])]
      /\ Len(log'[f]) = Len(log[f]) + 1 /\ Len(log[f]) \in Nat
      /\ log'[f][Len(log[f]) + 1] = [pass |-> pass, error |-> TRUE]
      /\ \A i \in 1 .. Len(log[f]) : log'[f][i] = log[f][i]
      /\ \A g \in Flow : g # f => log'[g] = log[g]
  BY <1>1, Logs
<1>5. LogFits(f)'
  BY <1>2, <1>3, <1>4 DEF LogFits
<1>6. next' \in [Flow -> 1 .. 5] /\ \A g \in Flow : next'[g] = next[g]
  BY <1>1 DEF Control
<1> QED BY <1>1, <1>2, <1>3, <1>4, <1>5, <1>6, OthersStay

(* The last pass.                                                          *)
LEMMA RespondControl ==
    ASSUME Control, NEW f \in Flow, Respond(f)
    PROVE  Control' /\ pc'[f] = "done" /\ \A g \in Flow : g # f => pc'[g] = pc[g]
<1>1. /\ Logged(f, "RESPOND", FALSE) /\ UNCHANGED <<task, plan, next>>
      /\ pc' = [pc EXCEPT ![f] = "done"] /\ pc[f] \in {"run", "respond"}
  BY DEF Respond, At
<1>2. \A i \in 1 .. Len(log[f]) : /\ log[f][i].pass # "RESPOND"
                                  /\ i <= Len(log[f]) - 1 => ~log[f][i].error
  BY <1>1 DEF Control, LogFits, Clean
<1>3. /\ pc' \in [Flow -> {"idle", "run", "code", "respond", "done"}]
      /\ pc'[f] = "done" /\ \A g \in Flow : g # f => pc'[g] = pc[g]
  BY <1>1 DEF Control
<1>4. /\ log' \in [Flow -> Seq([pass : PASS, error : BOOLEAN])]
      /\ Len(log'[f]) = Len(log[f]) + 1 /\ Len(log[f]) \in Nat
      /\ log'[f][Len(log[f]) + 1] = [pass |-> "RESPOND", error |-> FALSE]
      /\ \A i \in 1 .. Len(log[f]) : log'[f][i] = log[f][i]
      /\ \A g \in Flow : g # f => log'[g] = log[g]
  BY <1>1, Logs DEF PASS
<1>5. LogFits(f)'
  <2>0. Len(log'[f]) - 1 = Len(log[f])
    BY <1>4
  <2>1. ASSUME NEW i \in 1 .. Len(log'[f]) - 1 PROVE log'[f][i].pass # "RESPOND"
    <3>1. i \in 1 .. Len(log[f])
      BY <2>0
    <3>2. log'[f][i] = log[f][i]
      BY <1>4, <3>1
    <3>3. log[f][i].pass # "RESPOND"
      BY <1>2, <3>1
    <3> QED BY <3>2, <3>3
  <2>2. ASSUME NEW i \in 1 .. Len(log'[f]) - 2 PROVE ~log'[f][i].error
    <3>1. i \in 1 .. Len(log[f]) /\ i <= Len(log[f]) - 1
      BY <1>4
    <3>2. log'[f][i] = log[f][i]
      BY <1>4, <3>1
    <3>3. ~log[f][i].error
      BY <1>2, <3>1
    <3> QED BY <3>2, <3>3
  <2>3. /\ Len(log'[f]) > 0 /\ ~log'[f][Len(log'[f])].error
        /\ log'[f][Len(log'[f])].pass = "RESPOND"
    BY <1>4
  <2> QED BY <1>3, <2>1, <2>2, <2>3 DEF LogFits
<1>6. next' \in [Flow -> 1 .. 5] /\ \A g \in Flow : next'[g] = next[g]
  BY <1>1 DEF Control
<1> QED BY <1>1, <1>3, <1>4, <1>5, <1>6, OthersStay

(* The call of unfold.                                                     *)
LEMMA UnfoldControl ==
    ASSUME Control, NEW f \in Flow, Unfold(f)
    PROVE  /\ Control' /\ task[f] = NULL /\ task'[f] # NULL
           /\ \A g \in Flow : g # f => /\ pc'[g] = pc[g] /\ task'[g] = task[g]
                                       /\ plan'[g] = plan[g]
<1>1. PICK t \in Task : /\ task' = [task EXCEPT ![f] = t]
                        /\ plan' = [plan EXCEPT ![f] = selectPassSequence(t.signals)]
  BY DEF Unfold
<1>2. /\ pc[f] = "idle" /\ pc' = [pc EXCEPT ![f] = "run"] /\ UNCHANGED <<next, log>>
  BY DEF Unfold
<1>3. t # NULL
  BY UnfoldConstantsOK
<1>4. /\ log[f] = <<>> /\ next[f] = 1 /\ task[f] = NULL
  BY <1>2 DEF Control, LogFits
<1>5. GoodPlan(plan'[f]) /\ plan'[f] = selectPassSequence(t.signals)
  BY <1>1, PlanGood DEF Control
<1>6. plan' = [g \in Flow |-> IF task'[g] = NULL THEN NULL
                              ELSE selectPassSequence(task'[g].signals)]
  <2> DEFINE P(x) == selectPassSequence(x.signals)
  <2>1. /\ plan = [g \in Flow |-> IF task[g] = NULL THEN NULL ELSE P(task[g])]
        /\ plan' = [plan EXCEPT ![f] = P(t)] /\ task' = [task EXCEPT ![f] = t]
        /\ task \in [Flow -> Task \cup {NULL}]
    BY <1>1 DEF Control
  <2> HIDE DEF P
  <2>2. plan' = [g \in Flow |-> IF task'[g] = NULL THEN NULL ELSE P(task'[g])]
    BY <1>3, <2>1
  <2> QED BY <2>2 DEF P
<1>7. LogFits(f)'
  <2>1. next'[f] \in 1 .. Len(plan'[f].passes)
    <3>1. Len(plan'[f].passes) \in 1 .. 5
      BY <1>5 DEF GoodPlan, GoodPasses
    <3>2. next'[f] = 1
      BY <1>2, <1>4
    <3>3. \A k \in 1 .. 5 : 1 \in 1 .. k
      OBVIOUS
    <3> QED BY <3>1, <3>2, <3>3
  <2>2. Len(log'[f]) = 0 /\ next'[f] = 1 /\ pc'[f] = "run"
    BY <1>2, <1>4 DEF Control
  <2> QED BY <2>1, <2>2 DEF LogFits
<1>8. ASSUME NEW g \in Flow, g # f
      PROVE  /\ pc'[g] = pc[g] /\ task'[g] = task[g] /\ plan'[g] = plan[g]
             /\ (pc'[g] = "idle" <=> task'[g] = NULL) /\ LogFits(g)'
  <2>1. pc'[g] = pc[g] /\ task'[g] = task[g] /\ plan'[g] = plan[g] /\ next' = next /\ log' = log
    BY <1>1, <1>2, <1>8 DEF Control
  <2>2. LogFits(g) /\ (pc[g] = "idle" <=> task[g] = NULL)
    BY DEF Control
  <2> QED BY <2>1, <2>2 DEF LogFits
<1>9. task'[f] = t /\ pc'[f] = "run"
  BY <1>1, <1>2 DEF Control
<1>10. /\ task' \in [Flow -> Task \cup {NULL}] /\ next' \in [Flow -> 1 .. 5]
       /\ pc' \in [Flow -> {"idle", "run", "code", "respond", "done"}]
       /\ log' \in [Flow -> Seq([pass : PASS, error : BOOLEAN])]
  BY <1>1, <1>2 DEF Control
<1>11. \A g \in Flow : (pc'[g] = "idle" <=> task'[g] = NULL) /\ LogFits(g)'
  BY <1>3, <1>7, <1>8, <1>9
<1> QED BY <1>3, <1>4, <1>6, <1>8, <1>9, <1>10, <1>11 DEF Control

(* A CODE pass has written its script.                                     *)
LEMMA CodeControl ==
    ASSUME Control, NEW f \in Flow, At(f, "CODE"), pc' = [pc EXCEPT ![f] = "code"],
           UNCHANGED <<task, plan, next, log>>
    PROVE  Control' /\ pc'[f] = "code" /\ \A g \in Flow : g # f => pc'[g] = pc[g]
<1>1. /\ pc' \in [Flow -> {"idle", "run", "code", "respond", "done"}]
      /\ pc'[f] = "code" /\ \A g \in Flow : g # f => pc'[g] = pc[g]
  BY DEF Control
<1>2. pc[f] = "run" /\ plan[f].passes[next[f]] = "CODE"
  BY DEF At
<1>3. LogFits(f)
  BY DEF Control
<1>4. LogFits(f)'
  BY <1>1, <1>2, <1>3 DEF LogFits
<1>5. next' \in [Flow -> 1 .. 5] /\ log' \in [Flow -> Seq([pass : PASS, error : BOOLEAN])]
  BY DEF Control
<1> QED BY <1>1, <1>2, <1>4, <1>5, OthersStay

-----------------------------------------------------------------------------
(* The data.  Whose data the flow f may have: its own, or that of a flow   *)
(* that works on the same file; a task that names a path or recalls what   *)
(* is written for all may read what any has written; and scripts, notes    *)
(* and outputs of one name get anybody's.                                  *)
Exempt(f) == ReadsPath(f) \/ Lists(f)

MayHave(f, g) ==
    /\ g \in Flow /\ task[g] # NULL
    /\ \/ SameMs \/ f = g \/ Exempt(f)
       \/ task[f].file # NULL /\ task[f].file = task[g].file
MayHold(f, c) == \A g \in c.of : MayHave(f, g)

(* The path of the flow state: a file of the name the task gives or, when  *)
(* there is nothing left to convert, where the data was stored.            *)
MayBeAt(f, p) ==
    \/ p = NULL
    \/ task[f].file # NULL /\ \E e \in Ext : p = <<task[f].file, e>>
    \/ /\ \A i \in next[f] .. Len(plan[f].passes) : plan[f].passes[i] # "TRANSFORM"
       /\ \/ \E k \in {"note", "out"}, g \in Flow : p = <<k, g>> /\ (SameMs \/ g = f)
          \/ p = NAMED /\ ReadsPath(f)

ScriptFits(f) ==
    pc[f] = "code" => /\ script[f] \in Flow /\ task[script[f]] # NULL
                      /\ SameMs \/ script[f] = f

FlowFits(f) ==
    /\ pc[f] = "idle" => st[f].data = NULL /\ st[f].path = NULL
    /\ MayBeAt(f, st[f].path)
    /\ st[f].data # NULL => MayHold(f, st[f].data)
    /\ st[f].path # NULL =>
          files[st[f].path] # NULL \/ failed[f] \cap {"curl", "ffmpeg"} # {}

(* The files: one under a name is of a flow whose task gives that name, a  *)
(* flow's own notes hold what the flow may have.                           *)
FilesFit ==
    /\ \A x \in File, e \in Ext : files[<<x, e>>] # NULL =>
          \A g \in files[<<x, e>>].of : task[g] # NULL /\ task[g].file = x
    /\ \A k \in {"note", "out", "row"}, f \in Flow : files[<<k, f>>] # NULL =>
          task[f] # NULL /\ MayHold(f, files[<<k, f>>])
    /\ files[NAMED] # NULL => \A g \in files[NAMED].of : task[g] # NULL

DataTypes ==
    /\ st \in [Flow -> State]
    /\ failed \in [Flow -> SUBSET {"curl", "ffmpeg", "other"}]
    /\ files \in [Path -> Content \cup {NULL}]
    /\ script \in [Flow -> Flow \cup {NULL}]

Data == DataTypes /\ FilesFit /\ \A f \in Flow : FlowFits(f) /\ ScriptFits(f)

(* The kinds of paths.                                                     *)
LEMMA PathKinds ==
    /\ NAMED \in Path /\ \A x \in File, e \in Ext : <<x, e>> \in Path
    /\ \A k \in {"note", "out", "row"}, f \in Flow : <<k, f>> \in Path
    /\ \A p \in Path : p # NULL
    /\ \A x \in File, e \in Ext : <<x, e>> # NAMED
    /\ \A k \in {"note", "out", "row"}, f \in Flow : <<k, f>> # NAMED
    /\ \A x \in File, e \in Ext, k \in {"note", "out", "row"}, f \in Flow : <<x, e>> # <<k, f>>
    /\ \A p \in Path : \/ p = NAMED \/ \E x \in File, e \in Ext : p = <<x, e>>
                       \/ \E k \in {"note", "out", "row"}, f \in Flow : p = <<k, f>>
BY UnfoldConstantsOK, NullOK DEF Path, NAMED, Ext

(* A content is of flows, and is not NULL.                                 *)
LEMMA ContentOK ==
    /\ \A c \in Content : c # NULL /\ c.of \subseteq Flow
    /\ \A f \in Flow, w \in What : Of(f, w) \in Content /\ Of(f, w).of = {f}
BY NullOK DEF Content, Of

(* One flow state is replaced.                                             *)
LEMMA Carried ==
    ASSUME DataTypes, NEW f \in Flow, NEW d \in Content \cup {NULL},
           NEW t \in {"text", "binary_path", "json"}, NEW p \in Path \cup {NULL},
           Carries(f, d, t, p)
    PROVE  /\ st' \in [Flow -> State] /\ st'[f].data = d /\ st'[f].path = p
           /\ st'[f].type = t
           /\ \A g \in Flow : g # f => st'[g] = st[g]
<1>1. [data |-> d, type |-> t, path |-> p] \in State
  BY DEF State
<1> QED BY <1>1 DEF DataTypes, Carries

(* One file is written, by a flow that may.                                *)
LEMMA Written ==
    ASSUME DataTypes, FilesFit, NEW p \in Path, NEW c \in Content, Writes(p, c),
           UNCHANGED task, \A g \in c.of : task[g] # NULL,
           \A x \in File, e \in Ext : p = <<x, e>> => \A g \in c.of : task[g].file = x,
           \A k \in {"note", "out", "row"}, f \in Flow :
              p = <<k, f>> => task[f] # NULL /\ MayHold(f, c)
    PROVE  /\ files' \in [Path -> Content \cup {NULL}] /\ FilesFit'
           /\ files'[p] = c /\ c # NULL
           /\ \A q \in Path : files[q] # NULL => files'[q] # NULL
<1>1. \A q \in Path : files'[q] = IF q = p THEN c ELSE files[q]
  BY DEF DataTypes, Writes
<1>2. files' \in [Path -> Content \cup {NULL}]
  BY DEF DataTypes, Writes
<1>3. ASSUME NEW x \in File, NEW e \in Ext, files'[<<x, e>>] # NULL
      PROVE  \A g \in files'[<<x, e>>].of : task[g] # NULL /\ task[g].file = x
  BY <1>1, <1>3, PathKinds DEF FilesFit
<1>4. ASSUME NEW k \in {"note", "out", "row"}, NEW f \in Flow, files'[<<k, f>>] # NULL
      PROVE  task[f] # NULL /\ MayHold(f, files'[<<k, f>>])
  BY <1>1, <1>4, PathKinds DEF FilesFit
<1>5. files'[NAMED] # NULL => \A g \in files'[NAMED].of : task[g] # NULL
  BY <1>1, PathKinds DEF FilesFit
<1>6. FilesFit'
  BY <1>3, <1>4, <1>5 DEF FilesFit, MayHold, MayHave, Exempt, ReadsPath, Lists
<1> QED BY <1>1, <1>2, <1>6, ContentOK

(* A step of the flow f, after its call: what is to be shown is about f.   *)
LEMMA FlowStep ==
    ASSUME Control, Data, NEW f \in Flow, UNCHANGED <<task, plan>>,
           \A g \in Flow : g # f =>
              /\ pc'[g] = pc[g] /\ next'[g] = next[g]
              /\ st'[g] = st[g] /\ failed'[g] = failed[g],
           \A q \in Path : files[q] # NULL => files'[q] # NULL,
           DataTypes', FilesFit', FlowFits(f)', \A g \in Flow : ScriptFits(g)'
    PROVE  Data'
<1>1. ASSUME NEW g \in Flow, g # f PROVE FlowFits(g)'
  <2>1. FlowFits(g) /\ st[g].path \in Path \cup {NULL}
    BY DEF Data, DataTypes, State
  <2>2. pc'[g] = pc[g] /\ next'[g] = next[g] /\ st'[g] = st[g] /\ failed'[g] = failed[g]
    BY <1>1
  <2>3. MayBeAt(g, st[g].path)'
    BY <2>1, <2>2 DEF FlowFits, MayBeAt, Exempt, ReadsPath, Lists
  <2>4. st'[g].data # NULL => MayHold(g, st[g].data)'
    BY <2>1, <2>2 DEF FlowFits, MayHold, MayHave, Exempt, ReadsPath, Lists
  <2> QED BY <2>1, <2>2, <2>3, <2>4 DEF FlowFits
<1> QED BY <1>1 DEF Data

(* A path that fits goes on to fit.                                        *)
LEMMA PathStays ==
    ASSUME Control, NEW f \in Flow, MayBeAt(f, st[f].path), UNCHANGED <<task, plan>>,
           next'[f] \in {next[f], next[f] + 1}, st'[f].path = st[f].path
    PROVE  MayBeAt(f, st[f].path)'
<1>1. next[f] \in 1 .. 5
  BY DEF Control
<1>2. \A i \in next'[f] .. Len(plan[f].passes) : i \in next[f] .. Len(plan[f].passes)
  BY <1>1
<1> QED BY <1>2 DEF MayBeAt, Exempt, ReadsPath, Lists

(* The files stay as they are.                                             *)
LEMMA FilesStay ==
    ASSUME Data, UNCHANGED <<task, files>>
    PROVE  /\ files' \in [Path -> Content \cup {NULL}] /\ FilesFit'
           /\ \A q \in Path : files[q] # NULL => files'[q] # NULL
<1>1. FilesFit /\ DataTypes
  BY DEF Data
<1>2. FilesFit'
  BY <1>1 DEF FilesFit, MayHold, MayHave, Exempt, ReadsPath, Lists
<1> QED BY <1>1, <1>2 DEF DataTypes

(* A step that leaves the path as it is.                                   *)
LEMMA KeepsPath ==
    ASSUME Control, Data, NEW f \in Flow, UNCHANGED <<task, plan>>,
           task[f] # NULL, pc'[f] # "idle", next'[f] \in {next[f], next[f] + 1},
           st' \in [Flow -> State], st'[f].path = st[f].path,
           \/ st'[f].data = st[f].data \/ st'[f].data = NULL
           \/ MayHold(f, st'[f].data),
           failed' \in [Flow -> SUBSET {"curl", "ffmpeg", "other"}],
           failed[f] \subseteq failed'[f],
           \A g \in Flow : g # f =>
              /\ pc'[g] = pc[g] /\ next'[g] = next[g]
              /\ st'[g] = st[g] /\ failed'[g] = failed[g],
           files' \in [Path -> Content \cup {NULL}], FilesFit',
           \A q \in Path : files[q] # NULL => files'[q] # NULL,
           script' \in [Flow -> Flow \cup {NULL}], \A g \in Flow : ScriptFits(g)'
    PROVE  Data'
<1>1. FlowFits(f) /\ DataTypes /\ st[f].path \in Path \cup {NULL}
  BY DEF Data, DataTypes, State
<1>2. DataTypes'
  BY <1>1 DEF DataTypes
<1>3. MayBeAt(f, st[f].path)'
  BY <1>1, PathStays DEF FlowFits
<1>4. st'[f].data # NULL => MayHold(f, st[f].data)'
  <2>1. st'[f].data # NULL => MayHold(f, st'[f].data)
    BY <1>1 DEF FlowFits
  <2> QED BY <2>1 DEF MayHold, MayHave, Exempt, ReadsPath, Lists
<1>5. FlowFits(f)'
  BY <1>1, <1>3, <1>4 DEF FlowFits
<1> QED BY <1>2, <1>5, FlowStep

(* Scripts, when none is written.                                          *)
LEMMA ScriptsStay ==
    ASSUME Control, Data, NEW f \in Flow, UNCHANGED <<task, script>>, pc'[f] # "code",
           \A g \in Flow : g # f => pc'[g] = pc[g]
    PROVE  script' \in [Flow -> Flow \cup {NULL}] /\ \A g \in Flow : ScriptFits(g)'
BY DEF Data, DataTypes, ScriptFits

(* An error leaves the data.                                               *)
LEMMA FailsData ==
    ASSUME Control, Data, NEW f \in Flow, NEW pass \in PASS \ {"RESPOND"}, Fails(f, pass),
           At(f, pass)
    PROVE  Control' /\ Data'
<1>1. Control' /\ \A g \in Flow : g # f => pc'[g] = pc[g]
  BY FailsControl
<1>2. /\ UNCHANGED <<task, plan, next, st, failed, files, script>> /\ pc'[f] = "respond"
      /\ task[f] # NULL
  BY DEF Fails, Control, At
<1>3. script' \in [Flow -> Flow \cup {NULL}] /\ \A g \in Flow : ScriptFits(g)'
  BY <1>1, <1>2, ScriptsStay
<1>4. Data'
  BY <1>1, <1>2, <1>3, FilesStay, KeepsPath DEF Data, DataTypes
<1> QED BY <1>1, <1>4

(* A command that fails.                                                   *)
LEMMA Breaking ==
    ASSUME Data, NEW f \in Flow, NEW c \in {"curl", "ffmpeg", "other"}, Breaks(f, c)
    PROVE  /\ failed' \in [Flow -> SUBSET {"curl", "ffmpeg", "other"}]
           /\ failed'[f] = failed[f] \cup {c}
           /\ \A g \in Flow : g # f => failed'[g] = failed[g]
BY DEF Data, DataTypes, Breaks

(* A pass that works in memory, on data the flow may have.                 *)
LEMMA ResultData ==
    ASSUME Control, Data, NEW f \in Flow, NEW pass \in PASS \ {"RESPOND"}, Result(f, pass),
           At(f, pass), UNCHANGED script,
           files' \in [Path -> Content \cup {NULL}], FilesFit',
           \A q \in Path : files[q] # NULL => files'[q] # NULL,
           NEW c \in {"curl", "ffmpeg", "other"}, Works \/ Breaks(f, c),
           \/ UNCHANGED st
           \/ \E d \in Content \cup {NULL}, t \in {"text", "binary_path", "json"} :
                 /\ Carries(f, d, t, st[f].path)
                 /\ d = NULL \/ MayHold(f, d)
    PROVE  Control' /\ Data'
<1>1. /\ Control' /\ UNCHANGED <<task, plan>>
      /\ next'[f] = next[f] + 1 /\ pc'[f] = "run" /\ pc[f] # "idle"
      /\ \A g \in Flow : g # f => pc'[g] = pc[g] /\ next'[g] = next[g]
  BY ResultControl
<1>2. script' \in [Flow -> Flow \cup {NULL}] /\ \A g \in Flow : ScriptFits(g)'
  BY <1>1, ScriptsStay
<1>3. /\ failed' \in [Flow -> SUBSET {"curl", "ffmpeg", "other"}]
      /\ failed[f] \subseteq failed'[f]
      /\ \A g \in Flow : g # f => failed'[g] = failed[g]
  <2>1. CASE Works
    BY <2>1 DEF Works, Data, DataTypes
  <2>2. CASE Breaks(f, c)
    BY <2>2, Breaking
  <2> QED BY <2>1, <2>2
<1>4. task[f] # NULL
  BY <1>1 DEF Control
<1>5. CASE UNCHANGED st
  BY <1>1, <1>2, <1>3, <1>4, <1>5, KeepsPath DEF Data, DataTypes
<1>6. CASE \E d \in Content \cup {NULL}, t \in {"text", "binary_path", "json"} :
              Carries(f, d, t, st[f].path) /\ (d = NULL \/ MayHold(f, d))
  <2>1. PICK d \in Content \cup {NULL}, t \in {"text", "binary_path", "json"} :
              Carries(f, d, t, st[f].path) /\ (d = NULL \/ MayHold(f, d))
    BY <1>6
  <2>2. st[f].path \in Path \cup {NULL} /\ DataTypes
    BY DEF Data, DataTypes, State
  <2>3. /\ st' \in [Flow -> State] /\ st'[f].data = d /\ st'[f].path = st[f].path
        /\ \A g \in Flow : g # f => st'[g] = st[g]
    BY <2>1, <2>2, Carried
  <2> QED BY <1>1, <1>2, <1>3, <1>4, <2>1, <2>3, KeepsPath
<1> QED BY <1>1, <1>5, <1>6

(* ... and writes no file.                                                 *)
LEMMA NoopData ==
    ASSUME Control, Data, NEW f \in Flow, NEW pass \in PASS \ {"RESPOND"}, At(f, pass),
           Noop(f, pass)
    PROVE  Control' /\ Data'
BY FilesStay, ResultData DEF Noop, Result, Works

(* Where a pass may leave the flow, to go on with the next one.            *)
GoesTo(f, p) ==
    \/ task[f].file # NULL /\ \E e \in Ext : p = <<task[f].file, e>>
    \/ /\ \A i \in next[f] + 1 .. Len(plan[f].passes) : plan[f].passes[i] # "TRANSFORM"
       /\ \/ \E k \in {"note", "out"}, g \in Flow : p = <<k, g>> /\ (SameMs \/ g = f)
          \/ p = NAMED /\ ReadsPath(f)

(* A pass that leaves a path, with data the flow may have.                 *)
LEMMA NewPath ==
    ASSUME Control, Data, NEW f \in Flow, NEW pass \in PASS \ {"RESPOND"}, Result(f, pass),
           At(f, pass), UNCHANGED script,
           NEW c \in {"curl", "ffmpeg", "other"}, Works \/ Breaks(f, c),
           NEW d \in Content \cup {NULL}, NEW t \in {"text", "binary_path", "json"},
           NEW p \in Path, Carries(f, d, t, p), GoesTo(f, p),
           d = NULL \/ MayHold(f, d),
           files' \in [Path -> Content \cup {NULL}], FilesFit',
           \A q \in Path : files[q] # NULL => files'[q] # NULL,
           files'[p] # NULL \/ failed'[f] \cap {"curl", "ffmpeg"} # {}
    PROVE  Control' /\ Data'
<1>1. /\ Control' /\ UNCHANGED <<task, plan>>
      /\ next'[f] = next[f] + 1 /\ pc'[f] = "run" /\ pc[f] # "idle"
      /\ \A g \in Flow : g # f => pc'[g] = pc[g] /\ next'[g] = next[g]
  BY ResultControl
<1>2. script' \in [Flow -> Flow \cup {NULL}] /\ \A g \in Flow : ScriptFits(g)'
  BY <1>1, ScriptsStay
<1>3. /\ failed' \in [Flow -> SUBSET {"curl", "ffmpeg", "other"}]
      /\ \A g \in Flow : g # f => failed'[g] = failed[g]
  <2>1. CASE Works
    BY <2>1 DEF Works, Data, DataTypes
  <2>2. CASE Breaks(f, c)
    BY <2>2, Breaking
  <2> QED BY <2>1, <2>2
<1>4. DataTypes
  BY DEF Data
<1>5. /\ st' \in [Flow -> State] /\ st'[f].data = d /\ st'[f].path = p
      /\ \A g \in Flow : g # f => st'[g] = st[g]
  BY <1>4, Carried
<1>6. MayBeAt(f, st[f].path)'
  BY <1>1, <1>5 DEF GoesTo, MayBeAt, Exempt, ReadsPath, Lists
<1>7. st'[f].data # NULL => MayHold(f, st[f].data)'
  BY <1>1, <1>5 DEF MayHold, MayHave, Exempt, ReadsPath, Lists
<1>8. FlowFits(f)'
  BY <1>1, <1>5, <1>6, <1>7 DEF FlowFits
<1>9. DataTypes'
  BY <1>2, <1>3, <1>5 DEF DataTypes
<1>10. Data'
  BY <1>1, <1>2, <1>3, <1>5, <1>8, <1>9, FlowStep
<1> QED BY <1>1, <1>10

(* The task of a flow that runs, and the file it names.                    *)
LEMMA TaskOK ==
    ASSUME Control, NEW f \in Flow, task[f] # NULL
    PROVE  /\ task[f] \in Task /\ task[f].file \in File \cup {NULL}
           /\ task[f].file # NULL =>
                 \A e \in Ext : /\ <<task[f].file, e>> \in Path
                                /\ GoesTo(f, <<task[f].file, e>>)
BY UnfoldConstantsOK, PathKinds DEF Control, GoesTo

(* A flow at a pass has a task, and the pass is the next one of its plan.  *)
LEMMA RunsTask ==
    ASSUME Control, NEW f \in Flow, NEW pass \in PASS, At(f, pass)
    PROVE  /\ task[f] # NULL /\ plan[f].passes[next[f]] = pass /\ pc[f] = "run"
           /\ next[f] \in 1 .. Len(plan[f].passes) /\ GoodPlan(plan[f])
<1>1. pc[f] = "run" /\ plan[f].passes[next[f]] = pass
  BY DEF At
<1>2. task[f] # NULL /\ next[f] \in 1 .. Len(plan[f].passes)
  BY <1>1 DEF Control, LogFits
<1> QED BY <1>1, <1>2, PlansGood

(* What FETCH and ffmpeg write in its name is the flow's own, or that of a *)
(* flow whose task gives the same name.                                    *)
LEMMA FileWritten ==
    ASSUME Control, Data, NEW f \in Flow, task[f] # NULL, task[f].file # NULL,
           NEW e \in Ext, NEW c \in Content, Writes(<<task[f].file, e>>, c),
           \A g \in c.of : task[g] # NULL /\ task[g].file = task[f].file, UNCHANGED task
    PROVE  /\ files' \in [Path -> Content \cup {NULL}] /\ FilesFit'
           /\ files'[<<task[f].file, e>>] = c /\ c # NULL
           /\ \A q \in Path : files[q] # NULL => files'[q] # NULL
<1> DEFINE x == task[f].file
           p == <<x, e>>
<1>1. x \in File /\ p \in Path
  BY TaskOK
<1>2. DataTypes /\ FilesFit
  BY DEF Data
<1>3. \A y \in File, h \in Ext : p = <<y, h>> => \A g \in c.of : task[g].file = y
  OBVIOUS
<1>4. \A k \in {"note", "out", "row"}, g \in Flow : p # <<k, g>>
  BY <1>1, PathKinds
<1>5. Writes(p, c)
  OBVIOUS
<1> HIDE DEF x, p
<1>6. /\ files' \in [Path -> Content \cup {NULL}] /\ FilesFit'
      /\ files'[p] = c /\ c # NULL
      /\ \A q \in Path : files[q] # NULL => files'[q] # NULL
  BY <1>1, <1>2, <1>3, <1>4, <1>5, Written
<1> QED BY <1>6 DEF x, p

(* A fetched binary is of the flow that fetched it.                        *)
LEMMA FetchBinaryData ==
    ASSUME Control, Data, NEW f \in Flow, FetchBinary(f) PROVE Control' /\ Data'
<1> DEFINE dest == <<task[f].file, "bin">>
<1>2. /\ "FETCH" \in PASS \ {"RESPOND"} /\ "bin" \in Ext
      /\ At(f, "FETCH") /\ task[f].file # NULL
  BY DEF PASS, Ext, FetchBinary
<1>8. CASE Fails(f, "FETCH")
  BY <1>2, <1>8, FailsData
<1>9. SUFFICES ASSUME ~Fails(f, "FETCH") PROVE Control' /\ Data'
  BY <1>8
<1>1. /\ At(f, "FETCH") /\ task[f].file # NULL /\ Result(f, "FETCH") /\ UNCHANGED script
      /\ Carries(f, Of(f, "name"), "binary_path", dest)
      /\ \/ Works /\ Writes(dest, Of(f, "media"))
         \/ Breaks(f, "curl") /\ UNCHANGED files
  BY <1>9 DEF FetchBinary
<1>3. task[f] # NULL /\ dest \in Path /\ GoesTo(f, dest)
  BY <1>1, <1>2, RunsTask, TaskOK
<1>4. /\ Of(f, "name") \in Content /\ MayHold(f, Of(f, "name"))
      /\ Of(f, "media") \in Content /\ Of(f, "media").of = {f}
  BY <1>3, ContentOK DEF MayHold, MayHave, What
<1>5. UNCHANGED task
  BY <1>1 DEF Result
<1>6. CASE Works /\ Writes(dest, Of(f, "media"))
  <2>1. /\ files' \in [Path -> Content \cup {NULL}] /\ FilesFit' /\ files'[dest] # NULL
        /\ \A q \in Path : files[q] # NULL => files'[q] # NULL
    BY <1>1, <1>2, <1>3, <1>4, <1>5, <1>6, FileWritten
  <2> QED BY <1>1, <1>2, <1>3, <1>4, <1>6, <2>1, NewPath
<1>7. CASE Breaks(f, "curl") /\ UNCHANGED files
  <2>1. files' \in [Path -> Content \cup {NULL}] /\ FilesFit'
    BY <1>5, <1>7 DEF Data, DataTypes, FilesFit, MayHold, MayHave, Exempt, ReadsPath, Lists
  <2>2. "curl" \in failed'[f]
    BY <1>7, Breaking
  <2> HIDE DEF dest
  <2> QED BY <1>1, <1>2, <1>3, <1>4, <1>7, <2>1, <2>2, NewPath
<1> QED BY <1>1, <1>6, <1>7

(* The flow converts the file its task names.                              *)
LEMMA TransformsFile ==
    ASSUME Control, Data, NEW f \in Flow, At(f, "TRANSFORM"), st[f].path # NULL
    PROVE  /\ task[f] # NULL /\ task[f].file # NULL /\ task[f].file \in File
           /\ st[f].path[1] = task[f].file /\ st[f].path[2] \in Ext
           /\ st[f].path = <<task[f].file, st[f].path[2]>> /\ st[f].path \in Path
<1>1. /\ task[f] # NULL /\ plan[f].passes[next[f]] = "TRANSFORM"
      /\ next[f] \in 1 .. Len(plan[f].passes) /\ Len(plan[f].passes) \in 1 .. 5
  BY RunsTask DEF PASS, GoodPlan, GoodPasses
<1>2. next[f] \in next[f] .. Len(plan[f].passes)
  BY <1>1
<1>3. MayBeAt(f, st[f].path)
  BY DEF Data, FlowFits
<1>4. task[f].file # NULL /\ \E e \in Ext : st[f].path = <<task[f].file, e>>
  BY <1>1, <1>2, <1>3 DEF MayBeAt
<1> QED BY <1>1, <1>4, TaskOK

(* What whisper writes is of the flow that called it.                      *)
LEMMA WhisperData ==
    ASSUME Control, Data, NEW f \in Flow, Whisper(f) PROVE Control' /\ Data'
<1> DEFINE in  == st[f].path
           x   == task[f].file
           txt == <<in[1], "txt">>
           c   == [what |-> "transcript", of |-> files[in].of, from |-> in[2]]
<1>1. /\ At(f, "TRANSFORM") /\ in # NULL /\ Result(f, "TRANSFORM") /\ UNCHANGED script
      /\ \/ Sound(in) /\ Works /\ Writes(txt, c)
         \/ Breaks(f, "other") /\ UNCHANGED files
      /\ IF files'[txt] # NULL THEN Carries(f, files'[txt], "text", txt) ELSE UNCHANGED st
  BY DEF Whisper
<1>2. "TRANSFORM" \in PASS \ {"RESPOND"} /\ "txt" \in Ext
  BY DEF PASS, Ext
<1>3. /\ task[f] # NULL /\ x # NULL /\ x \in File /\ in[1] = x /\ in[2] \in Ext
      /\ in = <<x, in[2]>> /\ in \in Path
  BY <1>1, TransformsFile
<1>4. txt = <<x, "txt">>
  BY <1>3
<1>5. txt \in Path /\ GoesTo(f, txt)
  BY <1>2, <1>3, <1>4, TaskOK
<1>6. UNCHANGED task
  BY <1>1 DEF Result
<1>7. /\ files' \in [Path -> Content \cup {NULL}] /\ FilesFit'
      /\ \A q \in Path : files[q] # NULL => files'[q] # NULL
      /\ files'[txt] # NULL \/ UNCHANGED files
  <2>1. CASE Sound(in) /\ Works /\ Writes(txt, c)
    <3>1. files[in] \in Content /\ files[in] # NULL
      BY <1>3, <2>1 DEF Sound, Data, DataTypes
    <3>2. c \in Content /\ c.of = files[in].of
      BY <1>3, <3>1 DEF Content, What
    <3>3. \A g \in c.of : task[g] # NULL /\ task[g].file = x
      BY <1>3, <3>1, <3>2 DEF Data, FilesFit
    <3>4. Writes(<<task[f].file, "txt">>, c)
      BY <1>4, <2>1
    <3> HIDE DEF c
    <3> QED BY <1>2, <1>3, <1>4, <1>6, <3>2, <3>3, <3>4, FileWritten
  <2>2. CASE Breaks(f, "other") /\ UNCHANGED files
    BY <1>6, <2>2 DEF Data, DataTypes, FilesFit, MayHold, MayHave, Exempt, ReadsPath, Lists
  <2> QED BY <1>1, <2>1, <2>2
<1>8. Works \/ Breaks(f, "other")
  BY <1>1
<1>9. CASE files'[txt] # NULL
  <2>1. files'[txt] \in Content
    BY <1>5, <1>7, <1>9
  <2>2. MayHold(f, files'[txt])
    <3>1. \A g \in files'[<<x, "txt">>].of : task[g] # NULL /\ task[g].file = x
      BY <1>2, <1>3, <1>4, <1>6, <1>7, <1>9 DEF FilesFit
    <3> QED BY <1>3, <1>4, <2>1, <3>1, ContentOK DEF MayHold, MayHave
  <2>3. Carries(f, files'[txt], "text", txt)
    BY <1>1, <1>9
  <2> HIDE DEF txt
  <2> QED BY <1>1, <1>2, <1>5, <1>7, <1>8, <1>9, <2>1, <2>2, <2>3, NewPath
<1>10. CASE files'[txt] = NULL
  BY <1>1, <1>2, <1>7, <1>8, <1>10, ResultData
<1> QED BY <1>9, <1>10

(* What ffmpeg writes is of the flow that called it.                       *)
LEMMA FfmpegData ==
    ASSUME Control, Data, NEW f \in Flow, Ffmpeg(f) PROVE Control' /\ Data'
<1> DEFINE in  == st[f].path
           x   == task[f].file
           out == <<in[1], "wav">>
           c   == [what |-> "wav", of |-> files[in].of, from |-> NULL]
<1>1. /\ At(f, "TRANSFORM") /\ in # NULL /\ Result(f, "TRANSFORM") /\ UNCHANGED script
      /\ \/ Sound(in) /\ Works /\ Writes(out, c)
         \/ Breaks(f, "ffmpeg") /\ UNCHANGED files
      /\ Carries(f, Of(f, "name"), "binary_path", out)
  BY DEF Ffmpeg
<1>2. "TRANSFORM" \in PASS \ {"RESPOND"} /\ "wav" \in Ext
  BY DEF PASS, Ext
<1>3. /\ task[f] # NULL /\ x # NULL /\ x \in File /\ in[1] = x /\ in[2] \in Ext
      /\ in = <<x, in[2]>> /\ in \in Path
  BY <1>1, TransformsFile
<1>4. out = <<x, "wav">>
  BY <1>3
<1>5. out \in Path /\ GoesTo(f, out)
  BY <1>2, <1>3, <1>4, TaskOK
<1>6. UNCHANGED task
  BY <1>1 DEF Result
<1>7. Of(f, "name") \in Content /\ MayHold(f, Of(f, "name"))
  BY <1>3, ContentOK DEF MayHold, MayHave, What
<1>8. CASE Sound(in) /\ Works /\ Writes(out, c)
  <2>1. files[in] \in Content /\ files[in] # NULL
    BY <1>3, <1>8 DEF Sound, Data, DataTypes
  <2>2. c \in Content /\ c.of = files[in].of
    BY <1>3, <2>1 DEF Content, What
  <2>3. \A g \in c.of : task[g] # NULL /\ task[g].file = x
    BY <1>3, <2>1, <2>2 DEF Data, FilesFit
  <2>4. Writes(<<task[f].file, "wav">>, c)
    BY <1>4, <1>8
  <2>5. /\ files' \in [Path -> Content \cup {NULL}] /\ FilesFit' /\ files'[out] # NULL
        /\ \A q \in Path : files[q] # NULL => files'[q] # NULL
    <3> HIDE DEF c
    <3> QED BY <1>2, <1>3, <1>4, <1>6, <2>2, <2>3, <2>4, FileWritten
  <2> HIDE DEF c, out
  <2> QED BY <1>1, <1>2, <1>5, <1>7, <1>8, <2>5, NewPath
<1>9. CASE Breaks(f, "ffmpeg") /\ UNCHANGED files
  <2>1. files' \in [Path -> Content \cup {NULL}] /\ FilesFit'
    BY <1>6, <1>9 DEF Data, DataTypes, FilesFit, MayHold, MayHave, Exempt, ReadsPath, Lists
  <2>2. "ffmpeg" \in failed'[f]
    BY <1>9, Breaking
  <2> HIDE DEF out
  <2> QED BY <1>1, <1>2, <1>5, <1>7, <1>9, <2>1, <2>2, NewPath
<1> QED BY <1>1, <1>8, <1>9

(* What is stored or recalled is not converted any more.                   *)
LEMMA NoTransformLeft ==
    ASSUME Control, NEW f \in Flow, NEW pass \in {"STORE", "RECALL"}, At(f, pass)
    PROVE  \A i \in next[f] + 1 .. Len(plan[f].passes) : plan[f].passes[i] # "TRANSFORM"
<1> DEFINE rows == plan[f].passes
           n == next[f]
<1>1. pass \in PASS
  BY DEF PASS
<1>2. /\ rows[n] = pass /\ n \in 1 .. Len(rows) /\ Len(rows) \in 1 .. 5
      /\ \A i, j \in 1 .. Len(rows) :
            i < j /\ rows[i] \in {"STORE", "RECALL"} => rows[j] # "TRANSFORM"
  BY <1>1, RunsTask DEF GoodPlan, GoodPasses
<1> HIDE DEF rows, n
<1>3. \A i \in n + 1 .. Len(rows) : i \in 1 .. Len(rows) /\ n < i
  BY <1>2
<1>4. \A i \in n + 1 .. Len(rows) : rows[i] # "TRANSFORM"
  BY <1>2, <1>3
<1> QED BY <1>4 DEF rows, n

(* What a flow stores it may have.                                         *)
LEMMA StoreData ==
    ASSUME Control, Data, NEW f \in Flow, Store(f) PROVE Control' /\ Data'
<1> DEFINE type == IF st[f].data = NULL THEN "text" ELSE st[f].type
           c == ToStore(f)
<1>1. At(f, "STORE") /\ "STORE" \in PASS \ {"RESPOND"}
  BY DEF Store, PASS
<1>2. task[f] # NULL
  BY <1>1, RunsTask
<1>3. CASE Noop(f, "STORE")
  BY <1>1, <1>3, NoopData
<1>4. CASE Fails(f, "STORE")
  BY <1>1, <1>4, FailsData
<1>5. CASE /\ IF InDb(f)
                 THEN Carries(f, c, type, st[f].path) /\ Writes(<<"row", f>>, c)
                 ELSE \E g \in Named(f) :
                         Carries(f, c, type, Target(f, g)) /\ Writes(Target(f, g), c)
           /\ Result(f, "STORE") /\ UNCHANGED <<failed, script>>
  <2>1. c \in Content /\ MayHold(f, c)
    <3>1. CASE st[f].data = NULL
      BY <1>2, <3>1, ContentOK DEF ToStore, MayHold, MayHave, What
    <3>2. CASE st[f].data # NULL
      BY <3>2 DEF ToStore, Data, FlowFits, DataTypes, State
    <3> QED BY <3>1, <3>2
  <2>2. type \in {"text", "binary_path", "json"}
    BY DEF Data, DataTypes, State
  <2>3. Works
    BY <1>5 DEF Works
  <2>4. UNCHANGED task
    BY <1>5 DEF Result
  <2> HIDE DEF type, c
  <2>5. DataTypes /\ FilesFit /\ \A g \in c.of : task[g] # NULL
    BY <2>1 DEF Data, MayHold, MayHave
  <2>6. CASE InDb(f)
    <3> DEFINE row == <<"row", f>>
    <3>1. Carries(f, c, type, st[f].path) /\ Writes(row, c)
      BY <1>5, <2>6
    <3>2. /\ row \in Path /\ \A x \in File, e \in Ext : row # <<x, e>>
          /\ \A k \in {"note", "out", "row"}, g \in Flow : row = <<k, g>> => g = f
      BY PathKinds
    <3> HIDE DEF row
    <3>3. /\ files' \in [Path -> Content \cup {NULL}] /\ FilesFit'
          /\ \A q \in Path : files[q] # NULL => files'[q] # NULL
      BY <1>2, <2>1, <2>4, <2>5, <3>1, <3>2, Written
    <3> QED BY <1>1, <1>5, <2>1, <2>2, <2>3, <3>1, <3>3, ResultData
  <2>7. CASE ~InDb(f)
    <3>0. PICK g \in Named(f) : Carries(f, c, type, Target(f, g)) /\ Writes(Target(f, g), c)
      BY <1>5, <2>7
    <3> DEFINE p == Target(f, g)
    <3>1. /\ Carries(f, c, type, p) /\ Writes(p, c)
          /\ g \in Flow /\ task[g] # NULL /\ (SameMs \/ g = f)
      BY <1>2, <3>0 DEF Named
    <3>2. p = <<"note", g>> \/ p = <<"out", g>> \/ (p = NAMED /\ ReadsPath(f))
      BY DEF Target, Has, ReadsPath
    <3>3. p \in Path /\ GoesTo(f, p)
      BY <1>1, <3>1, <3>2, NoTransformLeft, PathKinds DEF GoesTo
    <3>4. \A x \in File, e \in Ext : p # <<x, e>>
      BY <3>1, <3>2, PathKinds
    <3>5. \A k \in {"note", "out", "row"}, h \in Flow :
             p = <<k, h>> => task[h] # NULL /\ MayHold(h, c)
      <4> SUFFICES ASSUME NEW k \in {"note", "out", "row"}, NEW h \in Flow, p = <<k, h>>
                   PROVE  task[h] # NULL /\ MayHold(h, c)
        OBVIOUS
      <4>1. h = g
        BY <3>1, <3>2, PathKinds
      <4>2. CASE g = f
        BY <1>2, <2>1, <4>1, <4>2
      <4>3. CASE SameMs
        BY <2>1, <2>5, <3>1, <4>1, <4>3, ContentOK DEF MayHold, MayHave
      <4> QED BY <3>1, <4>2, <4>3
    <3> HIDE DEF p
    <3>6. /\ files' \in [Path -> Content \cup {NULL}] /\ FilesFit' /\ files'[p] # NULL
          /\ \A q \in Path : files[q] # NULL => files'[q] # NULL
      BY <2>1, <2>4, <2>5, <3>1, <3>3, <3>4, <3>5, Written
    <3> QED BY <1>1, <1>5, <2>1, <2>2, <2>3, <3>1, <3>3, <3>6, NewPath
  <2> QED BY <2>6, <2>7
<1> QED BY <1>3, <1>4, <1>5 DEF Store

(* What is stored is of flows that have a task, and so may be listed.      *)
LEMMA StoredFits ==
    ASSUME Control, Data, NEW k \in {"note", "row"}, NEW g \in Stored(k)
    PROVE  g \in Flow /\ task[g] # NULL
<1>1. PICK h \in Flow : files[<<k, h>>] # NULL /\ g \in files[<<k, h>>].of
  BY DEF Stored
<1>2. MayHold(h, files[<<k, h>>])
  BY <1>1 DEF Data, FilesFit
<1> QED BY <1>1, <1>2 DEF MayHold, MayHave

(* What a flow recalls it may have.                                        *)
LEMMA RecallData ==
    ASSUME Control, Data, NEW f \in Flow, Recall(f) PROVE Control' /\ Data'
<1>1. At(f, "RECALL") /\ "RECALL" \in PASS \ {"RESPOND"}
  BY DEF Recall, PASS
<1>2. task[f] # NULL
  BY <1>1, RunsTask
<1>3. CASE Fails(f, "RECALL")
  BY <1>1, <1>3, FailsData
<1>4. CASE Noop(f, "RECALL")
  BY <1>1, <1>4, NoopData
<1>5. ASSUME Result(f, "RECALL"), UNCHANGED <<failed, files, script>>
      PROVE  /\ Works /\ UNCHANGED task
             /\ files' \in [Path -> Content \cup {NULL}] /\ FilesFit'
             /\ \A q \in Path : files[q] # NULL => files'[q] # NULL
  BY <1>5, FilesStay DEF Works, Result
<1>6. CASE /\ There(f) /\ Carries(f, files[Source(f)], "text", Source(f))
           /\ Result(f, "RECALL") /\ UNCHANGED <<failed, files, script>>
  <2> DEFINE p == Source(f)
  <2>1. p # NULL /\ files[p] # NULL /\ Carries(f, files[p], "text", p)
    BY <1>6 DEF There
  <2>2. p \in Path
    BY <2>1, PathKinds DEF Source, Data, DataTypes, State
  <2>3. files[p] \in Content /\ files[p].of \subseteq Flow
    BY <2>1, <2>2, ContentOK DEF Data, DataTypes
  <2>4. MayHold(f, files[p]) /\ GoesTo(f, p)
    <3>1. FilesFit /\ MayBeAt(f, st[f].path)
      BY DEF Data, FlowFits
    <3>2. \A i \in next[f] + 1 .. Len(plan[f].passes) : plan[f].passes[i] # "TRANSFORM"
      BY <1>1, NoTransformLeft
    <3>3. CASE p = NAMED /\ ReadsPath(f)
      BY <2>1, <2>3, <3>1, <3>2, <3>3 DEF MayHold, MayHave, Exempt, FilesFit, GoesTo
    <3>4. CASE ~(p = NAMED /\ ReadsPath(f))
      <4>1. p = st[f].path
        BY <3>4 DEF Source, Has, ReadsPath
      <4>2. CASE task[f].file # NULL /\ \E e \in Ext : p = <<task[f].file, e>>
        <5>1. task[f].file \in File
          BY <1>2, <4>2, TaskOK
        <5>2. \A g \in files[p].of : task[g] # NULL /\ task[g].file = task[f].file
          BY <2>1, <3>1, <4>2, <5>1 DEF FilesFit
        <5> QED BY <2>3, <4>2, <5>2 DEF MayHold, MayHave, GoesTo
      <4>3. CASE \E k \in {"note", "out"}, g \in Flow : p = <<k, g>> /\ (SameMs \/ g = f)
        <5>1. PICK k \in {"note", "out"}, g \in Flow : p = <<k, g>> /\ (SameMs \/ g = f)
          BY <4>3
        <5>2. MayHold(g, files[p])
          BY <2>1, <3>1, <5>1 DEF FilesFit
        <5>3. MayHold(f, files[p])
          BY <5>1, <5>2 DEF MayHold, MayHave
        <5> QED BY <3>2, <4>3, <5>3 DEF GoesTo
      <4> QED BY <2>1, <3>1, <3>4, <4>1, <4>2, <4>3 DEF MayBeAt
    <3> QED BY <3>3, <3>4
  <2>5. files'[p] # NULL
    BY <1>6, <2>1
  <2> HIDE DEF p
  <2> QED BY <1>1, <1>5, <1>6, <2>1, <2>2, <2>3, <2>4, <2>5, NewPath
<1>7. ASSUME NEW d \in Content \cup {NULL}, d = NULL \/ MayHold(f, d),
             Carries(f, d, "json", st[f].path), Result(f, "RECALL"),
             UNCHANGED <<failed, files, script>>
      PROVE  Control' /\ Data'
  BY <1>1, <1>5, <1>7, ResultData
<1>8. ASSUME NEW flows \in SUBSET Flow, Listing(f, flows), Result(f, "RECALL"),
             UNCHANGED <<failed, files, script>>,
             \A g \in flows : task[g] # NULL, flows # {} => Lists(f)
      PROVE  Control' /\ Data'
  <2> DEFINE d == [what |-> "listing", of |-> flows, from |-> NULL]
  <2>1. d \in Content
    BY DEF Content, What
  <2>2. MayHold(f, d)
    BY <1>8 DEF MayHold, MayHave, Exempt
  <2>3. Carries(f, d, "json", st[f].path)
    BY <1>8 DEF Listing
  <2> HIDE DEF d
  <2> QED BY <1>7, <1>8, <2>1, <2>2, <2>3
<1>9. task[f].words \cap {"note", "sql"} # {} => Lists(f)
  <2>1. plan[f] = selectPassSequence(task[f].signals)
    BY <1>2 DEF Control
  <2>2. /\ plan[f].passes[next[f]] = "RECALL" /\ next[f] \in 1 .. Len(plan[f].passes)
        /\ plan[f].passes \in Seq(PASS)
    BY <1>1, RunsTask DEF GoodPlan, GoodPasses
  <2>3. "RECALL" \in ToSet(plan[f].passes)
    BY <2>2 DEF ToSet
  <2> QED BY <2>1, <2>3 DEF Lists
<1>10. \A k \in {"note", "row"} : \A g \in Stored(k) : g \in Flow /\ task[g] # NULL
  BY StoredFits
<1> DEFINE in == task[f].words \cap {"note", "sql", "memory"}
<1>11. CASE /\ "note" \in in /\ Listing(f, Stored("note"))
            /\ Result(f, "RECALL") /\ UNCHANGED <<failed, files, script>>
  <2>1. Lists(f)
    BY <1>9, <1>11
  <2>2. Stored("note") \in SUBSET Flow /\ \A g \in Stored("note") : task[g] # NULL
    BY <1>10
  <2> QED BY <1>8, <1>11, <2>1, <2>2
<1>12. CASE /\ "sql" \in in /\ \E those \in SUBSET Stored("row") : Listing(f, those)
            /\ Result(f, "RECALL") /\ UNCHANGED <<failed, files, script>>
  <2>1. Lists(f)
    BY <1>9, <1>12
  <2>2. PICK those \in SUBSET Stored("row") : Listing(f, those)
    BY <1>12
  <2>3. those \in SUBSET Flow /\ \A g \in those : task[g] # NULL
    BY <1>10, <2>2
  <2> QED BY <1>8, <1>12, <2>1, <2>2, <2>3
<1>13. CASE /\ Listing(f, {}) \/ Carries(f, NULL, "json", st[f].path)
            /\ Result(f, "RECALL") /\ UNCHANGED <<failed, files, script>>
  BY <1>7, <1>8, <1>13
<1> HIDE DEF in
<1> QED BY <1>3, <1>4, <1>6, <1>11, <1>12, <1>13 DEF Recall, in

(* The passes that stay in memory.                                         *)
LEMMA MemoryData ==
    ASSUME Control, Data, NEW f \in Flow,
           \/ FetchText(f) \/ FetchNothing(f) \/ Shell(f) \/ TransformWithout(f)
           \/ WhisperText(f) \/ Browse(f) \/ Notify(f)
    PROVE  Control' /\ Data'
<1>1. \A w \in What : task[f] # NULL => Of(f, w) \in Content /\ MayHold(f, Of(f, w))
  BY ContentOK DEF MayHold, MayHave
<1>2. ASSUME NEW pass \in PASS \ {"RESPOND"}, At(f, pass), Noop(f, pass)
      PROVE  Control' /\ Data'
  BY <1>2, NoopData
<1>3. ASSUME NEW pass \in PASS \ {"RESPOND"}, At(f, pass), Fails(f, pass)
      PROVE  Control' /\ Data'
  BY <1>3, FailsData
<1>4. ASSUME NEW pass \in PASS \ {"RESPOND"}, At(f, pass), Result(f, pass),
             UNCHANGED <<files, script>>, Works \/ Breaks(f, "other"),
             \/ UNCHANGED st
             \/ \E w \in What : Carries(f, Of(f, w), "text", st[f].path)
      PROVE  Control' /\ Data'
  <2>1. /\ task[f] # NULL /\ UNCHANGED <<task, files>>
        /\ files' \in [Path -> Content \cup {NULL}] /\ FilesFit'
        /\ \A q \in Path : files[q] # NULL => files'[q] # NULL
    BY <1>4, RunsTask, FilesStay DEF Result
  <2>2. CASE UNCHANGED st
    BY <1>4, <2>1, <2>2, ResultData
  <2>3. CASE \E w \in What : Carries(f, Of(f, w), "text", st[f].path)
    <3>1. PICK w \in What : Carries(f, Of(f, w), "text", st[f].path)
      BY <2>3
    <3>2. Of(f, w) \in Content /\ MayHold(f, Of(f, w))
      BY <1>1, <2>1
    <3> QED BY <1>4, <2>1, <3>1, <3>2, ResultData
  <2> QED BY <1>4, <2>2, <2>3
<1>5. {"FETCH", "SHELL", "TRANSFORM", "BROWSE", "NOTIFY"} \subseteq PASS \ {"RESPOND"}
      /\ {"page", "output"} \subseteq What
  BY DEF PASS, What
<1>6. CASE FetchText(f)
  BY <1>3, <1>4, <1>5, <1>6 DEF FetchText, Works
<1>7. CASE FetchNothing(f)
  BY <1>2, <1>5, <1>7 DEF FetchNothing
<1>8. CASE Shell(f)
  BY <1>2, <1>3, <1>4, <1>5, <1>8 DEF Shell
<1>9. CASE TransformWithout(f)
  BY <1>3, <1>5, <1>9 DEF TransformWithout
<1>10. CASE WhisperText(f)
  BY <1>3, <1>4, <1>5, <1>10 DEF WhisperText
<1>11. CASE Browse(f)
  BY <1>3, <1>4, <1>5, <1>11 DEF Browse, Works
<1>12. CASE Notify(f)
  BY <1>2, <1>3, <1>5, <1>12 DEF Notify
<1> QED BY <1>6, <1>7, <1>8, <1>9, <1>10, <1>11, <1>12

(* The script a flow writes is its own.                                    *)
LEMMA CodeWritesData ==
    ASSUME Control, Data, NEW f \in Flow, CodeWrites(f) PROVE Control' /\ Data'
<1>1. At(f, "CODE") /\ "CODE" \in PASS \ {"RESPOND"}
  BY DEF CodeWrites, PASS
<1>2. CASE Noop(f, "CODE")
  BY <1>1, <1>2, NoopData
<1>3. CASE /\ \/ script' = [script EXCEPT ![f] = f]
              \/ \E g \in Flow \ {f} :
                    SameMs /\ pc[g] = "code" /\ script' = [script EXCEPT ![f] = f, ![g] = f]
           /\ pc' = [pc EXCEPT ![f] = "code"]
           /\ UNCHANGED <<task, plan, next, st, log, failed, files>>
  <2>1. Control' /\ pc'[f] = "code" /\ \A g \in Flow : g # f => pc'[g] = pc[g]
    BY <1>1, <1>3, CodeControl
  <2>2. task[f] # NULL
    BY <1>1, RunsTask
  <2>3. /\ script' \in [Flow -> Flow \cup {NULL}] /\ script'[f] = f
        /\ \A g \in Flow : script'[g] # script[g] /\ g # f => SameMs /\ script'[g] = f
    BY <1>3 DEF Data, DataTypes
  <2>4. \A g \in Flow : ScriptFits(g)'
    <3> SUFFICES ASSUME NEW g \in Flow PROVE ScriptFits(g)'
      OBVIOUS
    <3>1. ScriptFits(g)
      BY DEF Data
    <3> QED BY <1>3, <2>1, <2>2, <2>3, <3>1 DEF ScriptFits
  <2>5. Data'
    BY <1>3, <2>1, <2>2, <2>3, <2>4, FilesStay, KeepsPath DEF Data, DataTypes
  <2> QED BY <2>1, <2>5
<1> QED BY <1>2, <1>3 DEF CodeWrites

(* What a script answers is of the flow that ran it.                       *)
LEMMA CodeRunsData ==
    ASSUME Control, Data, NEW f \in Flow, CodeRuns(f) PROVE Control' /\ Data'
<1>1. /\ pc[f] = "code" /\ Result(f, "CODE")
      /\ Works \/ Breaks(f, "other")
      /\ script' = [script EXCEPT ![f] = NULL] /\ UNCHANGED files
      /\ Carries(f, Of(script[f], "output"), "text", st[f].path) \/ UNCHANGED st
  BY DEF CodeRuns
<1>2. "CODE" \in PASS \ {"RESPOND"}
  BY DEF PASS
<1>3. /\ Control' /\ UNCHANGED <<task, plan>>
      /\ next'[f] = next[f] + 1 /\ pc'[f] = "run" /\ pc[f] # "idle"
      /\ \A g \in Flow : g # f => pc'[g] = pc[g] /\ next'[g] = next[g]
  BY <1>1, <1>2, ResultControl
<1>4. /\ script' \in [Flow -> Flow \cup {NULL}]
      /\ \A g \in Flow : g # f => script'[g] = script[g]
  BY <1>1 DEF Data, DataTypes
<1>5. \A g \in Flow : ScriptFits(g)'
  BY <1>3, <1>4 DEF Data, ScriptFits
<1>6. /\ failed' \in [Flow -> SUBSET {"curl", "ffmpeg", "other"}]
      /\ failed[f] \subseteq failed'[f]
      /\ \A g \in Flow : g # f => failed'[g] = failed[g]
  <2>1. CASE Works
    BY <2>1 DEF Works, Data, DataTypes
  <2>2. CASE Breaks(f, "other")
    BY <2>2, Breaking
  <2> QED BY <1>1, <2>1, <2>2
<1>7. task[f] # NULL
  BY <1>3 DEF Control
<1>10. /\ files' \in [Path -> Content \cup {NULL}] /\ FilesFit'
       /\ \A q \in Path : files[q] # NULL => files'[q] # NULL
  BY <1>1, <1>3, FilesStay
<1>8. CASE UNCHANGED st
  BY <1>1, <1>3, <1>4, <1>5, <1>6, <1>7, <1>8, <1>10, KeepsPath DEF Data, DataTypes
<1>9. CASE Carries(f, Of(script[f], "output"), "text", st[f].path)
  <2>1. ScriptFits(f) /\ DataTypes /\ st[f].path \in Path \cup {NULL}
    BY DEF Data, DataTypes, State
  <2>2. script[f] \in Flow /\ MayHave(f, script[f])
    BY <1>1, <2>1 DEF ScriptFits, MayHave
  <2>3. Of(script[f], "output") \in Content /\ Of(script[f], "output").of = {script[f]}
    BY <2>2, ContentOK DEF What
  <2>5. MayHold(f, Of(script[f], "output"))
    BY <2>2, <2>3 DEF MayHold
  <2>4. /\ st' \in [Flow -> State] /\ st'[f].data = Of(script[f], "output")
        /\ st'[f].path = st[f].path /\ \A g \in Flow : g # f => st'[g] = st[g]
    BY <1>9, <2>1, <2>3, Carried
  <2> QED BY <1>1, <1>3, <1>4, <1>5, <1>6, <1>7, <1>10, <2>4, <2>5, KeepsPath
<1> QED BY <1>1, <1>3, <1>8, <1>9

(* A flow responds once, and with its own data.                            *)
LEMMA RespondData ==
    ASSUME Control, Data, NEW f \in Flow, Respond(f) PROVE Control' /\ Data'
<1>1. Control' /\ pc'[f] = "done" /\ \A g \in Flow : g # f => pc'[g] = pc[g]
  BY RespondControl
<1>2. UNCHANGED <<task, plan, next, st, failed, files, script>> /\ task[f] # NULL
  BY DEF Respond, At, Control
<1>3. script' \in [Flow -> Flow \cup {NULL}] /\ \A g \in Flow : ScriptFits(g)'
  BY <1>1, <1>2, ScriptsStay
<1>4. Data'
  BY <1>1, <1>2, <1>3, FilesStay, KeepsPath DEF Data, DataTypes
<1> QED BY <1>1, <1>4

(* A call changes no data, and what the others have was of tasks already   *)
(* given.                                                                  *)
LEMMA UnfoldData ==
    ASSUME Control, Data, NEW f \in Flow, Unfold(f) PROVE Control' /\ Data'
<1>1. /\ Control' /\ task[f] = NULL /\ task'[f] # NULL
      /\ \A g \in Flow : g # f => pc'[g] = pc[g] /\ task'[g] = task[g] /\ plan'[g] = plan[g]
  BY UnfoldControl
<1>2. UNCHANGED <<next, st, failed, files, script>> /\ pc[f] = "idle" /\ pc'[f] = "run"
  BY DEF Unfold, Control
<1>3. \A g \in Flow : task[g] # NULL => task'[g] = task[g]
  BY <1>1
<1>4. \A g, h \in Flow : task[g] # NULL /\ MayHave(g, h) => MayHave(g, h)'
  BY <1>3 DEF MayHold, MayHave, Exempt, ReadsPath, Lists
<1>5. DataTypes'
  BY <1>2 DEF Data, DataTypes
<1>6. FilesFit'
  <2>1. FilesFit /\ DataTypes
    BY DEF Data
  <2>2. \A p \in Path : files[p] # NULL => files[p].of \subseteq Flow
    BY <2>1, ContentOK DEF DataTypes
  <2>3. ASSUME NEW x \in File, NEW e \in Ext, files'[<<x, e>>] # NULL,
               NEW g \in files'[<<x, e>>].of
        PROVE  task'[g] # NULL /\ task'[g].file = x
    BY <1>2, <1>3, <2>1, <2>2, <2>3, PathKinds DEF FilesFit
  <2>4. ASSUME NEW k \in {"note", "out", "row"}, NEW g \in Flow, files'[<<k, g>>] # NULL
        PROVE  task'[g] # NULL /\ MayHold(g, files[<<k, g>>])'
    <3>1. task[g] # NULL /\ MayHold(g, files[<<k, g>>])
      BY <1>2, <2>1, <2>4 DEF FilesFit
    <3>2. files' = files /\ <<k, g>> \in Path
      BY <1>2, PathKinds
    <3>3. ASSUME NEW h \in files[<<k, g>>].of PROVE MayHave(g, h)'
      <4>1. MayHave(g, h) /\ h \in Flow
        BY <3>1 DEF MayHold, MayHave
      <4> QED BY <1>4, <3>1, <4>1
    <3> QED BY <1>3, <3>1, <3>2, <3>3 DEF MayHold
  <2>5. files'[NAMED] # NULL => \A g \in files'[NAMED].of : task'[g] # NULL
    BY <1>2, <1>3, <2>1, <2>2, PathKinds DEF FilesFit
  <2> QED BY <2>3, <2>4, <2>5 DEF FilesFit
<1>7. FlowFits(f)'
  BY <1>1, <1>2 DEF Data, FlowFits, MayBeAt
<1>8. ASSUME NEW g \in Flow, g # f PROVE FlowFits(g)'
  <2>1. FlowFits(g)
    BY DEF Data
  <2>2. CASE task[g] = NULL
    <3>1. pc[g] = "idle" /\ pc'[g] = "idle" /\ st' = st
      BY <1>1, <1>2, <1>8, <2>2 DEF Control
    <3> QED BY <2>1, <3>1 DEF FlowFits, MayBeAt
  <2>3. CASE task[g] # NULL
    <3>1. /\ pc'[g] = pc[g] /\ task'[g] = task[g] /\ plan'[g] = plan[g]
          /\ next' = next /\ st' = st /\ files' = files /\ failed' = failed
      BY <1>1, <1>2, <1>8
    <3>2. MayBeAt(g, st[g].path)'
      BY <2>1, <3>1 DEF FlowFits, MayBeAt, Exempt, ReadsPath, Lists
    <3>3. st'[g].data # NULL => MayHold(g, st[g].data)'
      BY <1>3, <2>1, <2>3, <3>1 DEF FlowFits, MayHold, MayHave, Exempt, ReadsPath, Lists
    <3> QED BY <2>1, <3>1, <3>2, <3>3 DEF FlowFits
  <2> QED BY <2>2, <2>3
<1>9. \A g \in Flow : ScriptFits(g)'
  BY <1>1, <1>2, <1>3 DEF Data, ScriptFits
<1> QED BY <1>1, <1>5, <1>6, <1>7, <1>8, <1>9 DEF Data

-----------------------------------------------------------------------------
Inv == Control /\ Data

(* The invariant holds at first.                                           *)
LEMMA InvInit == Init => Inv
<1> SUFFICES ASSUME Init PROVE Inv
  OBVIOUS
<1>1. /\ <<>> \in Seq([pass : PASS, error : BOOLEAN])
      /\ newFlowState \in State /\ newFlowState.path = NULL /\ newFlowState.data = NULL
  BY DEF newFlowState, State
<1>2. Control
  BY <1>1 DEF Init, Control, LogFits
<1>3. DataTypes
  <2>1. st \in [Flow -> State] /\ failed \in [Flow -> SUBSET {"curl", "ffmpeg", "other"}]
    BY <1>1 DEF Init
  <2> QED BY <2>1 DEF Init, DataTypes
<1>4. FilesFit
  BY PathKinds DEF Init, FilesFit
<1>5. \A f \in Flow : FlowFits(f) /\ ScriptFits(f)
  BY <1>1 DEF Init, FlowFits, ScriptFits, MayBeAt
<1> QED BY <1>2, <1>3, <1>4, <1>5 DEF Inv, Data

(* Every step keeps the invariant.                                         *)
LEMMA InvNext == Inv /\ [Next]_vars => Inv'
<1> SUFFICES ASSUME Control, Data, [Next]_vars PROVE Control' /\ Data'
  BY DEF Inv
<1>1. ASSUME NEW f \in Flow, Pass(f) PROVE Control' /\ Data'
  BY <1>1, MemoryData, FetchBinaryData, WhisperData, FfmpegData, CodeWritesData,
     CodeRunsData, StoreData, RecallData, RespondData DEF Pass
<1>2. ASSUME NEW f \in Flow, Unfold(f) PROVE Control' /\ Data'
  BY <1>2, UnfoldData
<1>3. CASE UNCHANGED vars
  <2>1. Control'
    <3>1. UNCHANGED <<task, plan, pc, next, log>>
      BY <1>3 DEF vars
    <3>2. \A f \in Flow : LogFits(f)'
      BY <3>1 DEF Control, LogFits
    <3> QED BY <3>1, <3>2 DEF Control
  <2>2. Data'
    BY <1>3 DEF vars, Data, DataTypes, FilesFit, FlowFits, ScriptFits, MayBeAt, MayHold, MayHave, Exempt, ReadsPath, Lists
  <2> QED BY <2>1, <2>2
<1> QED BY <1>1, <1>2, <1>3 DEF Next

(* So it always holds.                                                     *)
LEMMA Invariance == Spec => []Inv
BY InvInit, InvNext, PTL DEF Spec

(* Every flow follows the plan of its task, and every path and content is  *)
(* of its kind.                                                            *)
THEOREM TypeCorrect == Spec => []TypeOK
<1>1. ASSUME Inv PROVE TypeOK
  <2>1. Control /\ DataTypes
    BY <1>1 DEF Inv, Data
  <2>2. ASSUME NEW f \in Flow, task[f] # NULL
        PROVE  plan[f].passes \in Seq(PASS) /\ Len(plan[f].hints) = Len(plan[f].passes)
    BY <2>1, <2>2, PlansGood DEF GoodPlan, GoodPasses
  <2>3. ASSUME NEW f \in Flow, pc[f] = "run" PROVE Len(log[f]) = next[f] - 1
    BY <2>1, <2>3 DEF Control, LogFits
  <2> QED BY <2>1, <2>2, <2>3 DEF TypeOK, Control, DataTypes
<1> QED BY <1>1, Invariance, PTL

(* After an error there is nothing but one RESPOND, and every flow that    *)
(* has ended has responded once, last.                                     *)
THEOREM RespondsOnceAlways == Spec => []RespondsOnce
<1>1. ASSUME Inv PROVE RespondsOnce
  <2> SUFFICES ASSUME NEW f \in Flow, NEW i \in 1 .. Len(log[f])
               PROVE  /\ log[f][i].error => \/ i = Len(log[f]) /\ pc[f] = "respond"
                                            \/ i = Len(log[f]) - 1 /\ pc[f] = "done"
                      /\ log[f][i].pass = "RESPOND" <=> (i = Len(log[f]) /\ pc[f] = "done")
    BY DEF RespondsOnce
  <2>1. LogFits(f) /\ pc[f] \in {"idle", "run", "code", "respond", "done"}
    BY <1>1 DEF Inv, Control
  <2>2. Len(log[f]) \in Nat
    BY <1>1 DEF Inv, Control
  <2>3. CASE pc[f] \in {"idle", "run", "code"}
    BY <2>1, <2>2, <2>3 DEF LogFits, Clean
  <2>4. CASE pc[f] = "respond"
    BY <2>1, <2>2, <2>4 DEF LogFits, Clean
  <2>5. CASE pc[f] = "done"
    BY <2>1, <2>2, <2>5 DEF LogFits, Clean
  <2> QED BY <2>1, <2>3, <2>4, <2>5
<1> QED BY <1>1, Invariance, PTL

(* Where no two flows name scripts, notes or outputs in one millisecond, a *)
(* flow has data of another only when both tasks name one file, or its own *)
(* reads a path or lists what is written for all.                          *)
THEOREM OwnDataAlways == ~SameMs => (Spec => []OwnData)
<1> SUFFICES ASSUME ~SameMs PROVE Spec => []OwnData
  OBVIOUS
<1>1. Inv => OwnData
  BY DEF Inv, Data, FlowFits, MayHold, MayHave, Exempt, ReadsPath, Lists, OwnData
<1> QED BY <1>1, Invariance, PTL

(* The output a flow names exists, unless the download or the conversion   *)
(* has failed.                                                             *)
THEOREM OutputAlwaysExists == Spec => []OutputExists
<1>1. Inv => OutputExists
  BY DEF Inv, Data, FlowFits, OutputExists
<1> QED BY <1>1, Invariance, PTL
=============================================================================
