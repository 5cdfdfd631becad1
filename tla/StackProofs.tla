----------------------------- MODULE StackProofs -----------------------------
(***************************************************************************)
(* Proofs about Stack, for any number of launchers and kernels on one      *)
(* machine and any selection of the services.                              *)
(***************************************************************************)
EXTENDS Stack, TLAPS

(* Which children there can be in which phase: none before the main loop   *)
(* has begun, none alive after a launcher has exited.  The main loop waits *)
(* at a row of the table.                                                  *)
ChildrenFitPhase ==
    \A v \in Supervisor :
        /\ phase[v] \in {"off", "status"} => \A s \in Service : proc[v][s] = "none"
        /\ v \in Launcher /\ phase[v] = "exited" =>
              \A s \in Service : proc[v][s] \in {"none", "dead"}
        /\ phase[v] = "stagger" => at[v] <= Len(STACK)

Inv == TypeOK /\ ChildrenFitPhase

(* The holders of a port are three, and a row of the table is a service.   *)
LEMMA HoldersDiffer ==
    \A v \in Supervisor : /\ <<"probe", v>> # NULL /\ <<"server", v>> # NULL
                          /\ \A w \in Supervisor : /\ <<"probe", v>> # <<"server", w>>
                                                   /\ <<"server", v>> = <<"server", w>> => v = w
                          /\ <<"probe", v>> \in Holder /\ <<"server", v>> \in Holder
BY StackConstantsOK DEF Supervisor, Holder

(* The table of services, and who supervises.                              *)
LEMMA TableOK ==
    /\ Len(STACK) \in Nat
    /\ \A i \in 1 .. Len(STACK) : STACK[i] \in Service
    /\ Watched \subseteq Service
    /\ Launcher \subseteq Supervisor /\ Kernel \subseteq Supervisor
    /\ Launcher \cap Kernel = {} /\ StatusOnly \subseteq Launcher
BY StackConstantsOK DEF Service, Watched, Supervisor

(* A server has the port of its service, and only one server has.          *)
PortsFit(pt, pr) ==
    /\ pt \in [Service -> Holder]
    /\ pr \in [Supervisor -> [Service -> Alive \cup {"none", "dead"}]]
    /\ \A s \in Service, v \in Supervisor :
          pt[s] = <<"server", v>> <=> pr[v][s] \in {"up", "stopping"}

(* The invariant holds at first.                                           *)
LEMMA InvInit == Init => Inv
BY TableOK, HoldersDiffer, StackConstantsOK
   DEF Init, Inv, TypeOK, ChildrenFitPhase, Holder, Alive, Phase, Asked, Supervisor

(* Stated pointwise, with any two servers of one port told apart.          *)
LEMMA PortsFitPoints ==
    ASSUME NEW pt \in [Service -> Holder],
           NEW pr \in [Supervisor -> [Service -> Alive \cup {"none", "dead"}]],
           \A s \in Service, v \in Supervisor :
              pt[s] = <<"server", v>> <=> pr[v][s] \in {"up", "stopping"}
    PROVE  PortsFit(pt, pr)
BY DEF PortsFit

(* One child becomes x.                                                    *)
LEMMA ProcSet ==
    ASSUME PortsFit(port, proc), NEW v \in Supervisor, NEW s \in Service,
           NEW x \in Alive \cup {"none", "dead"}, proc' = [proc EXCEPT ![v][s] = x]
    PROVE  /\ proc' \in [Supervisor -> [Service -> Alive \cup {"none", "dead"}]]
           /\ \A w \in Supervisor, t \in Service :
                 proc'[w][t] = IF w = v /\ t = s THEN x ELSE proc[w][t]
BY DEF PortsFit

(* One port gets the holder x.                                             *)
LEMMA PortSet ==
    ASSUME PortsFit(port, proc), NEW s \in Service,
           NEW x \in Holder, port' = [port EXCEPT ![s] = x]
    PROVE  /\ port' \in [Service -> Holder]
           /\ \A t \in Service : port'[t] = IF t = s THEN x ELSE port[t]
BY DEF PortsFit

(* The ports under a probe that binds or closes.                           *)
LEMMA ProbeKeeps ==
    ASSUME PortsFit(port, proc), NEW v \in Supervisor, NEW s \in Service,
           ProbeBinds(v, s) \/ ProbeCloses(v, s), proc' = proc
    PROVE  PortsFit(port', proc')
<1> DEFINE x == IF ProbeBinds(v, s) THEN <<"probe", v>> ELSE NULL
<1>1. /\ x \in Holder /\ port' = [port EXCEPT ![s] = x]
      /\ \A w \in Supervisor : x # <<"server", w>> /\ port[s] # <<"server", w>>
  BY HoldersDiffer DEF ProbeBinds, ProbeCloses, Holder
<1> HIDE DEF x
<1>2. /\ port' \in [Service -> Holder]
      /\ \A t \in Service : port'[t] = IF t = s THEN x ELSE port[t]
  BY <1>1, PortSet
<1>3. QED
  BY <1>1, <1>2 DEF PortsFit

(* The ports when a server gets its port, or ends.                         *)
LEMMA ListenKeeps ==
    ASSUME PortsFit(port, proc), NEW v \in Supervisor, NEW s \in Service, Listen(v, s)
    PROVE  PortsFit(port', proc')
<1>1. CASE port[s] = NULL
  <2> DEFINE x == <<"server", v>>
  <2>1. /\ x \in Holder /\ port' = [port EXCEPT ![s] = x]
        /\ proc' = [proc EXCEPT ![v][s] = "up"] /\ "up" \in Alive
        /\ \A w \in Supervisor : x = <<"server", w>> <=> w = v
        /\ \A w \in Supervisor : port[s] # <<"server", w>>
    BY <1>1, HoldersDiffer DEF Listen, Alive
  <2> HIDE DEF x
  <2>2. /\ port' \in [Service -> Holder]
        /\ \A t \in Service : port'[t] = IF t = s THEN x ELSE port[t]
    BY <2>1, PortSet
  <2>3. /\ proc' \in [Supervisor -> [Service -> Alive \cup {"none", "dead"}]]
        /\ \A w \in Supervisor, t \in Service :
              proc'[w][t] = IF w = v /\ t = s THEN "up" ELSE proc[w][t]
    BY <2>1, ProcSet
  <2>4. QED
    BY <2>1, <2>2, <2>3 DEF PortsFit
<1>2. CASE port[s] # NULL
  <2>1. proc' = [proc EXCEPT ![v][s] = "dead"] /\ port' = port /\ proc[v][s] = "starting"
    BY <1>2 DEF Listen
  <2>2. /\ proc' \in [Supervisor -> [Service -> Alive \cup {"none", "dead"}]]
        /\ \A w \in Supervisor, t \in Service :
              proc'[w][t] = IF w = v /\ t = s THEN "dead" ELSE proc[w][t]
    BY <2>1, ProcSet
  <2>3. QED
    BY <2>1, <2>2 DEF PortsFit
<1>3. QED
  BY <1>1, <1>2

(* A child that dies frees the port it had.                                *)
LEMMA DiesKeeps ==
    ASSUME PortsFit(port, proc), NEW v \in Supervisor, NEW s \in Service,
           proc[v][s] \in {"up", "stopping"}, Dies(v, s)
    PROVE  PortsFit(port', proc')
<1>1. /\ NULL \in Holder /\ port' = [port EXCEPT ![s] = NULL]
      /\ proc' = [proc EXCEPT ![v][s] = "dead"] /\ port[s] = <<"server", v>>
      /\ \A w \in Supervisor : NULL # <<"server", w>>
  BY HoldersDiffer DEF Dies, PortsFit, Holder
<1>5. \A w \in Supervisor : port[s] = <<"server", w>> => v = w
  BY <1>1, HoldersDiffer
<1>2. /\ port' \in [Service -> Holder]
      /\ \A t \in Service : port'[t] = IF t = s THEN NULL ELSE port[t]
  BY <1>1, PortSet
<1>3. /\ proc' \in [Supervisor -> [Service -> Alive \cup {"none", "dead"}]]
      /\ \A w \in Supervisor, t \in Service :
            proc'[w][t] = IF w = v /\ t = s THEN "dead" ELSE proc[w][t]
  BY <1>1, ProcSet
<1>4. QED
  BY <1>1, <1>2, <1>3, <1>5 DEF PortsFit

(* A signal to the children changes no port.                               *)
LEMMA SignalKeeps ==
    ASSUME PortsFit(port, proc), NEW v \in Supervisor, Signal(v)
    PROVE  PortsFit(port', proc')
BY DEF PortsFit, Signal, Terminated, Alive

(* A launcher that kills its children and exits frees their ports.         *)
LEMMA KillKeeps ==
    ASSUME PortsFit(port, proc), NEW v \in Launcher, KillAndExit(v)
    PROVE  PortsFit(port', proc')
<1> DEFINE mine == {"probe", "server"} \X {v}
<1>1. /\ \A t \in Service : port'[t] = IF port[t] \in mine THEN NULL ELSE port[t]
      /\ \A w \in Supervisor, t \in Service :
            proc'[w][t] = IF w = v /\ proc[w][t] \in Alive THEN "dead" ELSE proc[w][t]
      /\ port' \in [Service -> Holder]
      /\ proc' \in [Supervisor -> [Service -> Alive \cup {"none", "dead"}]]
  BY TableOK DEF PortsFit, KillAndExit, Released, Holder
<1>2. \A w \in Supervisor : /\ <<"server", w>> \in mine <=> w = v
                            /\ NULL # <<"server", w>>
  BY HoldersDiffer
<1> HIDE DEF mine
<1>3. ASSUME NEW t \in Service, NEW w \in Supervisor
      PROVE  port'[t] = <<"server", w>> <=> proc'[w][t] \in {"up", "stopping"}
  <2>1. port[t] = <<"server", w>> <=> proc[w][t] \in {"up", "stopping"}
    BY DEF PortsFit
  <2>2. CASE w = v
    <3>1. port'[t] # <<"server", w>>
      BY <1>1, <1>2, <2>2
    <3>2. proc'[w][t] \notin {"up", "stopping"}
      BY <1>1, <2>2 DEF Alive
    <3>3. QED
      BY <3>1, <3>2
  <2>3. CASE w # v
    <3>1. port'[t] = <<"server", w>> <=> port[t] = <<"server", w>>
      BY <1>1, <1>2, <2>3
    <3>2. proc'[w][t] = proc[w][t]
      BY <1>1, <2>3
    <3>3. QED
      BY <2>1, <3>1, <3>2
  <2>4. QED
    BY <2>2, <2>3
<1>4. QED
  BY <1>1, <1>3 DEF PortsFit

-----------------------------------------------------------------------------
(* Ports and phases in every step.                                         *)

(* What the other variables may be.                                        *)
RestOK ==
    /\ phase \in [Supervisor -> Phase]
    /\ at \in [Supervisor -> 1 .. Len(STACK) + 1]
    /\ closing \in [Supervisor -> BOOLEAN]
    /\ health \in [Launcher -> [Watched -> Asked]]
    /\ active \in {NULL, "phi-primary", "phi-mirror"}
    /\ loads \subseteq Launcher /\ lost \subseteq Service

(* The type invariant in two parts.                                        *)
LEMMA TypeParts == TypeOK <=> PortsFit(port, proc) /\ RestOK
BY DEF TypeOK, PortsFit, RestOK

(* Every step keeps the invariant.                                         *)
LEMMA InvNext == Inv /\ [Next]_vars => Inv'
<1> SUFFICES ASSUME Inv, [Next]_vars PROVE Inv'
  OBVIOUS
<1>k. PortsFit(port, proc) /\ RestOK /\ ChildrenFitPhase
  BY TypeParts DEF Inv
<1> DEFINE Good == PortsFit(port', proc') /\ RestOK' /\ ChildrenFitPhase'
<1>g. ASSUME Good PROVE Inv'
  BY <1>g DEF Inv, TypeOK, PortsFit, RestOK
<1>r. ASSUME NEW v \in Launcher, InTable(v) PROVE Here(v) \in Service /\ at[v] + 1 \in 1 .. Len(STACK) + 1
  BY <1>k, <1>r, TableOK DEF RestOK, InTable, Here
<1> USE TableOK
<1>1. ASSUME NEW v \in Launcher, Launch(v) PROVE Good
  BY <1>1, <1>k DEF Launch, RestOK, Phase, ChildrenFitPhase, procVars
<1>2. ASSUME NEW v \in Launcher, StatusRow(v) PROVE Good
  <2>1. /\ ProbeBinds(v, Here(v)) \/ ProbeCloses(v, Here(v)) \/ port' = port
        /\ at' = at \/ NextRow(v)
        /\ UNCHANGED <<proc, lost, phase, closing, health, active, loads>>
        /\ Here(v) \in Service /\ at[v] + 1 \in 1 .. Len(STACK) + 1
    BY <1>2, <1>r DEF StatusRow
  <2>2. PortsFit(port', proc')
    BY <2>1, <1>k, ProbeKeeps
  <2>3. RestOK'
    BY <2>1, <1>k DEF RestOK, NextRow
  <2>4. ChildrenFitPhase'
    <3>1. phase[v] = "status"
      BY <1>2 DEF StatusRow
    <3>2. \A w \in Supervisor : w # v => at'[w] = at[w]
      BY <2>1, <1>k DEF RestOK, NextRow
    <3>3. QED
      BY <2>1, <3>1, <3>2, <1>k DEF ChildrenFitPhase
  <2>5. QED
    BY <2>2, <2>3, <2>4
<1>3. ASSUME NEW v \in Launcher, ShowModels(v) PROVE Good
  BY <1>3, <1>k DEF ShowModels, RestOK, Phase, ChildrenFitPhase, procVars
<1>4. ASSUME NEW v \in Launcher, LoopSkips(v) PROVE Good
  BY <1>4, <1>k, <1>r DEF LoopSkips, RestOK, ChildrenFitPhase, NextRow
<1>5. ASSUME NEW v \in Launcher, LoopProbes(v) PROVE Good
  BY <1>5, <1>k, <1>r, ProbeKeeps DEF LoopProbes, RestOK, ChildrenFitPhase, runVars
<1>7. ASSUME NEW v \in Launcher, Stagger(v) PROVE Good
  BY <1>7, <1>k DEF Stagger, RestOK, Phase, ChildrenFitPhase, NextRow, procVars
<1>8. ASSUME NEW v \in Launcher, StackRunning(v) PROVE Good
  BY <1>8, <1>k DEF StackRunning, RestOK, Phase, ChildrenFitPhase, procVars
<1>9. ASSUME NEW v \in Launcher, CycleStarts(v) PROVE Good
  BY <1>9, <1>k DEF CycleStarts, RestOK, Asked, ChildrenFitPhase, procVars, runVars
<1>10. ASSUME NEW v \in Launcher, NEW s \in Watched, CycleProbes(v, s) PROVE Good
  <2>1. /\ ProbeBinds(v, s) \/ ProbeCloses(v, s) \/ port' = port
        /\ \/ health' = health
           \/ \E x \in {"DOWN", "HEALTHY"} : health' = [health EXCEPT ![v][s] = x]
        /\ UNCHANGED <<proc, lost, phase, at, closing, active, loads>>
    BY <1>10 DEF CycleProbes, runVars
  <2>2. PortsFit(port', proc')
    BY <2>1, <1>k, ProbeKeeps
  <2>3. health' \in [Launcher -> [Watched -> Asked]]
    <3>1. CASE health' = health
      BY <3>1, <1>k DEF RestOK
    <3>2. ASSUME NEW x \in {"DOWN", "HEALTHY"}, health' = [health EXCEPT ![v][s] = x]
          PROVE  health' \in [Launcher -> [Watched -> Asked]]
      <4>1. x \in Asked
        BY DEF Asked
      <4>2. health \in [Launcher -> [Watched -> Asked]]
        BY <1>k DEF RestOK
      <4>3. QED
        BY <3>2, <4>1, <4>2
    <3>3. QED
      BY <2>1, <3>1, <3>2
  <2>4. RestOK'
    BY <2>1, <2>3, <1>k DEF RestOK
  <2>5. ChildrenFitPhase'
    BY <2>1, <1>k DEF ChildrenFitPhase
  <2>6. QED
    BY <2>2, <2>4, <2>5
<1>11. ASSUME NEW v \in Launcher, CycleWrites(v) PROVE Good
  BY <1>11, <1>k DEF CycleWrites, ActiveServer, RestOK, Asked, ChildrenFitPhase, procVars, runVars
<1>12. ASSUME NEW v \in Launcher, KillAndExit(v) PROVE Good
  <2>1. PortsFit(port', proc')
    BY <1>12, <1>k, KillKeeps
  <2>2. RestOK'
    BY <1>12, <1>k DEF KillAndExit, RestOK, Phase
  <2>3. \A w \in Supervisor, t \in Service :
           /\ w # v => proc'[w][t] = proc[w][t]
           /\ proc'[v][t] \in {"none", "dead"}
    BY <1>12, <1>k DEF KillAndExit, PortsFit, Alive
  <2>4. phase' = [phase EXCEPT ![v] = "exited"] /\ at' = at
    BY <1>12 DEF KillAndExit
  <2>5. ChildrenFitPhase'
    <3>1. \A w \in Supervisor : phase'[w] = IF w = v THEN "exited" ELSE phase[w]
      BY <2>4, <1>k DEF RestOK
    <3>2. QED
      BY <2>3, <2>4, <3>1, <1>k DEF ChildrenFitPhase
  <2>6. QED
    BY <2>1, <2>2, <2>5
<1>13. ASSUME NEW v \in Kernel, KernelExits(v) PROVE Good
  BY <1>13, <1>k DEF KernelExits, RestOK, Phase, ChildrenFitPhase, procVars
<1>14. ASSUME NEW v \in Supervisor, NEW s \in Service, Listen(v, s) PROVE Good
  <2>1. PortsFit(port', proc')
    BY <1>14, <1>k, ListenKeeps
  <2>2. RestOK'
    BY <1>14, <1>k DEF Listen, RestOK, runVars
  <2>3. /\ \E x \in {"up", "dead"} : proc' = [proc EXCEPT ![v][s] = x]
        /\ proc[v][s] = "starting" /\ UNCHANGED <<phase, at>>
    BY <1>14 DEF Listen, runVars
  <2>4. ChildrenFitPhase'
    BY <2>3, <1>k, ProcSet DEF ChildrenFitPhase, Alive
  <2>5. QED
    BY <2>1, <2>2, <2>4
<1>15. ASSUME NEW v \in Supervisor, NEW s \in Service, ChildExits(v, s) \/ Crash(v, s)
       PROVE  Good
  <2>1. /\ proc[v][s] \in {"up", "stopping"} /\ Dies(v, s)
        /\ UNCHANGED <<lost, phase, at, closing, health, active, loads>>
        /\ proc' = [proc EXCEPT ![v][s] = "dead"]
    BY <1>15 DEF ChildExits, Crash, Dies, runVars
  <2>2. PortsFit(port', proc')
    BY <2>1, <1>k, DiesKeeps
  <2>3. RestOK'
    BY <2>1, <1>k DEF RestOK
  <2>4. ChildrenFitPhase'
    BY <2>1, <1>k, ProcSet DEF ChildrenFitPhase
  <2>5. QED
    BY <2>2, <2>3, <2>4
<1>16. ASSUME NEW v \in Supervisor, Signal(v) PROVE Good
  <2>1. PortsFit(port', proc')
    BY <1>16, <1>k, SignalKeeps
  <2>2. RestOK'
    BY <1>16, <1>k DEF Signal, RestOK
  <2>3. /\ phase[v] \notin {"off", "exited"} /\ UNCHANGED <<phase, at>>
        /\ \A w \in Supervisor, t \in Service :
              proc'[w][t] = proc[w][t] \/ (w = v /\ proc[w][t] # "none")
    <3>1. phase[v] \notin {"off", "exited"} /\ UNCHANGED <<phase, at>>
      BY <1>16 DEF Signal, Runs
    <3>2. \A t \in Service : Terminated(v)[t] = proc[v][t] \/ proc[v][t] # "none"
      BY DEF Terminated
    <3>3. \A w \in Supervisor : proc'[w] = IF w = v THEN Terminated(v) ELSE proc[w]
      BY <1>16, <1>k DEF Signal, PortsFit
    <3>4. ASSUME NEW w \in Supervisor, NEW t \in Service
          PROVE  proc'[w][t] = proc[w][t] \/ (w = v /\ proc[w][t] # "none")
      <4>1. CASE w = v
        BY <3>2, <3>3, <4>1
      <4>2. CASE w # v
        BY <3>3, <4>2
      <4>3. QED
        BY <4>1, <4>2
    <3>5. QED
      BY <3>1, <3>4
  <2>4. ChildrenFitPhase'
    BY <2>3, <1>k DEF ChildrenFitPhase
  <2>5. QED
    BY <2>1, <2>2, <2>4
<1>6. ASSUME NEW v \in Launcher, LoopSpawns(v) PROVE Good
  <2> DEFINE s == Here(v)
  <2>1. /\ s \in Service /\ ProbeCloses(v, s) /\ at[v] <= Len(STACK)
        /\ proc' = [proc EXCEPT ![v][s] = "starting"] /\ "starting" \in Alive
        /\ phase[v] = "loop" /\ phase' = [phase EXCEPT ![v] = "stagger"]
        /\ UNCHANGED <<lost, at, closing, health, active, loads>>
    BY <1>6, <1>r DEF LoopSpawns, Spawn, InTable, Alive
  <2> HIDE DEF s
  <2>2. PortsFit(port', proc')
    <3>1. /\ NULL \in Holder /\ port[s] = <<"probe", v>>
          /\ port' = [port EXCEPT ![s] = NULL]
          /\ \A w \in Supervisor : port[s] # <<"server", w>> /\ NULL # <<"server", w>>
      BY <2>1, HoldersDiffer DEF ProbeCloses, Holder
    <3>2. /\ port' \in [Service -> Holder]
          /\ \A t \in Service : port'[t] = IF t = s THEN NULL ELSE port[t]
      BY <2>1, <3>1, <1>k, PortSet
    <3>3. /\ proc' \in [Supervisor -> [Service -> Alive \cup {"none", "dead"}]]
          /\ \A w \in Supervisor, t \in Service :
                proc'[w][t] = IF w = v /\ t = s THEN "starting" ELSE proc[w][t]
      BY <2>1, <1>k, ProcSet
    <3>4. ASSUME NEW t \in Service, NEW w \in Supervisor
          PROVE  port'[t] = <<"server", w>> <=> proc'[w][t] \in {"up", "stopping"}
      <4>1. port[t] = <<"server", w>> <=> proc[w][t] \in {"up", "stopping"}
        BY <1>k DEF PortsFit
      <4>2. CASE t = s
        BY <3>1, <3>2, <3>3, <4>1, <4>2
      <4>3. CASE t # s
        BY <3>2, <3>3, <4>1, <4>3
      <4>4. QED
        BY <4>2, <4>3
    <3>5. QED
      BY <3>2, <3>3, <3>4 DEF PortsFit
  <2>3. RestOK'
    BY <2>1, <1>k DEF RestOK, Phase
  <2>4. ChildrenFitPhase'
    BY <2>1, <1>k, ProcSet DEF ChildrenFitPhase, RestOK
  <2>5. QED
    BY <2>2, <2>3, <2>4
<1>17. ASSUME NEW v \in Kernel, KernelBoots(v) PROVE Good
  <2>1. /\ phase[v] = "off" /\ phase' = [phase EXCEPT ![v] = "serving"]
        /\ UNCHANGED <<port, lost, at, closing, health, active, loads>>
        /\ proc' = [proc EXCEPT ![v] = [s \in Service |-> "starting"]]
    BY <1>17 DEF KernelBoots
  <2>2. \A s \in Service : proc[v][s] = "none"
    BY <2>1, <1>k DEF ChildrenFitPhase
  <2>3. PortsFit(port', proc')
    BY <2>1, <2>2, <1>k DEF PortsFit, Alive
  <2>4. RestOK' /\ ChildrenFitPhase'
    BY <2>1, <1>k DEF RestOK, Phase, ChildrenFitPhase, PortsFit
  <2>5. QED
    BY <2>3, <2>4
<1>18. CASE UNCHANGED vars
  <2>1. PortsFit(port', proc') /\ RestOK' /\ ChildrenFitPhase'
    BY <1>18, <1>k DEF vars, procVars, runVars, RestOK, ChildrenFitPhase
  <2>2. QED
    BY <2>1, <1>g
<1> HIDE DEF Good
<1>19. QED
  BY <1>1, <1>2, <1>3, <1>4, <1>5, <1>6, <1>7, <1>8, <1>9, <1>10, <1>11, <1>12, <1>13,
     <1>14, <1>15, <1>16, <1>17, <1>18, <1>g, Zenon DEF Next, LauncherStep, ChildStep

(* Every port has one holder at most, who is what proc says of it, and no  *)
(* supervisor's loop leaves the table.                                     *)
THEOREM TypeCorrect == Spec => []TypeOK
<1>1. Inv => TypeOK
  BY DEF Inv
<1>2. QED
  BY <1>1, InvInit, InvNext, PTL DEF Spec

(* A launcher that has exited leaves none of its children behind.          *)
THEOREM NoChildOutlivesLauncher == Spec => []NothingOutlivesLauncher
<1>1. Inv => NothingOutlivesLauncher
  BY TableOK DEF Inv, ChildrenFitPhase, NothingOutlivesLauncher
<1>2. QED
  BY <1>1, InvInit, InvNext, PTL DEF Spec

(* Of what stops a child, no step but these two applies to one that serves.*)
LEMMA StopsOwnOnly ==
    ASSUME Inv, [Next]_vars, NEW v \in Supervisor, NEW s \in Service,
           proc[v][s] = "up", proc'[v][s] # "up"
    PROVE  closing'[v] \/ \E w \in Supervisor, t \in Service : Crash(w, t)
<1>k. PortsFit(port, proc) /\ RestOK /\ ChildrenFitPhase
  BY TypeParts DEF Inv
<1>1. proc' # proc
  OBVIOUS
<1>2. CASE \E w \in Launcher : LauncherStep(w)
  <2>1. PICK w \in Launcher : LoopSpawns(w)
    BY <1>1, <1>2, Zenon DEF LauncherStep, Launch, StatusRow, ShowModels, LoopSkips, LoopProbes,
       Stagger, StackRunning, CycleStarts, CycleProbes, CycleWrites, procVars
  <2>2. /\ port[Here(w)] = <<"probe", w>> /\ proc' = [proc EXCEPT ![w][Here(w)] = "starting"]
        /\ w \in Supervisor
    BY <2>1, TableOK DEF LoopSpawns, ProbeCloses, Spawn
  <2>3. port[s] = <<"server", v>>
    BY <1>k DEF PortsFit
  <2>4. Here(w) # s
    BY <2>2, <2>3, HoldersDiffer
  <2>5. QED
    BY <2>2, <2>4, <1>k DEF PortsFit
<1>3. ASSUME NEW w \in Launcher, KillAndExit(w)
      PROVE  closing'[v]
  <2>1. closing[w] /\ closing' = closing
    BY <1>3 DEF KillAndExit
  <2>2. v = w
    BY <1>3, <1>k, TableOK DEF KillAndExit, PortsFit
  <2>3. QED
    BY <2>1, <2>2
<1>4. ASSUME NEW w \in Kernel, KernelBoots(w) PROVE FALSE
  <2>1. phase[w] = "off" /\ proc' = [proc EXCEPT ![w] = [t \in Service |-> "starting"]]
        /\ w \in Supervisor
    BY <1>4, TableOK DEF KernelBoots
  <2>2. v # w
    BY <2>1, <1>k DEF ChildrenFitPhase
  <2>3. QED
    BY <2>1, <2>2, <1>k DEF PortsFit
<1>5. ASSUME NEW w \in Kernel, KernelExits(w) PROVE FALSE
  BY <1>1, <1>5 DEF KernelExits, procVars
<1>6. ASSUME NEW w \in Supervisor, NEW t \in Service, Listen(w, t) PROVE FALSE
  <2>1. /\ proc[w][t] = "starting"
        /\ \E x \in {"up", "dead"} : proc' = [proc EXCEPT ![w][t] = x]
    BY <1>6 DEF Listen
  <2>2. QED
    BY <2>1, <1>k DEF PortsFit
<1>7. ASSUME NEW w \in Supervisor, NEW t \in Service, ChildExits(w, t) PROVE FALSE
  <2>1. proc[w][t] = "stopping" /\ proc' = [proc EXCEPT ![w][t] = "dead"]
    BY <1>7 DEF ChildExits, Dies
  <2>2. QED
    BY <2>1, <1>k DEF PortsFit
<1>8. ASSUME NEW w \in Supervisor, Signal(w) PROVE closing'[v]
  <2>1. v = w
    BY <1>8, <1>k DEF Signal, PortsFit
  <2>2. QED
    BY <2>1, <1>8, <1>k DEF Signal, RestOK
<1>9. CASE UNCHANGED vars
  BY <1>1, <1>9 DEF vars, procVars
<1>10. QED
  BY <1>2, <1>3, <1>4, <1>5, <1>6, <1>7, <1>8, <1>9, Zenon DEF Next, ChildStep

(* A server that serves goes down by its own crash or by a signal to the   *)
(* supervisor that spawned it.                                             *)
THEOREM OnlyOwnStopped == Spec => OnlyOwnChildrenStopped
<1>1. Inv /\ [Next]_vars =>
         [\A v \in Supervisor, s \in Service :
             (proc[v][s] = "up" /\ proc'[v][s] # "up") =>
                 closing'[v] \/ \E w \in Supervisor, t \in Service : Crash(w, t)]_vars
  BY StopsOwnOnly
<1>2. QED
  BY <1>1, InvInit, InvNext, PTL DEF Spec, OnlyOwnChildrenStopped
=============================================================================
