-------------------------------- MODULE Stack --------------------------------
(***************************************************************************)
(* Starting and stopping the processes: launch.mjs probes the port of each *)
(* service by binding it, spawns what is not there, then writes the health *)
(* files from probes every 30 s; boot-kernel.mjs spawns all services       *)
(* without a probe.  Both stop their children on a signal.  Nobody         *)
(* restarts a server that has died, and a server that finds its port taken *)
(* dies of the unhandled 'error' of listen.                                *)
(*                                                                         *)
(* The processes share nothing but the ports, so a port is who holds it: a *)
(* server, or a probe for the moment between its bind and its close.       *)
(***************************************************************************)
EXTENDS Naturals, Sequences, FiniteSets

CONSTANTS
    STACK,       \* the services in order: "MCP-A", "MCP-B", "PROXY"
    Launcher,    \* runs of launch.mjs
    StatusOnly,  \* those with --status
    Kernel,      \* runs of boot-kernel.mjs
    NULL,
    Crashes      \* may servers crash?

ASSUME StackConstantsOK ==
    /\ STACK \in Seq({"MCP-A", "MCP-B", "PROXY"})
    /\ \E i \in 1 .. Len(STACK) : STACK[i] = "MCP-A"
    /\ Launcher \cap Kernel = {}
    /\ NULL \notin {"probe", "server"} \X (Launcher \cup Kernel)
    /\ StatusOnly \subseteq Launcher
    /\ Crashes \in BOOLEAN

Supervisor == Launcher \cup Kernel
Service    == {STACK[i] : i \in 1 .. Len(STACK)}
Watched    == Service \ {"PROXY"}            \* probed by the health writer
Holder     == {NULL} \cup ({"probe", "server"} \X Supervisor)

VARIABLES
    port,     \* who holds the port of each service
    proc,     \* the child of each supervisor for each service
    phase,    \* what each supervisor is doing
    at,       \* the service its loop over STACK has come to
    closing,  \* has it had a signal?
    health,   \* what each launcher's open health cycle knows of the ports
    active,   \* the file active_server
    loads,    \* the supervisors that have asked LM Studio to load a model
    lost      \* services a probe has kept from being started

procVars == <<port, proc, lost>>
runVars  == <<phase, at, closing>>
vars     == <<procVars, runVars, health, active, loads>>

Alive == {"starting", "up", "stopping"}
Phase == {"off", "status", "loop", "stagger", "serving", "exited"}
Asked == {"idle", "asked", "HEALTHY", "DOWN"}

TypeOK ==
    /\ port \in [Service -> Holder]
    /\ proc \in [Supervisor -> [Service -> Alive \cup {"none", "dead"}]]
    /\ phase \in [Supervisor -> Phase]
    /\ at \in [Supervisor -> 1 .. Len(STACK) + 1]
    /\ closing \in [Supervisor -> BOOLEAN]
    /\ health \in [Launcher -> [Watched -> Asked]]
    /\ active \in {NULL, "phi-primary", "phi-mirror"}
    /\ loads \subseteq Launcher /\ lost \subseteq Service
    /\ \A s \in Service, v \in Supervisor :
          port[s] = <<"server", v>> <=> proc[v][s] \in {"up", "stopping"}

Init ==
    /\ port = [s \in Service |-> NULL]
    /\ proc = [v \in Supervisor |-> [s \in Service |-> "none"]]
    /\ phase = [v \in Supervisor |-> "off"]
    /\ at = [v \in Supervisor |-> 1]
    /\ closing = [v \in Supervisor |-> FALSE]
    /\ health = [v \in Launcher |-> [s \in Watched |-> "idle"]]
    /\ active = NULL
    /\ loads = {}
    /\ lost = {}

Runs(v) == phase[v] \notin {"off", "exited"}
Served(s) == port[s] # NULL /\ port[s][1] = "server"

-----------------------------------------------------------------------------
(* portInUse: the port is bound; an error means it is in use, and after a  *)
(* success it is closed again and free.                                    *)

ProbeBinds(v, s) == port[s] = NULL /\ port' = [port EXCEPT ![s] = <<"probe", v>>]
ProbeFails(v, s) == port[s] # NULL /\ port[s] # <<"probe", v>>
ProbeCloses(v, s) ==
    port[s] = <<"probe", v>> /\ port' = [port EXCEPT ![s] = NULL]

-----------------------------------------------------------------------------
(* launch.mjs up to the running stack.                                     *)

(* The dependencies are installed, the LM Studio server is up.             *)
Launch(v) ==
    /\ phase[v] = "off"
    /\ phase' = [phase EXCEPT ![v] = "status"]
    /\ UNCHANGED <<procVars, at, closing, health, active, loads>>

Here(v)      == STACK[at[v]]
NextRow(v)   == at' = [at EXCEPT ![v] = @ + 1]
InTable(v)   == at[v] <= Len(STACK)

(* showStatus probes the ports one after the other and shows the results.  *)
StatusRow(v) ==
    /\ phase[v] = "status" /\ InTable(v)
    /\ \/ ProbeBinds(v, Here(v)) /\ UNCHANGED at
       \/ ProbeCloses(v, Here(v)) /\ NextRow(v)
       \/ ProbeFails(v, Here(v)) /\ NextRow(v) /\ UNCHANGED port
    /\ UNCHANGED <<proc, lost, phase, closing, health, active, loads>>

(* It then lists the models of LM Studio and starts a load of each of the  *)
(* two slots that is not there.  With --status the process ends here.      *)
ShowModelsExits(v) ==
    /\ phase[v] = "status" /\ ~InTable(v)
    /\ loads' \in {loads, loads \cup {v}}
    /\ phase' = [phase EXCEPT ![v] = "exited"]
    /\ UNCHANGED <<procVars, at, closing, health, active>>
ShowModels(v) ==
    /\ phase[v] = "status" /\ ~InTable(v)
    /\ loads' \in {loads, loads \cup {v}}
    /\ phase' = [phase EXCEPT ![v] = IF v \in StatusOnly THEN "exited" ELSE "loop"]
    /\ at' = [at EXCEPT ![v] = 1]
    /\ UNCHANGED <<procVars, closing, health, active>>

Spawn(v, s) ==
    /\ proc' = [proc EXCEPT ![v][s] = "starting"]
    /\ phase' = [phase EXCEPT ![v] = "stagger"]

(* The main loop: probe, then skip or spawn and wait 700 ms.  It does not  *)
(* look at a signal that has come in between.  A port that is busy with    *)
(* the probe of another process counts as 'already up'.  (With --no-proxy  *)
(* the table is without its last row.)                                     *)
LoopSkips(v) ==
    /\ phase[v] = "loop" /\ InTable(v)
    /\ ProbeFails(v, Here(v))
    /\ lost' = IF Served(Here(v)) THEN lost ELSE lost \cup {Here(v)}
    /\ NextRow(v)
    /\ UNCHANGED <<port, proc, phase, closing, health, active, loads>>

LoopProbes(v) ==
    /\ phase[v] = "loop" /\ InTable(v)
    /\ ProbeBinds(v, Here(v))
    /\ UNCHANGED <<proc, lost, runVars, health, active, loads>>

LoopSpawns(v) ==
    /\ phase[v] = "loop" /\ InTable(v)
    /\ ProbeCloses(v, Here(v))
    /\ Spawn(v, Here(v))
    /\ UNCHANGED <<lost, at, closing, health, active, loads>>

Stagger(v) ==
    /\ phase[v] = "stagger"
    /\ NextRow(v)
    /\ phase' = [phase EXCEPT ![v] = "loop"]
    /\ UNCHANGED <<procVars, closing, health, active, loads>>

StackRunning(v) ==
    /\ phase[v] = "loop" /\ ~InTable(v)
    /\ phase' = [phase EXCEPT ![v] = "serving"]
    /\ UNCHANGED <<procVars, at, closing, health, active, loads>>

-----------------------------------------------------------------------------
(* The health writer: at once and every 30 s, three probes side by side,   *)
(* then the files.  (LM Studio's own port is not modelled.)                *)

CycleStarts(v) ==
    /\ phase[v] = "serving"
    /\ health[v] = [s \in Watched |-> "idle"]
    /\ health' = [health EXCEPT ![v] = [s \in Watched |-> "asked"]]
    /\ UNCHANGED <<procVars, runVars, active, loads>>

CycleProbes(v, s) ==
    /\ phase[v] = "serving" /\ health[v][s] = "asked"
    /\ \/ ProbeBinds(v, s) /\ UNCHANGED health
       \/ /\ ProbeCloses(v, s)
          /\ health' = [health EXCEPT ![v][s] = "DOWN"]
       \/ /\ ProbeFails(v, s)
          /\ health' = [health EXCEPT ![v][s] = "HEALTHY"]
          /\ UNCHANGED port
    /\ UNCHANGED <<proc, lost, runVars, active, loads>>

ActiveServerKeeps(st) == IF st["MCP-A"] = "HEALTHY" THEN "phi-primary" ELSE active
ActiveServer(st) == IF st["MCP-A"] = "HEALTHY" THEN "phi-primary" ELSE "phi-mirror"

CycleWrites(v) ==
    /\ phase[v] = "serving"
    /\ \A s \in Watched : health[v][s] \in {"HEALTHY", "DOWN"}
    /\ active' = ActiveServer(health[v])
    /\ health' = [health EXCEPT ![v] = [s \in Watched |-> "idle"]]
    /\ UNCHANGED <<procVars, runVars, loads>>

-----------------------------------------------------------------------------
(* The servers.                                                            *)

Listen(v, s) ==
    /\ proc[v][s] = "starting"
    /\ \/ /\ port[s] = NULL
          /\ port' = [port EXCEPT ![s] = <<"server", v>>]
          /\ proc' = [proc EXCEPT ![v][s] = "up"]
          /\ UNCHANGED lost
       \/ /\ port[s] # NULL                   \* EADDRINUSE, nobody handles it
          /\ proc' = [proc EXCEPT ![v][s] = "dead"]
          /\ lost' = IF Served(s) THEN lost ELSE lost \cup {s}
          /\ UNCHANGED port
    /\ UNCHANGED <<runVars, health, active, loads>>

Dies(v, s) ==
    /\ proc' = [proc EXCEPT ![v][s] = "dead"]
    /\ port' = [port EXCEPT ![s] = NULL]
    /\ UNCHANGED <<lost, runVars, health, active, loads>>

(* The SIGTERM handler of the servers saves and exits, when the code that  *)
(* runs lets it; the proxy has none and dies.                              *)
ChildExits(v, s) == proc[v][s] = "stopping" /\ Dies(v, s)

Crash(v, s) == Crashes /\ proc[v][s] = "up" /\ Dies(v, s)

-----------------------------------------------------------------------------
(* Stopping.                                                               *)

(* SIGTERM to every child.  One that has not yet installed its handler     *)
(* dies of it.                                                             *)
TerminatedServing(v) ==
    [s \in Service |-> IF proc[v][s] = "up" THEN "stopping" ELSE proc[v][s]]
Terminated(v) ==
    [s \in Service |-> CASE proc[v][s] = "up" -> "stopping"
                         [] proc[v][s] = "starting" -> "dead"
                         [] OTHER -> proc[v][s]]

Signal(v) ==
    /\ Runs(v)
    /\ v \in Launcher => ~closing[v]
    /\ closing' = [closing EXCEPT ![v] = TRUE]
    /\ proc' = [proc EXCEPT ![v] = Terminated(v)]
    /\ UNCHANGED <<port, lost, phase, at, health, active, loads>>

(* A process that ends frees the ports it holds.                           *)
Released(v, holders) ==
    [s \in Service |-> IF port[s] \in holders THEN NULL ELSE port[s]]

KillByPort(v) ==
    /\ v \in Launcher /\ Runs(v) /\ closing[v]
    /\ proc' = [w \in Supervisor |->
                   [s \in Service |-> IF proc[w][s] \in Alive THEN "dead" ELSE proc[w][s]]]
    /\ port' = Released(v, {"probe", "server"} \X Supervisor)
    /\ phase' = [phase EXCEPT ![v] = "exited"]
    /\ UNCHANGED <<lost, at, closing, health, active, loads>>

(* launch.mjs, 2.5 s after the signal: SIGKILL to all the children there   *)
(* are by then, and exit.                                                  *)
ExitWithoutKill(v) ==
    /\ v \in Launcher /\ Runs(v) /\ closing[v]
    /\ port' = Released(v, {<<"probe", v>>})
    /\ phase' = [phase EXCEPT ![v] = "exited"]
    /\ UNCHANGED <<proc, lost, at, closing, health, active, loads>>
KillAndExit(v) ==
    /\ v \in Launcher /\ Runs(v) /\ closing[v]
    /\ proc' = [proc EXCEPT ![v] =
                   [s \in Service |-> IF @[s] \in Alive THEN "dead" ELSE @[s]]]
    /\ port' = Released(v, {"probe", "server"} \X {v})
    /\ phase' = [phase EXCEPT ![v] = "exited"]
    /\ UNCHANGED <<lost, at, closing, health, active, loads>>

(* boot-kernel.mjs spawns all services in one turn and probes nothing...   *)
KernelBoots(v) ==
    /\ v \in Kernel /\ phase[v] = "off"
    /\ phase' = [phase EXCEPT ![v] = "serving"]
    /\ proc' = [proc EXCEPT ![v] = [s \in Service |-> "starting"]]
    /\ UNCHANGED <<port, lost, at, closing, health, active, loads>>

(* ... and exits 200 ms after the signal, whoever still runs.              *)
KernelExits(v) ==
    /\ v \in Kernel /\ Runs(v) /\ closing[v]
    /\ phase' = [phase EXCEPT ![v] = "exited"]
    /\ UNCHANGED <<procVars, at, closing, health, active, loads>>

LauncherStep(v) ==
    \/ Launch(v) \/ StatusRow(v) \/ ShowModels(v) \/ LoopSkips(v)
    \/ LoopProbes(v) \/ LoopSpawns(v) \/ Stagger(v) \/ StackRunning(v)
    \/ CycleStarts(v) \/ (\E s \in Watched : CycleProbes(v, s)) \/ CycleWrites(v)

ChildStep(v) == \E s \in Service : Listen(v, s) \/ ChildExits(v, s)

Next ==
    \/ \E v \in Launcher : LauncherStep(v) \/ KillAndExit(v)
    \/ \E v \in Kernel : KernelBoots(v) \/ KernelExits(v)
    \/ \E v \in Supervisor : \/ ChildStep(v) \/ Signal(v)
                             \/ \E s \in Service : Crash(v, s)

Spec == Init /\ [][Next]_vars

(* Every process that can take a step takes it in time, and timers fire.   *)
(* Users need not start or signal anything.                          *)
FairSpec ==
    /\ Spec
    /\ \A v \in Launcher :
          /\ WF_vars(phase[v] # "off" /\ LauncherStep(v))
          /\ \A s \in Watched : WF_vars(CycleProbes(v, s))
          /\ WF_vars(KillAndExit(v))
    /\ \A v \in Supervisor, s \in Service :
          WF_vars(Listen(v, s)) /\ WF_vars(ChildExits(v, s))

-----------------------------------------------------------------------------
(* Properties.                                                             *)

(* A launcher that has exited leaves none of its children behind, although *)
(* its main loop goes on spawning after the signal and a child may be deep *)
(* in a save.  (shutdown of launch.mjs)                                    *)
NothingOutlivesLauncher ==
    \A v \in Launcher : phase[v] = "exited" =>
        \A s \in Service : proc[v][s] \in {"none", "dead"}

(* A server that serves goes down by its own crash or by a signal to the   *)
(* supervisor that spawned it: never by another supervisor's start, probe, *)
(* health cycle or shutdown.  (portInUse, shutdown, startStack)            *)
OnlyOwnChildrenStopped ==
    [][\A v \in Supervisor, s \in Service :
          (proc[v][s] = "up" /\ proc'[v][s] # "up") =>
              closing'[v] \/ \E w \in Supervisor, t \in Service : Crash(w, t)]_vars

(* A launch ends with every service of its STACK served, unless a server   *)
(* crashed or was stopped, or a probe was in the way of one.  (main)       *)
Gone(s) == \E v \in Supervisor : proc[v][s] \in {"dead", "stopping"}
StackComesUp ==
    \A v \in Launcher \ StatusOnly : (phase[v] = "status") ~>
        closing[v] \/ \A s \in Service : Served(s) \/ s \in lost \/ Gone(s)

(* After a signal every child ends, also those a LAN kernel has left       *)
(* without waiting for them.  (shutdown of both)                           *)
SignalStopsChildren ==
    \A v \in Supervisor : closing[v] ~>
        \A s \in Service : proc[v][s] \in {"none", "dead"}

(* The routing state follows the ports: if the first server is down for    *)
(* good while a launcher watches, active_server comes to name the mirror   *)
(* and stays so; if it is up for good, the primary.  (startHealthWriter.   *)
(* Of one launcher: two can take each other's probes for a server.)        *)
RoutingFollowsPorts ==
    \A v \in Launcher :
        /\ <>[](phase[v] = "serving" /\ ~Served("MCP-A"))
              => <>[](active = "phi-mirror")
        /\ <>[](phase[v] = "serving" /\ Served("MCP-A"))
              => <>[](active = "phi-primary")

(* "--status: probe ports only, no action".                                *)
StatusTakesNoAction == loads \cap StatusOnly = {}
=============================================================================
