--------------------------- MODULE TimeWarpServers ---------------------------
(***************************************************************************)
(* A TimeWarp benchmark in auto mode: _setup_auto and close (benchmark.py) *)
(* around ensure_provisioned (TimeWarpProvisioning) and start_servers,     *)
(* _wait_until_healthy and TimeWarpServers.stop (provisioning.py).         *)
(* Several processes do this on one host; a process may do it again, for a *)
(* retry round or a second experiment.                                     *)
(***************************************************************************)
EXTENDS TimeWarpProvisioning

CONSTANTS
  Sites,       \* SITE_ENV_VARS
  Ports,
  NoPort,      \* a value that is not a port
  UserURLs,    \* where servers the user started would be
  MaxCrashes   \* bound: servers that exit by themselves

ASSUME ServersAssumption ==
  /\ NoPort \notin Ports /\ MaxCrashes \in Nat
  /\ Sites # {} /\ UserURLs \in [Sites -> Ports]

VARIABLES
  stage,    \* where the benchmark of a process is
  port,     \* the port of each of its servers
  server,   \* the server process it started for a site
  pending,  \* the sites _wait_until_healthy waits for
  env,      \* TW_* as exported: a port for each site, or NoPort
  own,      \* benchmark._servers is set
  user,     \* the user's servers are up
  clash,    \* a probe returned a port another launch had picked and not bound
  crashes

l2   == <<stage, port, server, pending, env, own, user, clash, crashes>>
vars == <<l1, l2>>

Stage       == {"closed", "provision", "poll", "probe", "active"}
ServerState == {"none", "starting", "up", "exited"}

NoPorts == [s \in Sites |-> NoPort]
AllPorts == [Sites -> Ports \cup {NoPort}]

ServersTypeOK ==
  /\ TypeOK
  /\ stage \in [Procs -> Stage] /\ port \in [Procs -> AllPorts]
  /\ server \in [Procs -> [Sites -> ServerState]]
  /\ pending \in [Procs -> SUBSET Sites]
  /\ env \in [Procs -> AllPorts] /\ own \in [Procs -> BOOLEAN]
  /\ user \in BOOLEAN /\ clash \in BOOLEAN /\ crashes \in Nat

ServersInit ==
  /\ Init
  /\ stage = [p \in Procs |-> "closed"]
  /\ port = [p \in Procs |-> NoPorts] 
  /\ env \in [Procs -> {NoPorts, UserURLs}] /\ user \in BOOLEAN
  /\ server = [p \in Procs |-> [s \in Sites |-> "none"]]
  /\ pending = [p \in Procs |-> {}] /\ own = [p \in Procs |-> FALSE]
  /\ clash = FALSE /\ crashes = 0

\* Who serves a port; a killed process leaves its servers behind.
Bound(n) ==
  \/ \E q \in Procs, s \in Sites : server[q][s] = "up" /\ port[q][s] = n
  \/ user /\ \E s \in Sites : UserURLs[s] = n

\* A process runs its own code only while it lives.
At(p, S) == stage[p] \in S /\ pc[p] # "dead"

Alive(p) == {s \in Sites : server[p][s] \in {"starting", "up"}}

Picked(n) == \E q \in Procs, s \in Sites : server[q][s] = "starting" /\ port[q][s] = n

-----------------------------------------------------------------------------
(* _setup_auto *)

\* All variables set and all servers answering: they are taken as they are.
Reuse(p) ==
  /\ stage[p] = "closed" /\ pc[p] = "out" /\ calls[p] < MaxCalls[p]
  /\ env[p] # NoPorts /\ \A s \in Sites : Bound(env[p][s])
  /\ stage' = [stage EXCEPT ![p] = "active"]
  /\ UNCHANGED <<l1, port, server, pending, env, own, user, clash, crashes>>

Launch(p) ==
  /\ stage[p] = "closed"
  /\ env[p] = NoPorts \/ \E s \in Sites : ~Bound(env[p][s])
  /\ Call(p)
  /\ stage' = [stage EXCEPT ![p] = "provision"]
  /\ UNCHANGED <<port, server, pending, env, own, user, clash, crashes>>

\* ensure_provisioned raised, and _setup_auto with it.
GiveUp(p) ==
  /\ stage[p] = "provision" /\ pc[p] = "failed"
  /\ stage' = [stage EXCEPT ![p] = "closed"]
  /\ pc' = [pc EXCEPT ![p] = "out"]
  /\ UNCHANGED <<tree, lock, updated, job, calls, breaks, kills>>
  /\ UNCHANGED <<port, server, pending, env, own, user, clash, crashes>>

\* free_port: a probe per site of what is bound now, distinct within a process.
StartServers(p) ==
  /\ stage[p] = "provision" /\ pc[p] = "ready"
  /\ \E pick \in [Sites -> {n \in Ports : ~Bound(n)}] :
       /\ \A s, t \in Sites : pick[s] = pick[t] => s = t
       /\ port' = [port EXCEPT ![p] = pick]
       /\ clash' = (clash \/ \E s \in Sites : Picked(pick[s]))
  /\ server' = [server EXCEPT ![p] = [s \in Sites |-> "starting"]]
  /\ pending' = [pending EXCEPT ![p] = Sites]
  /\ stage' = [stage EXCEPT ![p] = "poll"]
  /\ UNCHANGED <<l1, env, own, user, crashes>>

\* TimeWarpServers.stop: every process group, then the reaping.
Stopped(p) == server' = [server EXCEPT ![p] = [s \in Sites |-> "none"]]

Back(p) ==
  /\ stage' = [stage EXCEPT ![p] = "closed"]
  /\ pc' = [pc EXCEPT ![p] = "out"]
  /\ pending' = [pending EXCEPT ![p] = {}]
  /\ UNCHANGED <<tree, lock, updated, job, calls, breaks, kills, port, user, clash, crashes>>

\* One look at every process: any early exit is a failure.
Poll(p) ==
  /\ At(p, {"poll"})
  /\ \/ /\ Alive(p) = Sites
        /\ stage' = [stage EXCEPT ![p] = "probe"]
        /\ UNCHANGED <<l1, port, server, pending, env, own, user, clash, crashes>>
     \/ /\ Alive(p) # Sites
        /\ Stopped(p) /\ Back(p) /\ UNCHANGED <<env, own>>

\* Slip: a process that has not exited is taken for healthy.
NotExited(p) == pending[p] \ Alive(p)

\* The sites whose URL does not answer; whoever answers, and with what status.
Unreachable(p) == {s \in pending[p] : ~Bound(port[p][s])}

\* The rest of the loop's body.  With nothing pending, start_servers returns and
\* _setup_auto exports the URLs.
Probe(p) ==
  /\ At(p, {"probe"})
  /\ pending' = [pending EXCEPT ![p] = Unreachable(p)]
  /\ IF Unreachable(p) = {}
     THEN /\ stage' = [stage EXCEPT ![p] = "active"]
          /\ env' = [env EXCEPT ![p] = port[p]] /\ own' = [own EXCEPT ![p] = TRUE]
     ELSE /\ stage' = [stage EXCEPT ![p] = "poll"]
          /\ UNCHANGED <<env, own>>
  /\ UNCHANGED <<l1, port, server, user, clash, crashes>>

\* Slip: only Exception is caught around the launch.
InterruptEscapes(p) ==
  /\ At(p, {"poll", "probe"})
  /\ Back(p) /\ UNCHANGED <<server, env, own>>

\* The timeout elapses, or Ctrl-C or SystemExit arrives during the wait.
AbortLaunch(p) ==
  /\ At(p, {"poll", "probe"})
  /\ Stopped(p) /\ Back(p) /\ UNCHANGED <<env, own>>

\* Benchmark.close stops and forgets what this process launched, and nothing else.
Close(p) ==
  /\ At(p, {"active"})
  /\ IF own[p]
     THEN /\ Stopped(p) /\ env' = [env EXCEPT ![p] = NoPorts]
          /\ own' = [own EXCEPT ![p] = FALSE]
     ELSE UNCHANGED <<server, env, own>>
  /\ Back(p)

-----------------------------------------------------------------------------
(* The servers: what a started process does by itself *)

Bind(p, s) ==
  /\ server[p][s] = "starting"
  /\ server' = [server EXCEPT ![p][s] = IF Bound(port[p][s]) THEN "exited" ELSE "up"]
  /\ UNCHANGED <<l1, stage, port, pending, env, own, user, clash, crashes>>

Exit(p, s) ==
  /\ s \in Alive(p) /\ crashes < MaxCrashes
  /\ crashes' = crashes + 1
  /\ server' = [server EXCEPT ![p][s] = "exited"]
  /\ UNCHANGED <<l1, stage, port, pending, env, own, user, clash>>

Benchmark(p) ==
  \/ Reuse(p) \/ Launch(p) \/ GiveUp(p) \/ StartServers(p)
  \/ Poll(p) \/ Probe(p) \/ Close(p)

Provision(p) == (Ensure(p) \/ Setup(p) \/ Faults(p)) /\ UNCHANGED l2

Servers(p) == \E s \in Sites : Bind(p, s) \/ Exit(p, s)

Next == \E p \in Procs : Provision(p) \/ Benchmark(p) \/ AbortLaunch(p) \/ Servers(p)

Spec == ServersInit /\ [][Next]_vars

\* The process runs its own code, every subprocess call has a timeout, the wait
\* for the servers has one too, and setup.sh and the servers make progress.
\* Nothing ends an experiment, kills a process or breaks a server.
LiveSpec ==
  /\ Spec
  /\ \A p \in Procs :
       /\ WF_vars(Ensure(p) /\ UNCHANGED l2)
       /\ WF_vars(Setup(p) /\ UNCHANGED l2)
       /\ WF_vars(GiveUp(p) \/ StartServers(p) \/ Poll(p) \/ Probe(p))
       /\ WF_vars(AbortLaunch(p))

-----------------------------------------------------------------------------
\* The URLs a run labels with its own ui_version are served by its own servers,
\* unless two launches were given one port or a server has exited: the wait for
\* the servers takes whatever answers at a URL for the server it started.  A run
\* without the label uses the servers the user named, never what an earlier run
\* of the process has exported.
LabelIsTrue ==
  \A p \in Procs : stage[p] = "active" =>
    IF own[p]
    THEN ~clash /\ crashes = 0 =>
           \A s \in Sites : server[p][s] = "up" /\ env[p][s] = port[p][s]
    ELSE env[p] = UserURLs

\* A process that is not launching or running, and was not killed, has no server
\* left: nothing could ever reach it again.
NoServerLeaks ==
  \A p \in Procs : stage[p] \in {"closed", "provision"} => Alive(p) = {}

\* Every launch ends in a benchmark that runs or in an error: nobody waits forever
\* for the lock, for setup.sh or for a server.
LaunchReturns ==
  \A p \in Procs :
    stage[p] = "provision" ~> stage[p] \in {"closed", "active"} \/ pc[p] = "dead"
=============================================================================
