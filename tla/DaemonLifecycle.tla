-------------------------- MODULE DaemonLifecycle --------------------------
(***************************************************************************)
(* One named session of the CLI: the commands (processes of src/cli.ts)    *)
(* that find, start, close and destroy its daemon, and the daemons         *)
(* themselves.  They share nothing but three things on disk and a port:    *)
(* the endpoint file, the startup lock file and the managed profile.       *)
(* Every await of the code is a point where other processes may run, so    *)
(* reading a file, pinging the daemon it names and acting on the answer    *)
(* are separate steps.                                                     *)
(***************************************************************************)
EXTENDS Naturals, FiniteSets

CONSTANTS Clients,      \* terminals; each runs one command after another
          Daemons,      \* the process ids daemons may get
          None,         \* no daemon, no client, no file
          Commands,     \* the kinds of command the terminals issue
          Exclusive,    \* the browser refuses a profile that is in use
          Disposable,   \* --profile disposable
          MaxCommands,  \* bound: commands issued in a behaviour
          MaxCrashes    \* bound: processes killed in a behaviour

Kinds == {"open", "query", "close", "destroy"}

ASSUME CommandsAreKinds == Commands \subseteq Kinds
ASSUME ModesAreBoolean == Exclusive \in BOOLEAN /\ Disposable \in BOOLEAN
ASSUME BoundsAreNatural == MaxCommands \in Nat /\ MaxCrashes \in Nat
ASSUME NoneIsNoProcess == None \notin Clients \cup Daemons

VARIABLES endpoint,  \* the daemon the endpoint file names, or None
          lock,      \* the client that created the startup file, or None
          daemon,    \* what each daemon process is doing
          at,        \* where each client is, in which command, and what it
                     \* remembers: the endpoint read last, the daemon spawned
          killed,    \* processes that died without running their cleanup
          commands   \* commands issued so far

vars == <<endpoint, lock, daemon, at, killed, commands>>

(* A stranded daemon failed a shutdown with its browser gone and serves on. *)
(* A retiring one closes by itself, a closing one because it was told to.   *)
DaemonStates == {"unborn", "launching", "listening", "serving", "stranded", "retiring",
                 "closing", "draining", "unlinking", "dead", "aborted"}
Ended == {"dead", "aborted"}
Locations == {"idle", "read", "ping", "unlink", "lock", "spawn", "poll", "pollPing",
              "attach", "call", "stop", "awaitStop", "erase", "unlock", "gone"}
Client == [pc : Locations, kind : Kinds, seen : Daemons \cup {None},
           child : Daemons \cup {None}]
Attached == {"ping", "attach", "call", "stop", "awaitStop"}

TypeOK ==
  /\ endpoint \in Daemons \cup {None}
  /\ lock \in Clients \cup {None}
  /\ daemon \in [Daemons -> DaemonStates]
  /\ at \in [Clients -> Client]
  /\ \A c \in Clients : at[c].pc \in Attached => at[c].seen # None
  /\ killed \subseteq Clients \cup Daemons
  /\ commands \in 0..MaxCommands

Fresh(l, k) == [pc |-> l, kind |-> k, seen |-> None, child |-> None]

Init ==
  /\ endpoint = None
  /\ lock = None
  /\ daemon = [d \in Daemons |-> "unborn"]
  /\ at = [c \in Clients |-> Fresh("idle", "query")]
  /\ killed = {}
  /\ commands = 0

Healthy(d) == d # None /\ daemon[d] \in {"listening", "serving", "stranded", "retiring", "closing"}
HoldsBrowser(d) == daemon[d] \in {"listening", "serving", "retiring", "closing"}
Connected(d) == {c \in Clients : at[c].pc \in {"call", "stop"} /\ at[c].seen = d}

Goto(c, l) == at' = [at EXCEPT ![c].pc = l]
GotoKnowing(c, l, e) == at' = [at EXCEPT ![c].pc = l, ![c].seen = e]
Finish(c) == at' = [at EXCEPT ![c] = Fresh("idle", "query")]

(* A command that has nothing more to do ends; if it made the startup file  *)
(* it removes it in its finally block first.                                *)
Leave(c) == IF lock = c THEN GotoKnowing(c, "unlock", None) ELSE Finish(c)

-----------------------------------------------------------------------------
(* A terminal issues a command.  destroy takes the startup lock before it   *)
(* looks at the endpoint; the others read the endpoint first.               *)
Issue(c, k) ==
  /\ at[c].pc = "idle"
  /\ commands < MaxCommands
  /\ commands' = commands + 1
  /\ at' = [at EXCEPT ![c] = Fresh(IF k = "destroy" THEN "lock" ELSE "read", k)]
  /\ UNCHANGED <<endpoint, lock, daemon, killed>>

(* readEndpoint                                                             *)
ReadEndpoint(c) ==
  /\ at[c].pc = "read"
  /\ \/ endpoint # None /\ GotoKnowing(c, "ping", endpoint)
     \/ endpoint = None /\ at[c].kind = "open" /\ Goto(c, "lock")
     \/ endpoint = None /\ at[c].kind = "destroy" /\ Goto(c, "erase")
     \/ endpoint = None /\ at[c].kind \in {"query", "close"} /\ Finish(c)
  /\ UNCHANGED <<endpoint, lock, daemon, killed, commands>>

(* daemonIsHealthy on the endpoint just read.  close falls back to          *)
(* requestWithoutStarting, which reads and pings once more as a query.      *)
Ping(c) ==
  /\ at[c].pc = "ping"
  /\ \/ Healthy(at[c].seen) /\ Goto(c, "attach")
     \/ ~Healthy(at[c].seen) /\ at[c].kind # "close" /\ GotoKnowing(c, "unlink", None)
     \/ /\ ~Healthy(at[c].seen) /\ at[c].kind = "close"
        /\ at' = [at EXCEPT ![c] = Fresh("read", "query")]
  /\ UNCHANGED <<endpoint, lock, daemon, killed, commands>>

(* removeEndpoint after a failed ping: whatever the file names by now.      *)
Unlink(c) ==
  /\ at[c].pc = "unlink"
  /\ endpoint' = None
  /\ \/ at[c].kind = "open" /\ Goto(c, "lock")
     \/ at[c].kind = "destroy" /\ Goto(c, "erase")
     \/ at[c].kind = "query" /\ Finish(c)
  /\ UNCHANGED <<lock, daemon, killed, commands>>

(* Faulty: the startup file is opened without the exclusive flag.           *)
LockAnyway(c) ==
  /\ at[c].pc = "lock"
  /\ lock' = c
  /\ Goto(c, IF at[c].kind = "open" THEN "spawn" ELSE "read")
  /\ UNCHANGED <<endpoint, daemon, killed, commands>>

(* openSync(startup, "wx"): exclusive creation.  A second open waits for    *)
(* the daemon the first one starts, a second destroy fails.                 *)
Lock(c) ==
  /\ at[c].pc = "lock"
  /\ \/ /\ lock = None
        /\ lock' = c
        /\ Goto(c, IF at[c].kind = "open" THEN "spawn" ELSE "read")
     \/ lock # None /\ at[c].kind = "open" /\ Goto(c, "poll") /\ UNCHANGED lock
     \/ lock # None /\ at[c].kind = "destroy" /\ Finish(c) /\ UNCHANGED lock
  /\ UNCHANGED <<endpoint, daemon, killed, commands>>

(* The starter spawns the daemon, or fails before the spawn (no entry point *)
(* for the requested browser).                                              *)
Spawn(c) ==
  /\ at[c].pc = "spawn"
  /\ \/ \E d \in Daemons :
          /\ daemon[d] = "unborn"
          /\ daemon' = [daemon EXCEPT ![d] = "launching"]
          /\ at' = [at EXCEPT ![c].pc = "poll", ![c].child = d]
     \/ Leave(c) /\ UNCHANGED daemon
  /\ UNCHANGED <<endpoint, lock, killed, commands>>

(* waitForDaemon: read, ping, look at the child, sleep, until the deadline. *)
Poll(c) ==
  /\ at[c].pc = "poll"
  /\ GotoKnowing(c, "pollPing", endpoint)
  /\ UNCHANGED <<endpoint, lock, daemon, killed, commands>>

(* child.exitCode, which a child that a signal ended does not have.         *)
ChildDied(c) ==
  at[c].child # None /\ daemon[at[c].child] \in Ended /\ at[c].child \notin killed

PollPing(c) ==
  /\ at[c].pc = "pollPing"
  /\ \/ Healthy(at[c].seen) /\ Goto(c, IF lock = c THEN "unlock" ELSE "attach")
     \/ ~Healthy(at[c].seen) /\ ChildDied(c) /\ Leave(c)
     \/ ~Healthy(at[c].seen) /\ ~ChildDied(c) /\ GotoKnowing(c, "poll", None)
  /\ UNCHANGED <<endpoint, lock, daemon, killed, commands>>

(* Faulty: a command that waits for another one's daemon has no deadline.   *)
TimeoutOfStarterOnly(c) ==
  /\ at[c].pc = "poll"
  /\ lock = c
  /\ Leave(c)
  /\ UNCHANGED <<endpoint, lock, daemon, killed, commands>>

PollTimeout(c) ==
  /\ at[c].pc = "poll"
  /\ Leave(c)
  /\ UNCHANGED <<endpoint, lock, daemon, killed, commands>>

(* The finally block of ensureDaemon and destroySessionState.               *)
Unlock(c) ==
  /\ at[c].pc = "unlock"
  /\ lock' = None
  /\ IF at[c].kind = "open" /\ at[c].seen # None THEN Goto(c, "attach") ELSE Finish(c)
  /\ UNCHANGED <<endpoint, daemon, killed, commands>>

-----------------------------------------------------------------------------
(* The command itself: it connects if the server still listens, else fails. *)
Connect(c) ==
  /\ at[c].pc = "attach"
  /\ \/ /\ Healthy(at[c].seen)
        /\ Goto(c, IF at[c].kind \in {"close", "destroy"} THEN "stop" ELSE "call")
     \/ ~Healthy(at[c].seen) /\ Leave(c)
  /\ UNCHANGED <<endpoint, lock, daemon, killed, commands>>

(* A tool call or a status request ends: answered, failed, or abandoned.    *)
EndCall(c) ==
  /\ at[c].pc = "call"
  /\ Finish(c)
  /\ UNCHANGED <<endpoint, lock, daemon, killed, commands>>

(* shutdown answers once the runtime is closed; the daemon goes on to close *)
(* its server by itself.  A disposable session removes its directories      *)
(* last, and if that fails so does the request, the first one: the runtime  *)
(* counts as closed from then on, and nothing closes the server.  The       *)
(* request may also time out or lose its daemon.                            *)
Shutdown(c) ==
  /\ at[c].pc = "stop"
  /\ \/ /\ daemon[at[c].seen] \notin Ended
        /\ daemon' = [daemon EXCEPT ![at[c].seen] =
                        IF @ \in {"serving", "stranded"} THEN "closing" ELSE @]
        /\ IF at[c].kind = "destroy" \/ Disposable THEN Goto(c, "awaitStop") ELSE Finish(c)
     \/ /\ Disposable /\ daemon[at[c].seen] = "serving"
        /\ daemon' = [daemon EXCEPT ![at[c].seen] = "stranded"]
        /\ Leave(c)
     \/ Leave(c) /\ UNCHANGED daemon
  /\ UNCHANGED <<endpoint, lock, killed, commands>>

(* waitForDaemonToStop, bounded: only a daemon that stopped answering lets  *)
(* destroy erase, and a timeout preserves the data.                         *)
StopObserved(c) ==
  /\ at[c].pc = "awaitStop"
  /\ ~Healthy(at[c].seen)
  /\ IF at[c].kind = "destroy" THEN GotoKnowing(c, "erase", None) ELSE Finish(c)
  /\ UNCHANGED <<endpoint, lock, daemon, killed, commands>>

StopTimeout(c) ==
  /\ at[c].pc = "awaitStop"
  /\ Healthy(at[c].seen)
  /\ Leave(c)
  /\ UNCHANGED <<endpoint, lock, daemon, killed, commands>>

(* The managed directories, the endpoint file and the log are removed.      *)
Erase(c) ==
  /\ at[c].pc = "erase"
  /\ endpoint' = None
  /\ Goto(c, "unlock")
  /\ UNCHANGED <<lock, daemon, killed, commands>>

-----------------------------------------------------------------------------
(* runDaemon: launch the browser, listen, publish the endpoint, serve.  The *)
(* launch fails for its own reasons or because the profile is in use.       *)
Launch(d) ==
  /\ daemon[d] = "launching"
  /\ \/ /\ Exclusive => ~\E e \in Daemons : HoldsBrowser(e)
        /\ daemon' = [daemon EXCEPT ![d] = "listening"]
     \/ daemon' = [daemon EXCEPT ![d] = "dead"]
  /\ UNCHANGED <<endpoint, lock, at, killed, commands>>

Publish(d) ==
  /\ daemon[d] = "listening"
  /\ daemon' = [daemon EXCEPT ![d] = "serving"]
  /\ endpoint' = d
  /\ UNCHANGED <<lock, at, killed, commands>>

(* The idle timer or a signal: runtime.close begins.  The idle timer is     *)
(* armed by connections, so it may fire while a long call is in progress.   *)
(* The runtime of a stranded daemon is not closed again.                    *)
BeginClose(d) ==
  /\ daemon[d] \in {"serving", "stranded"}
  /\ daemon' = [daemon EXCEPT ![d] = IF @ = "serving" THEN "retiring" ELSE "closing"]
  /\ UNCHANGED <<endpoint, lock, at, killed, commands>>

(* The directories of a disposable session cannot be removed: nobody        *)
(* handles the rejection of a close that nobody asked for, and the process  *)
(* ends with its endpoint in place.                                         *)
RetireFails(d) ==
  /\ Disposable /\ daemon[d] = "retiring"
  /\ daemon' = [daemon EXCEPT ![d] = "aborted"]
  /\ UNCHANGED <<endpoint, lock, at, killed, commands>>

(* runtime.close is over and server.close() has been called: no connection  *)
(* is accepted any more, but open ones are waited for.                      *)
StopListening(d) ==
  /\ daemon[d] \in {"retiring", "closing"}
  /\ daemon' = [daemon EXCEPT ![d] = "draining"]
  /\ UNCHANGED <<endpoint, lock, at, killed, commands>>

(* Faulty: the daemon waits for the startup file to be free before it goes. *)
ServerClosedUnlocked(d) ==
  /\ daemon[d] = "draining"
  /\ Connected(d) = {} /\ lock = None
  /\ daemon' = [daemon EXCEPT ![d] = "unlinking"]
  /\ UNCHANGED <<endpoint, lock, at, killed, commands>>

ServerClosed(d) ==
  /\ daemon[d] = "draining"
  /\ Connected(d) = {}
  /\ daemon' = [daemon EXCEPT ![d] = "unlinking"]
  /\ UNCHANGED <<endpoint, lock, at, killed, commands>>

(* Faulty: the daemon exits without removing its endpoint file.             *)
ExitLeavingEndpoint(d) ==
  /\ daemon[d] = "unlinking"
  /\ daemon' = [daemon EXCEPT ![d] = "dead"]
  /\ UNCHANGED <<endpoint, lock, at, killed, commands>>

(* removeEndpoint(session): the file of the session, whichever daemon it    *)
(* names by now.                                                            *)
Exit(d) ==
  /\ daemon[d] = "unlinking"
  /\ daemon' = [daemon EXCEPT ![d] = "dead"]
  /\ endpoint' = None
  /\ UNCHANGED <<lock, at, killed, commands>>

(* A process is killed: nothing it would have cleaned up is cleaned up.     *)
KillDaemon(d) ==
  /\ Cardinality(killed) < MaxCrashes
  /\ daemon[d] \notin Ended \cup {"unborn"}
  /\ daemon' = [daemon EXCEPT ![d] = "dead"]
  /\ killed' = killed \cup {d}
  /\ UNCHANGED <<endpoint, lock, at, commands>>

KillClient(c) ==
  /\ Cardinality(killed) < MaxCrashes
  /\ at[c].pc \notin {"idle", "gone"}
  /\ at' = [at EXCEPT ![c] = Fresh("gone", "query")]
  /\ killed' = killed \cup {c}
  /\ UNCHANGED <<endpoint, lock, daemon, commands>>

ClientStep(c) ==
  \/ ReadEndpoint(c) \/ Ping(c) \/ Unlink(c) \/ Lock(c) \/ Spawn(c)
  \/ Poll(c) \/ PollPing(c) \/ Unlock(c)
  \/ Connect(c) \/ EndCall(c) \/ Shutdown(c)
  \/ StopObserved(c) \/ StopTimeout(c) \/ Erase(c)

DaemonStep(d) ==
  Launch(d) \/ Publish(d) \/ StopListening(d) \/ ServerClosed(d) \/ Exit(d)

Next ==
  \/ \E c \in Clients :
       \/ \E k \in Commands : Issue(c, k)
       \/ ClientStep(c) \/ PollTimeout(c) \/ KillClient(c)
  \/ \E d \in Daemons : DaemonStep(d) \/ BeginClose(d) \/ RetireFails(d) \/ KillDaemon(d)

Spec == Init /\ [][Next]_vars

(* Processes that are not killed run, and a deadline passes even though the *)
(* poll loop leaves and re-enters the state in which it is checked.         *)
Fairness ==
  /\ \A c \in Clients : WF_vars(ClientStep(c)) /\ SF_vars(PollTimeout(c))
  /\ \A d \in Daemons : WF_vars(DaemonStep(d))

FairSpec == Spec /\ Fairness

-----------------------------------------------------------------------------
(* Who is between creating the startup file and removing it.                *)
Holding(c) ==
  \/ at[c].pc \in {"spawn", "erase", "unlock"}
  \/ at[c].pc \in {"poll", "pollPing"} /\ at[c].child # None
  \/ at[c].kind = "destroy" /\ at[c].pc \in {"read", "ping", "unlink", "attach", "stop", "awaitStop"}

(* Starting and destroying exclude each other: while one command holds the  *)
(* startup file no other spawns or erases, and the file is never removed    *)
(* under its holder.                                                        *)
StartupIsExclusive == \A c \in Clients : Holding(c) => lock = c

(* No half-erased start: no daemon is spawned while destroy is erasing.     *)
NoSpawnDuringDestroy ==
  [][\A d \in Daemons :
       daemon[d] = "unborn" /\ daemon'[d] # "unborn" =>
         ~\E c \in Clients : at[c].kind = "destroy" /\ Holding(c)]_vars

(* A daemon that shut down in order leaves no endpoint behind: a dead       *)
(* daemon is named only if it was killed (or aborted, RetireFails).         *)
OrderlyExitIsClean ==
  endpoint # None /\ daemon[endpoint] = "dead" => endpoint \in killed

(* Every command ends, whatever the daemons, the other commands and a stale *)
(* startup file do.                                                         *)
CommandsEnd == \A c \in Clients : at[c].pc # "idle" ~> at[c].pc \in {"idle", "gone"}

(* A daemon that closes, told to or not, ends, even with commands still     *)
(* connected and with directories that cannot be removed.                   *)
DaemonsStop ==
  \A d \in Daemons : daemon[d] \in {"retiring", "closing"} ~> daemon[d] \in Ended

(* The sentence of README.md that each command targets the same named daemon   *)
(* until it is closed or idle: a serving daemon can be found by name.       *)
ServingDaemonIsFindable ==
  \A d \in Daemons : daemon[d] = "serving" => endpoint = d

(* The sentence of PRIVACY.md that state is deleted only after the shutdown of *)
(* the daemon is confirmed: no browser runs on the profile being erased.    *)
EraseAfterShutdown ==
  [][\A c \in Clients :
       at[c].pc = "erase" /\ at'[c].pc = "unlock" => ~\E d \in Daemons : HoldsBrowser(d)]_vars
=============================================================================
