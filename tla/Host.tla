-------------------------------- MODULE Host --------------------------------
(***************************************************************************)
(* One container that runs the server: the commands turns give to the      *)
(* terminal and the processes these leave behind (runtime/executor.py,     *)
(* the terminal tool of runtime/bridge/service.py), the registry of        *)
(* detached processes and its reaper (state/process_models.py,             *)
(* runtime/maintenance.py), and the orderly end of the server              *)
(* (runtime/lifecycle.py, the lifespan of runtime/app.py,                  *)
(* WorkRunner.stop), which must come to terms with the turn in hand.       *)
(*                                                                         *)
(* Of the children of a command only those matter that hold its output:    *)
(* "tied" ones in its process group and "loose" ones that left it (setsid).*)
(* The numbers of processes are given out again by the kernel, above all   *)
(* after a restart of the container.                                       *)
(***************************************************************************)
EXTENDS Integers, Sequences, FiniteSets

CONSTANTS
    Commands,       \* commands, each given at most once
    Pids,           \* process numbers
    Batch,          \* items a poll of the runner may claim
    MaxBoots,       \* bound: starts of the container
    None

ASSUME HostAssumption ==
    /\ None \notin Pids /\ {Batch, MaxBoots} \subseteq Nat \ {0}

VARIABLES
    cmd,        \* the commands and their processes
    row,        \* per command: its row in process_registry
    server,     \* "up", "stopping" (run_shutdown), "exited"
    handlers,   \* shutdown handlers not yet run, the last one next
    task,       \* the runner's loop: "polling", "turn", "done"
    batch,      \* claimed items the loop has in hand
    stopping,   \* the runner's _stopping event
    overrun,    \* stop() was cut off with the loop still at work
    closed,     \* resources released
    boots

serverVars == <<server, handlers, task, batch, stopping, overrun, closed, boots>>
vars == <<cmd, row, serverVars>>

\* Mutant: the runner is registered before the clients its turns use.
MutantHandlers == <<"work_runner", "engine", "intelligence", "whatsapp", "memory_reaper",
                    "runtime_maintenance">>

\* In order of registration.
Handlers == <<"engine", "intelligence", "whatsapp", "work_runner", "memory_reaper",
              "runtime_maintenance">>
Clients == {"engine", "intelligence", "whatsapp"}

Unborn == [call |-> "new", pid |-> None, bash |-> "none", child |-> "none"]

Init ==
    /\ cmd = [c \in Commands |-> Unborn]
    /\ row = [c \in Commands |-> "none"]
    /\ server = "up" /\ handlers = Handlers
    /\ task = "polling" /\ batch = 0 /\ stopping = FALSE /\ overrun = FALSE
    /\ closed = {} /\ boots = 1

Live(c) == cmd[c].bash = "alive"
Holds(c) == cmd[c].child \in {"tied", "loose"}
InCall(c) == cmd[c].call \in {"waiting", "draining"}

\* A number stays taken while a process or the group it names lives.
FreePids == {p \in Pids : \A c \in Commands : cmd[c].pid = p => ~Live(c) /\ ~Holds(c)}
PidExists(p) == \E c \in Commands : cmd[c].pid = p /\ Live(c)

-----------------------------------------------------------------------------
(* Processes do as they please. *)

Forks(c, kind) ==
    /\ Live(c) /\ cmd[c].child = "none"
    /\ cmd' = [cmd EXCEPT ![c].child = kind]
    /\ UNCHANGED <<row, serverVars>>

BashExits(c) ==
    /\ Live(c)
    /\ cmd' = [cmd EXCEPT ![c].bash = "gone"]
    /\ UNCHANGED <<row, serverVars>>

ChildExits(c) ==
    /\ Holds(c)
    /\ cmd' = [cmd EXCEPT ![c].child = "gone"]
    /\ UNCHANGED <<row, serverVars>>

-----------------------------------------------------------------------------
(* The terminal, as the turn in hand uses it: one call after the other. *)

Calls(c, call) ==
    /\ server # "exited" /\ task = "turn"
    /\ cmd[c].call = "new" /\ \A d \in Commands : ~InCall(d)
    /\ \E p \in FreePids :
          cmd' = [cmd EXCEPT ![c] = [Unborn EXCEPT !.call = call, !.pid = p, !.bash = "alive"]]

\* execute: bash in a session of its own, output read to its end.
Execute(c) == Calls(c, "waiting") /\ UNCHANGED <<row, serverVars>>

\* execute_detached: the call is over at once, the row is written by a task.
ExecuteDetached(c) ==
    /\ Calls(c, "returned")
    /\ row' = [row EXCEPT ![c] = "pending"]
    /\ UNCHANGED serverVars

\* communicate() waits for bash and for everyone who holds the pipes.
Finished(c) == ~Live(c) /\ ~Holds(c)

Returns(c) ==
    /\ server # "exited" /\ cmd[c].call = "waiting" /\ Finished(c)
    /\ cmd' = [cmd EXCEPT ![c].call = "returned"]
    /\ UNCHANGED <<row, serverVars>>

\* Mutant: a signal that commands may ignore.
MutantKilled(p) == p

\* _kill_process_tree: the group is looked up through bash; once bash is gone
\* there is no group to be found, and its children live on.
Killed(p) ==
    IF p.bash = "alive"
    THEN [p EXCEPT !.bash = "gone", !.child = IF @ = "tied" THEN "gone" ELSE @]
    ELSE p

TimesOut(c) ==
    /\ server # "exited" /\ cmd[c].call = "waiting" /\ ~Finished(c)
    /\ cmd' = [cmd EXCEPT ![c] = [Killed(@) EXCEPT !.call = "draining"]]
    /\ UNCHANGED <<row, serverVars>>

\* The second communicate() has no timeout.
Drains(c) ==
    /\ server # "exited" /\ cmd[c].call = "draining" /\ Finished(c)
    /\ cmd' = [cmd EXCEPT ![c].call = "returned"]
    /\ UNCHANGED <<row, serverVars>>

-----------------------------------------------------------------------------
(* The registry. *)

\* _register, a task nobody awaits.
Registers(c) ==
    /\ server # "exited" /\ row[c] = "pending"
    /\ row' = [row EXCEPT ![c] = "running"]
    /\ UNCHANGED <<cmd, serverVars>>

\* Mutant: the group is asked for, not the process.
MutantStale(c) == row[c] = "running" /\ ~PidExists(cmd[c].pid) /\ ~Holds(c)

\* _reap_stale_processes: rows whose number names no process, in one commit.
Stale(c) == row[c] = "running" /\ ~PidExists(cmd[c].pid)

Reaps ==
    /\ server = "up"
    /\ \E c \in Commands : Stale(c)
    /\ row' = [c \in Commands |-> IF Stale(c) THEN "dead" ELSE row[c]]
    /\ UNCHANGED <<cmd, serverVars>>

-----------------------------------------------------------------------------
(* The runner's loop: a batch is worked off, whether or not stop() was called *)
(* meanwhile; the event is looked at between batches.                         *)

Claims ==
    /\ server # "exited" /\ task = "polling" /\ ~stopping
    /\ \E n \in 1..Batch : batch' = n
    /\ task' = "turn"
    /\ UNCHANGED <<cmd, row, server, handlers, stopping, overrun, closed, boots>>

TurnEnds ==
    /\ server # "exited" /\ task = "turn"
    /\ \A c \in Commands : ~InCall(c)
    /\ batch' = batch - 1
    /\ task' = IF batch > 1 THEN "turn" ELSE "polling"
    /\ UNCHANGED <<cmd, row, server, handlers, stopping, overrun, closed, boots>>

LoopEnds ==
    /\ server # "exited" /\ task = "polling" /\ stopping
    /\ task' = "done"
    /\ UNCHANGED <<cmd, row, server, handlers, batch, stopping, overrun, closed, boots>>

-----------------------------------------------------------------------------
(* The end of the server.  run_shutdown takes the handlers from the back and *)
(* gives each its time.                                                      *)

\* The lifespan of the application ends (uvicorn).
Shutdown ==
    /\ server = "up"
    /\ server' = "stopping"
    /\ UNCHANGED <<cmd, row, handlers, task, batch, stopping, overrun, closed, boots>>

NextHandler(name) == server = "stopping" /\ handlers # <<>> /\ handlers[Len(handlers)] = name
Popped == SubSeq(handlers, 1, Len(handlers) - 1)

\* The loops of the reapers are cancelled, the clients and the engine closed.
Releases(name) ==
    /\ NextHandler(name) /\ name # "work_runner"
    /\ handlers' = Popped
    /\ closed' = IF name \in Clients THEN closed \union {name} ELSE closed
    /\ UNCHANGED <<cmd, row, server, task, batch, stopping, overrun, boots>>

StopBegins ==
    /\ NextHandler("work_runner") /\ ~stopping
    /\ stopping' = TRUE
    /\ UNCHANGED <<cmd, row, server, handlers, task, batch, overrun, closed, boots>>

StopReturns ==
    /\ NextHandler("work_runner") /\ stopping /\ task = "done"
    /\ handlers' = Popped
    /\ UNCHANGED <<cmd, row, server, task, batch, stopping, overrun, closed, boots>>

\* Mutant: the handler is awaited without a limit.
MutantStopTimesOut ==
    /\ NextHandler("work_runner") /\ stopping /\ task = "done"
    /\ handlers' = Popped /\ overrun' = TRUE
    /\ UNCHANGED <<cmd, row, server, task, batch, stopping, closed, boots>>

\* The handler has 10 seconds, the grace of stop() is 30: stop() is cancelled
\* where it waits, and the loop it would have cancelled goes on.
StopTimesOut ==
    /\ NextHandler("work_runner") /\ stopping /\ task # "done"
    /\ handlers' = Popped /\ overrun' = TRUE
    /\ UNCHANGED <<cmd, row, server, task, batch, stopping, closed, boots>>

\* The process ends after the last handler, or is killed at any time, and the
\* container with it: calls, tasks and processes are gone.
Exits ==
    /\ \/ server = "stopping" /\ handlers = <<>>
       \/ server # "exited" /\ boots < MaxBoots
    /\ server' = "exited"
    /\ cmd' = [c \in Commands |-> [cmd[c] EXCEPT
                  !.call = IF InCall(c) THEN "lost" ELSE @,
                  !.bash = IF @ = "alive" THEN "gone" ELSE @,
                  !.child = IF Holds(c) THEN "gone" ELSE @]]
    /\ row' = [c \in Commands |-> IF row[c] = "pending" THEN "lost" ELSE row[c]]
    /\ task' = "done" /\ batch' = 0
    /\ UNCHANGED <<handlers, stopping, overrun, closed, boots>>

Boots ==
    /\ server = "exited" /\ boots < MaxBoots
    /\ boots' = boots + 1
    /\ server' = "up" /\ handlers' = Handlers
    /\ task' = "polling" /\ batch' = 0 /\ stopping' = FALSE /\ overrun' = FALSE
    /\ closed' = {}
    /\ UNCHANGED <<cmd, row>>

-----------------------------------------------------------------------------

Process(c) == Forks(c, "tied") \/ Forks(c, "loose") \/ BashExits(c) \/ ChildExits(c)
Terminal(c) == Returns(c) \/ TimesOut(c) \/ Drains(c) \/ Registers(c)
Ending ==
    \/ \E name \in {Handlers[i] : i \in DOMAIN Handlers} : Releases(name)
    \/ StopBegins \/ StopReturns \/ StopTimesOut
    \/ server = "stopping" /\ handlers = <<>> /\ Exits

Next ==
    \/ \E c \in Commands : Execute(c) \/ ExecuteDetached(c) \/ Process(c) \/ Terminal(c)
    \/ Reaps \/ Claims \/ TurnEnds \/ LoopEnds
    \/ Shutdown \/ Ending \/ Exits \/ Boots

\* Tasks of the event loop run, timers expire, the container is restarted.
\* No process has to exit, and nobody has to shut the server down.
Fairness ==
    /\ \A c \in Commands : WF_vars(Terminal(c))
    /\ WF_vars(Reaps) /\ WF_vars(TurnEnds) /\ WF_vars(LoopEnds)
    /\ WF_vars(Ending) /\ WF_vars(Boots)

Spec == Init /\ [][Next]_vars /\ Fairness

-----------------------------------------------------------------------------

\* A call of the terminal ends by its timeout at the latest, unless bash is
\* gone and has left a child with its output behind (executor.py:204-212).
CommandReturns ==
    \A c \in Commands :
        cmd[c].call = "waiting" ~>
            \/ cmd[c].call \in {"returned", "lost"}
            \/ Holds(c) /\ ~Live(c)

\* A turn meets closed clients only if stop() was cut off by the shorter time
\* of its handler: they are closed after the runner, whatever the turn's
\* commands do (lifecycle.py:61-86, app.py:52-179).
TurnSeesOpenClients ==
    server = "stopping" /\ task = "turn" /\ closed # {} => overrun /\ stopping

\* Shutdown comes to its end although commands never do, and although the
\* runner is in the middle of a batch (lifecycle.py:61-86).
ShutdownEnds == server = "stopping" ~> server = "exited"

\* The registry learns of every end: a row does not stay "running" once its
\* process is gone, except for a server that goes down for good and for a
\* number that another process was given (maintenance.py:137-173).
EndsAreRegistered ==
    \A c \in Commands :
        (row[c] = "running" /\ ~Live(c)) ~>
            (row[c] = "dead" \/ server # "up" \/ PidExists(cmd[c].pid))

=============================================================================
