------------------------------ MODULE Startup -------------------------------
(***************************************************************************)
(* The processes of a system: allnetd starts (astart.c) the daemon, keyd   *)
(* and kgen and writes their ids to a file, astop stops what is in the     *)
(* file or, without a file, what has the name, and a program that gets no  *)
(* answer from the daemon starts one (lib/app_util.c).  A process is named *)
(* by its start and its role: a process id that is used again is left out, *)
(* and so is kgen, which differs from keyd in that it needs no daemon.     *)
(***************************************************************************)
EXTENDS Naturals, Sequences, FiniteSets, SequencesExt, Subsequences

CONSTANTS
  Starts,  \* 1 .. n, the calls of allnetd that may be made
  Stops,   \* 1 .. n, the calls of astop
  Apps     \* programs that use the daemon

ASSUME StartupAssumption == Starts \subseteq Nat \ {0} /\ Stops \subseteq Nat

VARIABLES
  running,  \* [Starts \X roles -> state], "none" before and after
  starting, \* [Starts -> [step, file, offset]]: the parent process
  stopping, \* [Stops -> [step, pids, single]], single is a ghost
  pidFile,  \* [id, pids]: the file that has the name; id 0 is no file
  files,    \* files created so far
  port,     \* the start whose daemon has the local port, or 0
  apps,     \* [Apps -> state of connect_to_local]
  alone,    \* the last start, if no other start or stop ran beside it, or 0 (ghost)
  calm      \* stops in a row that began and ended without a start (ghost)
processes == <<running, starting, stopping, pidFile, files, port, apps, alone, calm>>

Roles == <<"keyd", "daemon">>
Children == Starts \X Range(Roles)
NoFile == [id |-> 0, pids |-> <<>>]
Hole == <<0, "hole">>

\* A step 2 * i - 1 forks the child i and the next one writes its id, Done is the end.
Done == 2 * Len(Roles) + 1
UnderWay(s) == starting[s].step \in 1 .. Done - 1
Idle(k) == stopping[k].step \in {"not begun", "ended"}

StartupInit ==
  /\ running = [c \in Children |-> "none"]
  /\ starting = [s \in Starts |-> [step |-> 0, file |-> 0, offset |-> 0]]
  /\ stopping = [k \in Stops |-> [step |-> "not begun", pids |-> <<>>, single |-> FALSE]]
  /\ pidFile = NoFile /\ files = 0 /\ port = 0
  /\ apps = [a \in Apps |-> "begun"]
  /\ alone = 0 /\ calm = 0

-----------------------------------------------------------------------------
\* astart_main opens the file with O_TRUNC, so a file that is there loses what it has.
Begin(s) ==
  /\ starting[s].step = 0 /\ \A r \in Starts : r < s => starting[r].step # 0
  /\ files' = IF pidFile.id = 0 THEN files + 1 ELSE files
  /\ pidFile' = [id |-> IF pidFile.id = 0 THEN files + 1 ELSE pidFile.id, pids |-> <<>>]
  /\ starting' = [starting EXCEPT ![s] = [step |-> 1, file |-> pidFile'.id, offset |-> 0]]
  /\ alone' = IF \A r \in Starts : ~UnderWay(r) THEN (IF \A k \in Stops : Idle(k) THEN s ELSE 0) ELSE 0
  /\ calm' = 0
  /\ stopping' = [k \in Stops |-> [stopping[k] EXCEPT !.single = FALSE]]
OpensPidFile(s) == Begin(s) /\ UNCHANGED <<running, port, apps>>

\* my_call1: the child sleeps, or begins at once.
Forks(s) ==
  LET i == (starting[s].step + 1) \div 2 IN
  /\ UnderWay(s) /\ starting[s].step % 2 = 1
  /\ starting' = [starting EXCEPT ![s].step = @ + 1]
  /\ running' = [running EXCEPT ![<<s, Roles[i]>>] = "begun"]
  /\ UNCHANGED <<stopping, pidFile, files, port, apps, alone, calm>>

\* print_pid writes where this process is in the file, which may have been truncated, written
\* by another start, or no longer have its name.
Written(pids, offset, child) ==
  [i \in 1 .. (IF offset >= Len(pids) THEN offset + 1 ELSE Len(pids)) |->
     IF i = offset + 1 THEN child ELSE IF i <= Len(pids) THEN pids[i] ELSE Hole]
PrintsPid(s) ==
  LET st == starting[s] IN
  /\ UnderWay(s) /\ st.step % 2 = 0
  /\ starting' = [starting EXCEPT ![s].step = @ + 1, ![s].offset = @ + 1]
  /\ pidFile' = IF pidFile.id # st.file THEN pidFile
                ELSE [pidFile EXCEPT !.pids = Written(@, st.offset, <<s, Roles[st.step \div 2]>>)]
  /\ UNCHANGED <<running, stopping, files, port, apps, alone, calm>>

\* initialize_sockets: without the local port the daemon exits.
\* Mutant: a daemon whose id is not in the file takes itself for a second one.
MutMayBind(s) == port = 0 /\ <<s, "daemon">> \in Range(pidFile.pids)
MayBind(s) == port = 0
Binds(s) ==
  /\ running[<<s, "daemon">>] = "begun"
  /\ port' = IF MayBind(s) THEN s ELSE port
  /\ running' = [running EXCEPT ![<<s, "daemon">>] = IF MayBind(s) THEN "runs" ELSE "none"]
  /\ UNCHANGED <<starting, stopping, pidFile, files, apps, alone, calm>>

Serves == port # 0 /\ running[<<port, "daemon">>] = "runs"

\* keyd_main connects after a while and exits when nobody answers.
Wakes(s) ==
  /\ running[<<s, "keyd">>] = "begun"
  /\ running' = [running EXCEPT ![<<s, "keyd">>] = IF Serves THEN "runs" ELSE "none"]
  /\ UNCHANGED <<starting, stopping, pidFile, files, port, apps, alone, calm>>

\* local_receive gives up when nothing has come for a time, or at once.
Unanswered ==
  /\ ~Serves
  /\ \/ \E s \in Starts : /\ running[<<s, "keyd">>] = "runs"
                          /\ running' = [running EXCEPT ![<<s, "keyd">>] = "none"]
                          /\ UNCHANGED apps
     \/ \E a \in Apps : /\ apps[a] = "connected"
                        /\ apps' = [apps EXCEPT ![a] = "left"]
                        /\ UNCHANGED running
  /\ UNCHANGED <<starting, stopping, pidFile, files, port, alone, calm>>

-----------------------------------------------------------------------------
\* The daemon saves its tables in the signal handler and keeps its port until it has; the
\* others have no handler.
Signalled(c) == IF c[2] = "daemon" /\ running[c] = "runs" THEN "saves"
                ELSE IF running[c] = "saves" THEN "saves" ELSE "none"
SavesState(s) ==
  /\ running[<<s, "daemon">>] = "saves"
  /\ running' = [running EXCEPT ![<<s, "daemon">>] = "none"]
  /\ port' = 0
  /\ UNCHANGED <<starting, stopping, pidFile, files, apps, alone, calm>>

\* A stop that runs beside a start or another stop says nothing about what is left.
Single(k) == /\ \A s \in Starts : ~UnderWay(s)
             /\ \A j \in Stops \ {k} : Idle(j)
Stopping(k, step) ==
  [j \in Stops |-> IF j = k THEN [stopping[k] EXCEPT !.step = step, !.single = Single(k)]
                   ELSE [stopping[j] EXCEPT !.single = FALSE]]

\* stop_all: without a file what has the name is signalled, a parent process as well.
Pkill(k) ==
  /\ pidFile.id = 0
  /\ running' = [c \in Children |-> Signalled(c)]
  /\ starting' = [s \in Starts |-> IF UnderWay(s) THEN [starting[s] EXCEPT !.step = Done] ELSE starting[s]]
  /\ stopping' = Stopping(k, "ended")
  /\ calm' = IF Single(k) THEN calm + 1 ELSE 0

FindsFile(k) ==
  /\ pidFile.id # 0
  /\ stopping' = Stopping(k, "found")
  /\ calm' = IF Single(k) THEN calm ELSE 0
  /\ UNCHANGED <<running, starting>>

Access(k) ==
  /\ stopping[k].step = "not begun" /\ \A j \in Stops : j < k => stopping[j].step # "not begun"
  /\ Pkill(k) \/ FindsFile(k)
  /\ alone' = IF Single(k) THEN alone ELSE 0
  /\ UNCHANGED <<pidFile, files, port, apps>>

\* stop_all_on_signal reads the ids, removes the file and signals them, the last one first.
Reads(k) ==
  /\ stopping[k].step = "found"
  /\ stopping' = [stopping EXCEPT ![k].step = IF pidFile.id = 0 THEN "ended" ELSE "read",
                                  ![k].pids = Only(pidFile.pids, Children)]
  /\ UNCHANGED <<running, starting, pidFile, files, port, apps, alone, calm>>

MutUnlinked == pidFile                 \* mutant: the file stays
Unlinked == NoFile
Unlinks(k) ==
  /\ stopping[k].step = "read"
  /\ stopping' = [stopping EXCEPT ![k].step = "signals"]
  /\ pidFile' = Unlinked
  /\ UNCHANGED <<running, starting, files, port, apps, alone, calm>>

Signals(k) ==
  LET st == stopping[k] IN
  /\ st.step = "signals"
  /\ IF st.pids = <<>>
     THEN /\ stopping' = [stopping EXCEPT ![k].step = "ended"]
          /\ calm' = IF st.single THEN calm + 1 ELSE calm
          /\ UNCHANGED running
     ELSE /\ stopping' = [stopping EXCEPT ![k].pids = Front(@)]
          /\ running' = [running EXCEPT ![Last(st.pids)] = Signalled(Last(st.pids))]
          /\ UNCHANGED calm
  /\ UNCHANGED <<starting, pidFile, files, port, apps, alone>>

-----------------------------------------------------------------------------
\* connect_to_local: it sends keepalives and waits, starts a daemon, waits again.
Connects(a) ==
  /\ apps[a] \in {"begun", "started"} /\ Serves
  /\ apps' = [apps EXCEPT ![a] = "connected"]
  /\ UNCHANGED <<running, starting, stopping, pidFile, files, port, alone, calm>>
ExecAllnet(a, s) ==
  /\ apps[a] = "begun" /\ ~Serves
  /\ Begin(s)
  /\ apps' = [apps EXCEPT ![a] = "started"]
  /\ UNCHANGED <<running, port>>
GivesUp(a) ==
  /\ apps[a] = "started" /\ ~Serves
  /\ apps' = [apps EXCEPT ![a] = "left"]
  /\ UNCHANGED <<running, starting, stopping, pidFile, files, port, alone, calm>>

Progress ==
  \/ \E s \in Starts : Forks(s) \/ PrintsPid(s) \/ Binds(s) \/ Wakes(s) \/ SavesState(s)
  \/ \E k \in Stops : Reads(k) \/ Unlinks(k) \/ Signals(k)
StartupNext ==
  \/ Progress \/ Unanswered
  \/ \E s \in Starts : OpensPidFile(s) \/ \E a \in Apps : ExecAllnet(a, s)
  \/ \E k \in Stops : Access(k)
  \/ \E a \in Apps : Connects(a) \/ GivesUp(a)
StartupSpec == StartupInit /\ [][StartupNext]_processes /\ WF_processes(Progress)

-----------------------------------------------------------------------------
\* (stop_all, my_call1) The file names what a start without company has started, so one stop
\* reaches all of that; and two stops reach everything, whatever starts ran at the same time
\* and lost each other's ids: nothing is left but a daemon that saves its tables.
StopsReachAll ==
  \A c \in Children :
    (calm > 1 \/ (calm = 1 /\ c[1] = alone)) => running[c] \in {"none", "saves"}

\* (astart_main, initialize_sockets) Starts at the same time still give a daemon that serves,
\* as long as nothing is stopped.
StartServes ==
  (\E s \in Starts : starting[s].step # 0)
    ~> (Serves \/ \E k \in Stops : stopping[k].step # "not begun")
=============================================================================
