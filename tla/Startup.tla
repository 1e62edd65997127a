------------------------------ MODULE Startup ------------------------------
(***************************************************************************)
(* How tinydhcpd starts: main (src/main.cpp) with its error paths,         *)
(* parse_configuration (src/configuration.cpp), the constructors, and the  *)
(* SysV Daemon::daemonize (src/daemon.cpp) with its two forks, the pipe    *)
(* over which the daemon reports to the process it was started from, and   *)
(* the signal handlers on the way.  It ends where the event loop first     *)
(* tests last_signal; module EventLoop goes on from there.                 *)
(*                                                                         *)
(* Three processes: the parent is the one that was started, the child and  *)
(* the daemon come from the forks.  The steps are those between which      *)
(* another process or a signal can make a difference.                      *)
(***************************************************************************)
EXTENDS Integers, Sequences

CONSTANT MaxSignals   \* bound: signals that are sent

ASSUME StartupAssumption == MaxSignals \in Nat

Proc == {"parent", "child", "daemon"}
Signals == {"INT", "HUP", "TERM"}
StopSignals == {"INT", "TERM"}

\* The command line: -f, -o or -n, and whether -i names an interface.
Options == [mode : {"foreground", "SYSV", "SYSTEMD"}, interface : BOOLEAN]

\* The configuration file: whether it can be read, which of the two keys it has, and
\* what is wrong with its subnet declaration.
Config ==
  [file : {"ok", "ParseException", "FileIOException"}, listen_address : BOOLEAN,
   interface : BOOLEAN, subnet : {"ok", "absent", "incomplete", "outside", "mistyped"}]

Outcome == {"pending", "ok", "ParseException", "FileIOException", "invalid_argument",
            "SettingNotFoundException", "SettingTypeException"}

\* Ways a process ends; aborted is an exception nobody catches.
Ends == {"success", "failure", "aborted", "killed"}
Places == {"none", "main", "configure", "construct", "daemonize", "pipe", "fork", "close",
           "read", "blocked", "fork2", "leave", "detach", "caps", "report", "install", "test",
           "serving"}

VARIABLES
  optval,         \* the options
  conf,           \* the configuration file
  outcome,        \* how parse_configuration ended
  pc,             \* where each process is; "none" if it does not exist
  handlers,       \* the signals each process has sighandler installed for
  last_signal,    \* one per process: a fork copies it
  pipe_ok,        \* pipe() has filled pipefd
  data,           \* the bytes in the pipe
  writers, readers,   \* the processes that hold each end
  ready,          \* history: the daemon has finished its initialisation
  signals         \* signals sent so far

pipe == <<pipe_ok, data, writers, readers>>
input == <<optval, conf>>
vars == <<input, outcome, pc, handlers, last_signal, pipe, ready, signals>>

Ended(p) == pc[p] \in Ends
Alive(p) == pc[p] # "none" /\ ~ Ended(p)

Goto(p, place) == pc' = [pc EXCEPT ![p] = place]

\* The process ends, which closes its ends of the pipe.
Exit(p, how) ==
  /\ Goto(p, how)
  /\ writers' = writers \ {p} /\ readers' = readers \ {p}

-----------------------------------------------------------------------------
(* main, up to daemonize.                                                  *)

InstallHandlers ==
  /\ pc["parent"] = "main"
  /\ handlers' = [handlers EXCEPT !["parent"] = {"INT", "HUP"}]
  /\ Goto("parent", "configure")
  /\ UNCHANGED <<input, outcome, last_signal, pipe, ready, signals>>

\* The interface parse_configuration ends up with: the file is asked for one if it has
\* no listen-address, and again, with a lookup that throws, if there is none yet.
InterfaceKnown ==
  optval.interface \/ (~ conf.listen_address /\ conf.interface)

\* How parse_configuration ends.
parse_configuration ==
  IF conf.file # "ok" THEN conf.file
  ELSE IF ~ conf.listen_address /\ ~ conf.interface THEN "invalid_argument"
  ELSE IF ~ InterfaceKnown /\ ~ conf.interface THEN "SettingNotFoundException"
  ELSE IF conf.subnet \in {"absent", "incomplete", "outside"} THEN "invalid_argument"
  ELSE IF conf.subnet = "mistyped" THEN "SettingTypeException"
  ELSE "ok"

\* main catches three exceptions; after the third it goes on with the subnet_config it
\* began with, which is empty.
Configure ==
  /\ pc["parent"] = "configure"
  /\ outcome' = parse_configuration
  /\ \/ /\ outcome' \in {"ok", "invalid_argument"}
        /\ Goto("parent", "construct") /\ UNCHANGED pipe
     \/ /\ outcome' \in {"ParseException", "FileIOException"}
        /\ Exit("parent", "failure") /\ UNCHANGED <<pipe_ok, data>>
     \/ /\ outcome' \in {"SettingNotFoundException", "SettingTypeException"}
        /\ Exit("parent", "aborted") /\ UNCHANGED <<pipe_ok, data>>
  /\ UNCHANGED <<input, handlers, last_signal, ready, signals>>

\* A system call fails in the constructor of Socket or Epoll; Daemon's own catches it.
ConstructorFails == Exit("parent", "failure")

\* load_leases meets a damaged line: nobody catches the out_of_range.
LoadLeasesThrows == Exit("parent", "aborted")

Construct ==
  /\ pc["parent"] = "construct"
  /\ \/ /\ Goto("parent", IF optval.mode = "SYSV" THEN "daemonize" ELSE "install")
        /\ UNCHANGED pipe
     \/ /\ ConstructorFails \/ LoadLeasesThrows
        /\ UNCHANGED <<pipe_ok, data>>
  /\ UNCHANGED <<input, outcome, handlers, last_signal, ready, signals>>

-----------------------------------------------------------------------------
(* daemonize.  What it throws is a runtime_error, which main answers with  *)
(* exit(EXIT_FAILURE), in whichever process it happens.                    *)

\* close_range, the reset of all handlers, sigprocmask.
ResetSignals ==
  /\ pc["parent"] = "daemonize"
  /\ \/ /\ handlers' = [handlers EXCEPT !["parent"] = {}]
        /\ Goto("parent", "pipe") /\ UNCHANGED pipe
     \/ Exit("parent", "failure") /\ UNCHANGED <<handlers, pipe_ok, data>>
  /\ UNCHANGED <<input, outcome, last_signal, ready, signals>>

\* The result of pipe() is not looked at: when it fails, pipefd stays unset.
MakePipe ==
  /\ pc["parent"] = "pipe"
  /\ \/ pipe_ok' = TRUE /\ writers' = {"parent"} /\ readers' = {"parent"}
     \/ UNCHANGED <<pipe_ok, writers, readers>>
  /\ Goto("parent", "fork")
  /\ UNCHANGED <<input, outcome, handlers, last_signal, data, ready, signals>>

\* fork() in p makes q, a copy of p that goes on at another place.
ForkInto(p, there, q, here) ==
  /\ pc' = [r \in Proc |-> IF r = p THEN there ELSE IF r = q THEN here ELSE pc[r]]
  /\ handlers' = [handlers EXCEPT ![q] = handlers[p]]
  /\ last_signal' = [last_signal EXCEPT ![q] = last_signal[p]]
  /\ writers' = IF p \in writers THEN writers \cup {q} ELSE writers
  /\ UNCHANGED <<input, outcome, pipe_ok, data, ready, signals>>

\* The child begins with close(pipefd[0]), so only the parent holds the read end.
ForkChild ==
  /\ pc["parent"] = "fork"
  /\ \/ ForkInto("parent", "close", "child", "fork2") /\ UNCHANGED readers
     \/ /\ Exit("parent", "failure")
        /\ UNCHANGED <<input, outcome, handlers, last_signal, pipe_ok, data, ready, signals>>

CloseWriteEnd_Forgotten ==
  /\ pc["parent"] = "close"
  /\ Goto("parent", "read")
  /\ UNCHANGED <<input, outcome, handlers, last_signal, pipe, ready, signals>>

CloseWriteEnd ==
  /\ pc["parent"] = "close"
  /\ writers' = writers \ {"parent"}
  /\ Goto("parent", "read")
  /\ UNCHANGED <<input, outcome, handlers, last_signal, pipe_ok, data, readers, ready,
                 signals>>

ReadReport_PresetToOne ==
  /\ pc["parent"] = "read"
  /\ \/ /\ pipe_ok /\ data # <<>>
        /\ Exit("parent", IF Head(data) = 1 THEN "success" ELSE "failure")
     \/ pipe_ok /\ data = <<>> /\ writers = {} /\ Exit("parent", "success")
     \/ ~ pipe_ok /\ Exit("parent", "success")
  /\ UNCHANGED <<input, outcome, handlers, last_signal, pipe_ok, data, ready, signals>>

\* read() of one byte into a buffer that holds 0.  It waits for a byte or for the last
\* writer to close.  Without a pipe pipefd is unset: read may fail, it may find some other
\* open file and fill the buffer with anything, or block there for ever.
ReadReport ==
  /\ pc["parent"] = "read"
  /\ \/ /\ pipe_ok /\ data # <<>>
        /\ Exit("parent", IF Head(data) = 1 THEN "success" ELSE "failure")
     \/ pipe_ok /\ data = <<>> /\ writers = {} /\ Exit("parent", "failure")
     \/ /\ ~ pipe_ok
        /\ \/ Exit("parent", "success") \/ Exit("parent", "failure")
           \/ Goto("parent", "blocked") /\ UNCHANGED <<writers, readers>>
  /\ UNCHANGED <<input, outcome, handlers, last_signal, pipe_ok, data, ready, signals>>

\* write() of a byte by p: SIGPIPE ends p when nobody can read it any more.
Broken == pipe_ok /\ readers = {}
Write(byte) == data' = IF pipe_ok THEN Append(data, byte) ELSE data

\* write(pipefd[1], 0), then throw.
ReportFailure(p) ==
  \/ /\ Broken /\ Exit(p, "killed") /\ UNCHANGED data
  \/ /\ ~ Broken /\ Write(0) /\ Exit(p, "failure")

\* setsid, the second fork.
ForkDaemon ==
  /\ pc["child"] = "fork2"
  /\ \/ ForkInto("child", "leave", "daemon", "detach") /\ UNCHANGED readers
     \/ /\ ReportFailure("child")
        /\ UNCHANGED <<input, outcome, handlers, last_signal, pipe_ok, ready, signals>>

ChildLeaves_Returns ==
  /\ pc["child"] = "leave"
  /\ Goto("child", "install")
  /\ UNCHANGED <<input, outcome, handlers, last_signal, pipe, ready, signals>>

ChildLeaves ==
  /\ pc["child"] = "leave"
  /\ Exit("child", "success")
  /\ UNCHANGED <<input, outcome, handlers, last_signal, pipe_ok, data, ready, signals>>

\* Standard streams, umask, current_path("/"), which may throw, and the pid file.
Detach ==
  /\ pc["daemon"] = "detach"
  /\ \/ Goto("daemon", "caps") /\ UNCHANGED pipe
     \/ Exit("daemon", "failure") /\ UNCHANGED <<pipe_ok, data>>
  /\ UNCHANGED <<input, outcome, handlers, last_signal, ready, signals>>

Capabilities_NoThrow ==
  /\ pc["daemon"] = "caps"
  /\ \/ UNCHANGED pipe
     \/ ~ Broken /\ Write(0) /\ UNCHANGED <<pipe_ok, writers, readers>>
  /\ Goto("daemon", "report")
  /\ UNCHANGED <<input, outcome, handlers, last_signal, ready, signals>>

\* Capabilities and user: only cap_set_proc is checked.
Capabilities ==
  /\ pc["daemon"] = "caps"
  /\ \/ Goto("daemon", "report") /\ UNCHANGED pipe
     \/ ReportFailure("daemon") /\ UNCHANGED pipe_ok
  /\ UNCHANGED <<input, outcome, handlers, last_signal, ready, signals>>

ReportReady_FlagNotSet ==
  /\ pc["daemon"] = "report"
  /\ \/ Broken /\ Exit("daemon", "killed") /\ UNCHANGED <<data, ready>>
     \/ /\ ~ Broken /\ Write(0)
        /\ Goto("daemon", "install")
        /\ writers' = writers \ {"daemon"} /\ UNCHANGED readers
        /\ ready' = TRUE
  /\ UNCHANGED <<input, outcome, handlers, last_signal, pipe_ok, signals>>

\* write(pipefd[1], 1) and close.
ReportReady ==
  /\ pc["daemon"] = "report"
  /\ \/ Broken /\ Exit("daemon", "killed") /\ UNCHANGED <<data, ready>>
     \/ /\ ~ Broken /\ Write(1)
        /\ Goto("daemon", "install")
        /\ writers' = writers \ {"daemon"} /\ UNCHANGED readers
        /\ ready' = TRUE
  /\ UNCHANGED <<input, outcome, handlers, last_signal, pipe_ok, signals>>

-----------------------------------------------------------------------------
(* main again, in the process that returns from daemonize.                 *)

InstallTerm(p) ==
  /\ pc[p] = "install"
  /\ handlers' = [handlers EXCEPT ![p] = @ \cup {"TERM"}]
  /\ Goto(p, "test")
  /\ UNCHANGED <<input, outcome, last_signal, pipe, ready, signals>>

FirstTest_AfterWait(p) ==
  /\ pc[p] = "test"
  /\ Goto(p, "serving")
  /\ UNCHANGED <<input, outcome, handlers, last_signal, pipe, ready, signals>>

\* poll_loop tests last_signal before it sleeps for the first time.
FirstTest(p) ==
  /\ pc[p] = "test"
  /\ \/ /\ last_signal[p] \in StopSignals
        /\ Exit(p, "success") /\ UNCHANGED <<pipe_ok, data>>
     \/ /\ last_signal[p] \notin StopSignals
        /\ Goto(p, "serving") /\ UNCHANGED pipe
  /\ UNCHANGED <<input, outcome, handlers, last_signal, ready, signals>>

-----------------------------------------------------------------------------

\* sighandler, or the default action, which ends the process.
Signal(p, s) ==
  /\ Alive(p) /\ pc[p] # "serving" /\ signals < MaxSignals
  /\ signals' = signals + 1
  /\ \/ /\ s \in handlers[p]
        /\ last_signal' = [last_signal EXCEPT ![p] = s]
        /\ UNCHANGED <<pc, pipe>>
     \/ /\ s \notin handlers[p]
        /\ Exit(p, "killed")
        /\ UNCHANGED <<last_signal, pipe_ok, data>>
  /\ UNCHANGED <<input, outcome, handlers, ready>>

Init ==
  /\ optval \in Options /\ conf \in Config
  /\ outcome = "pending"
  /\ pc = [p \in Proc |-> IF p = "parent" THEN "main" ELSE "none"]
  /\ handlers = [p \in Proc |-> {}]
  /\ last_signal = [p \in Proc |-> "none"]
  /\ pipe_ok = FALSE /\ data = <<>> /\ writers = {} /\ readers = {}
  /\ ready = FALSE
  /\ signals = 0

ParentSteps ==
  \/ InstallHandlers \/ Configure \/ Construct
  \/ ResetSignals \/ MakePipe \/ ForkChild \/ CloseWriteEnd \/ ReadReport
ChildSteps == ForkDaemon \/ ChildLeaves
DaemonSteps == Detach \/ Capabilities \/ ReportReady
ServerSteps(p) == InstallTerm(p) \/ FirstTest(p)

Next ==
  \/ ParentSteps \/ ChildSteps \/ DaemonSteps
  \/ \E p \in Proc : ServerSteps(p)
  \/ \E p \in Proc, s \in Signals : Signal(p, s)

Spec == Init /\ [][Next]_vars

\* Every process runs; no signal has to come.
Fairness ==
  /\ WF_vars(ParentSteps) /\ WF_vars(ChildSteps) /\ WF_vars(DaemonSteps)
  /\ \A p \in Proc : WF_vars(ServerSteps(p))

FairSpec == Spec /\ Fairness

-----------------------------------------------------------------------------
(* Properties.                                                             *)

\* At most one byte is ever written to the pipe.
TypeOK ==
  /\ optval \in Options /\ conf \in Config /\ outcome \in Outcome
  /\ pc \in [Proc -> Places \cup Ends]
  /\ handlers \in [Proc -> SUBSET Signals]
  /\ last_signal \in [Proc -> Signals \cup {"none"}]
  /\ pipe_ok \in BOOLEAN /\ ready \in BOOLEAN
  /\ data \in {<<>>, <<0>>, <<1>>}
  /\ writers \subseteq Proc /\ readers \subseteq Proc
  /\ signals \in 0 .. MaxSignals

Serves(p) == pc[p] \in {"install", "test", "serving"}

\* Both forks leave copies of the socket, of the epoll instance and of the lease table
\* behind; still only one process ever goes on to serve with them.
AtMostOneServer == \A p, q \in Proc : Serves(p) /\ Serves(q) => p = q

\* With a pipe, the process that was started exits with success only after the daemon
\* has finished its initialisation (daemonize, "tell the parent that everything is OK"):
\* neither a child that dies silently nor one that reports an error passes for a daemon.
SuccessMeansReady == pc["parent"] = "success" /\ pipe_ok => ready

\* With a pipe, the process that was started exits with failure only if no daemon is
\* left behind: whoever starts it again does not end up with two.
FailureMeansNoDaemon == pc["parent"] = "failure" /\ pipe_ok => ~ Serves("daemon")

\* The parent never hangs on the pipe, if there is one, whatever becomes of its children:
\* every copy of the write end is closed in the end, or a byte is in the pipe.
ParentReturns == pc["parent"] = "read" /\ pipe_ok ~> Ended("parent")

\* A stop signal that sighandler has noted during the start, in the process itself or
\* in one it was forked from, ends the process before it serves, unless a later SIGHUP
\* has taken its place in last_signal, or the parent blocks because there is no pipe.
EarlyStopObeyed ==
  \A p \in Proc :
    last_signal[p] \in StopSignals ~>
      Ended(p) \/ last_signal[p] \notin StopSignals \/ pc[p] = "blocked"

\* configuration.cpp:24, "One of (listen-address|interface) must be given!", and the
\* other complaints of parse_configuration, which main logs as fatal: no process serves
\* after one.
ServesAcceptedConfig == \A p \in Proc : Serves(p) => outcome = "ok"

\* daemon.cpp:171, "Error in child process!": when the parent logs this and exits with
\* failure, no daemon serves.
ErrorIsInChild == pc["parent"] = "failure" => ~ Serves("daemon")
=============================================================================
