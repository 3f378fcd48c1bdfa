------------------------------- MODULE Server -------------------------------
(***************************************************************************)
(* The server process of src/novadbplus/server/main.cpp and the two        *)
(* session commands of src/novadbplus/commands/auth.cpp.                   *)
(*                                                                         *)
(* main parses the configuration, starts the ServerEntry, installs its     *)
(* signal handlers, writes the pid file, waits until the server has        *)
(* stopped and removes the pid file.  Signals arrive whenever the          *)
(* environment sends them; until sigaction has run for a signal its        *)
(* default action ends the process.  While the server runs its sessions    *)
(* execute AUTH and SELECT on the executor threads.  The signals are the   *)
(* five setupSignals names: a signal it does not name ends the process     *)
(* wherever main is, and no statement of main has a say in it.             *)
(*                                                                         *)
(* ServerEntry itself is outside these sources: it is the variable server  *)
(* with the steps startup, handleShutdownCmd and the end of its teardown.  *)
(***************************************************************************)
EXTENDS Integers, Sequences

CONSTANTS
    Clients,        \* the sessions
    Passwords,      \* the texts requirepass and AUTH are given
    NoPassword,     \* the text ""
    DbNum           \* ServerEntry::dbNum()

ASSUME /\ NoPassword \in Passwords
       /\ DbNum \in Nat \ {0}

VARIABLES
    argv,           \* how the process was called
    mainPc,         \* the statement main is at, or how the process ended
    installed,      \* the sigaction calls of setupSignals that have run
    pidFile,        \* whether the pid file exists
    server,         \* the ServerEntry behind getGlobalServer()
    asked,          \* whether the handler shutdown has run
    requirepass,    \* ServerEntry::requirepass()
    clusterEnabled, \* ServerEntry::isClusterEnabled()
    authed,         \* authed[c]: SessionCtx::_authed
    dbId,           \* dbId[c]: SessionCtx::_dbId
    reply           \* reply[c]: the status of the last command of c

process  == <<argv, mainPc, installed, pidFile, server, asked>>
params   == <<requirepass, clusterEnabled>>
sessions == <<authed, dbId, reply>>
vars     == <<process, params, sessions>>

Signals == {"SIGHUP", "SIGUSR2", "SIGPIPE", "SIGTERM", "SIGINT"}

\* How a process ends: return 0, return -1, LOG(FATAL) or a failed
\* INVARIANT, the default action of a signal.
Ended == {"exit0", "exitErr", "fatal", "killed"}

Alive == mainPc \notin Ended

-----------------------------------------------------------------------------
\* The pid file written before the handlers are installed.
MainSteps_PidFileFirst ==
    <<"args", "parse", "daemon", "startup", "pidfile", "signals", "wait",
      "remove">>

\* The handlers installed before there is a server.
MainSteps_SignalsFirst ==
    <<"args", "parse", "daemon", "signals", "startup", "pidfile", "wait",
      "remove">>

\* The handler shutdown without its call of handleShutdownCmd.
HandlerStops_Never(srv) == srv

\* SELECT with its range test one too wide.
InDbRange_OneTooWide(id) == 0 <= id /\ id <= DbNum

-----------------------------------------------------------------------------
\* main: its statements that change state, in their order.
MainSteps ==
    <<"args", "parse", "daemon", "startup", "signals", "pidfile", "wait",
      "remove">>

\* The statement after `step`; return 0 after the last.
After(step) ==
    LET i == CHOOSE i \in DOMAIN MainSteps : MainSteps[i] = step
    IN  IF i = Len(MainSteps) THEN "exit0" ELSE MainSteps[i + 1]

\* setupSignals: its sigaction calls in their order.
SigActions ==
    <<[sig |-> "SIGHUP", handler |-> "ignore"],
      [sig |-> "SIGUSR2", handler |-> "ignore"],
      [sig |-> "SIGPIPE", handler |-> "ignore"],
      [sig |-> "SIGTERM", handler |-> "shutdown"],
      [sig |-> "SIGINT", handler |-> "shutdown"]>>

\* What the process does with a signal now.
Disposition(sig) ==
    LET i == CHOOSE i \in DOMAIN SigActions : SigActions[i].sig = sig
    IN  IF i <= installed THEN SigActions[i].handler ELSE "default"

\* handleShutdownCmd: a server that runs begins to stop.
HandlerStops(srv) == IF srv = "running" THEN "stopping" ELSE srv

\* if (id < 0 || id >= sess->getServerEntry()->dbNum())
InDbRange(id) == 0 <= id /\ id < DbNum

Init ==
    /\ argv \in {"none", "-v", "file"}
    /\ mainPc = "args"
    /\ installed = 0
    /\ pidFile = FALSE
    /\ server = "none"
    /\ asked = FALSE
    /\ requirepass = NoPassword
    /\ clusterEnabled = FALSE
    /\ authed = [c \in Clients |-> FALSE]
    /\ dbId = [c \in Clients |-> 0]
    /\ reply = [c \in Clients |-> "none"]

Main(step) == mainPc = step /\ Alive

Goes(pc) ==
    /\ mainPc' = pc
    /\ UNCHANGED <<argv, installed, pidFile, server, asked, params, sessions>>

\* if (argc != 2) and if (strcmp(argv[1], "-v") == 0): both return 0.
CheckArgs ==
    /\ Main("args")
    /\ Goes(IF argv = "file" THEN After("args") ELSE "exit0")

\* parseFile: it fails and main returns -1, or it gives the parameters.
ParseFile(ok, pass, cluster) ==
    /\ Main("parse")
    /\ mainPc' = IF ok THEN After("parse") ELSE "exitErr"
    /\ requirepass' = IF ok THEN pass ELSE requirepass
    /\ clusterEnabled' = (ok /\ cluster)
    /\ UNCHANGED <<argv, installed, pidFile, server, asked, sessions>>

\* if (params->daemon) daemon(1, 0), with LOG(FATAL) when it fails.
Daemonize(ok) ==
    /\ Main("daemon")
    /\ Goes(IF ok THEN After("daemon") ELSE "fatal")

\* The ServerEntry is made and started, with LOG(FATAL) when startup
\* fails.
Startup(ok) ==
    /\ Main("startup")
    /\ mainPc' = IF ok THEN After("startup") ELSE "fatal"
    /\ server' = IF ok THEN "running" ELSE "failed"
    /\ UNCHANGED <<argv, installed, pidFile, asked, params, sessions>>

\* One sigaction call of setupSignals; main goes on after the last.
SetupSignal ==
    /\ Main("signals")
    /\ installed' = installed + 1
    /\ mainPc' = IF installed' = Len(SigActions) THEN After("signals")
                 ELSE mainPc
    /\ UNCHANGED <<argv, pidFile, server, asked, params, sessions>>

\* std::ofstream pidfile(params->pidFile); pidfile << getpid();
WritePidFile ==
    /\ Main("pidfile")
    /\ pidFile' = TRUE
    /\ mainPc' = After("pidfile")
    /\ UNCHANGED <<argv, installed, server, asked, params, sessions>>

\* waitForExit that returns while the server still runs.
WaitForExit_NoWait ==
    /\ Main("wait")
    /\ Goes(After("wait"))

\* waitForExit: waitStopComplete returns when the server has stopped.
WaitForExit ==
    /\ Main("wait")
    /\ server = "stopped"
    /\ Goes(After("wait"))

\* remove(params->pidFile.c_str()); return 0;
RemovePidFile ==
    /\ Main("remove")
    /\ pidFile' = FALSE
    /\ mainPc' = After("remove")
    /\ UNCHANGED <<argv, installed, server, asked, params, sessions>>

\* A signal arrives.  Its default action ends the process; the handler
\* shutdown asserts that there is a server and calls handleShutdownCmd.
Signal(sig) ==
    /\ Alive
    /\ Disposition(sig) # "ignore"
    /\ IF Disposition(sig) = "default"
       THEN /\ mainPc' = "killed"
            /\ UNCHANGED <<server, asked>>
       ELSE /\ mainPc' = IF server = "none" THEN "fatal" ELSE mainPc
            /\ server' = HandlerStops(server)
            /\ asked' = TRUE
    /\ UNCHANGED <<argv, installed, pidFile, params, sessions>>

\* The server that was told to stop has stopped its components.
StopComplete ==
    /\ Alive
    /\ server = "stopping"
    /\ server' = "stopped"
    /\ UNCHANGED <<argv, mainPc, installed, pidFile, asked, params, sessions>>

\* The sessions are served by a process that lives and a server that runs.
Serving == Alive /\ server = "running"

\* CONFIG SET requirepass
SetRequirepass(pass) ==
    /\ Serving
    /\ requirepass' = pass
    /\ UNCHANGED <<process, clusterEnabled, sessions>>

\* SelectCommand::run: arg is what stoll makes of the argument.
Select(c, arg) ==
    /\ Serving
    /\ LET status ==
               CASE ~arg.isNum          -> "ERR_PARSEOPT"
                 [] ~InDbRange(arg.n)   -> "ERR_PARSEOPT"
                 [] clusterEnabled /\ arg.n # 0 -> "ERR_PARSEOPT"
                 [] OTHER               -> "OK"
       IN  /\ reply' = [reply EXCEPT ![c] = status]
           /\ dbId' = [dbId EXCEPT ![c] = IF status = "OK" THEN arg.n ELSE @]
    /\ UNCHANGED <<process, params, authed>>

\* AuthCommand::run with parse: nargs is args.size().
Auth(c, nargs, pass) ==
    /\ Serving
    /\ LET status ==
               CASE nargs # 2                -> "ERR_PARSEPKT"
                 [] requirepass = NoPassword -> "ERR_AUTH"
                 [] requirepass # pass       -> "ERR_AUTH"
                 [] OTHER                    -> "OK"
       IN  /\ reply' = [reply EXCEPT ![c] = status]
           /\ authed' = [authed EXCEPT ![c] = @ \/ status = "OK"]
    /\ UNCHANGED <<process, params, dbId>>

SelectArgs == [isNum : BOOLEAN, n : -1 .. DbNum]

MainNext ==
    \/ CheckArgs
    \/ \E ok, cluster \in BOOLEAN, pass \in Passwords :
           ParseFile(ok, pass, cluster)
    \/ \E ok \in BOOLEAN : Daemonize(ok) \/ Startup(ok)
    \/ SetupSignal
    \/ WritePidFile
    \/ WaitForExit
    \/ RemovePidFile

Next ==
    \/ MainNext
    \/ \E sig \in Signals : Signal(sig)
    \/ StopComplete
    \/ \E pass \in Passwords : SetRequirepass(pass)
    \/ \E c \in Clients, arg \in SelectArgs : Select(c, arg)
    \/ \E c \in Clients, nargs \in 1 .. 3, pass \in Passwords :
           Auth(c, nargs, pass)

Spec == Init /\ [][Next]_vars

\* The main thread is scheduled, and a server told to stop finishes its
\* teardown.  No signal has to arrive and no session has to send anything.
FairSpec == Spec /\ WF_vars(MainNext) /\ WF_vars(StopComplete)

-----------------------------------------------------------------------------
\* The variables have the values their declarations allow; a session's
\* database is one the server has (SELECT tests id against dbNum()), and
\* the only one of a cluster.
TypeOK ==
    /\ argv \in {"none", "-v", "file"}
    /\ mainPc \in Ended \cup {MainSteps[i] : i \in DOMAIN MainSteps}
    /\ installed \in 0 .. Len(SigActions)
    /\ pidFile \in BOOLEAN /\ asked \in BOOLEAN
    /\ server \in {"none", "failed", "running", "stopping", "stopped"}
    /\ requirepass \in Passwords
    /\ authed \in [Clients -> BOOLEAN]
    /\ dbId \in [Clients -> 0 .. DbNum - 1]
    /\ clusterEnabled \in BOOLEAN
    /\ clusterEnabled => \A c \in Clients : dbId[c] = 0
    /\ reply \in [Clients -> {"none", "OK", "ERR_PARSEOPT", "ERR_PARSEPKT",
                              "ERR_AUTH"}]

\* A pid file names a process that lives: however the process ends, by
\* return, by LOG(FATAL) or by a signal at any statement of main, it
\* leaves no pid file behind.  main installs its handlers before it
\* writes the file and removes the file before it returns.
PidFileOnlyWhileAlive == pidFile => Alive

\* The INVARIANT of the handler shutdown, getGlobalServer() != nullptr,
\* holds whenever a signal calls it: the process never ends by LOG(FATAL)
\* once startup has begun, except where startup itself failed.
HandlerFindsServer ==
    mainPc = "fatal" => server \in {"none", "failed"} /\ ~asked

\* A server that served sessions is left without its teardown only by a
\* signal that arrives before setupSignals has finished, in the window main
\* leaves open between startup() and its last sigaction call (a SIGINT
\* after a handled SIGTERM included).  Once all handlers are installed the
\* process ends only behind waitForExit, with the server stopped.
AbruptEndOnlyBeforeHandlers ==
    (~Alive /\ server \in {"running", "stopping"}) =>
        mainPc = "killed" /\ installed < Len(SigActions)

\* A SIGTERM or SIGINT that reached the handler ends the process, with the
\* pid file removed, whatever statement main was at and whatever signals
\* follow.
ShutdownCompletes == asked ~> (~Alive /\ ~pidFile)

=============================================================================
