------------------------------ MODULE Tcpdaemon ------------------------------
(***************************************************************************)
(* The program from its command line, or from an application's call of     *)
(* tcpdaemon(), to the exit status: parsing, turning into a daemon,        *)
(* checking the parameters, setting up the environment of the server model *)
(* call by call, serving, cleaning up.  The server model IF is the one of  *)
(* InstanceFork, which runs between set-up and clean-up; the pools LF and  *)
(* IOMP have modules of their own and only return here.                    *)
(***************************************************************************)
EXTENDS InstanceFork, Sequences

CONSTANTS
    Words,          \* the words of command lines and of parameters, NoText among them
    CommandLines,   \* the command lines, each a sequence of words
    Addresses,      \* the words "ip:port" with an ip that is not too long
    Atol,           \* the words that are numbers, and their values
    Embedded        \* the parameters with which applications call tcpdaemon()

NoText == ""  \* a parameter that is not given

\* struct TcpdaemonEntryParameter, as far as it decides what the program does.
Parameters == [server_model : Words, process_count : Int, ip : Words, so_pathfilename : Words,
               daemon_level : Int]

ASSUME StartAssumption ==
    /\ NoText \in Words
    /\ CommandLines \subseteq Seq(Words)
    /\ Atol \in [DOMAIN Atol -> Int]
    /\ Embedded \subseteq Parameters

VARIABLES
    step,       \* where the program is
    argv,       \* its command line
    p_para,     \* struct TcpdaemonEntryParameter
    todo,       \* the calls of InitDaemonEnv_IF, _LF or _IOMP still to be made
    p_env,      \* struct TcpdaemonServerEnvironment
    kernel,     \* what the process has from the kernel: <<kind, number>>
    status      \* what the one who started it sees: its exit status

startVars == <<step, argv, p_para, todo, p_env, kernel, status>>
allVars == <<vars, startVars>>

ServerModels == {"IF", "LF", "IOMP"}
NotYet == -1  \* no exit status yet

ZeroPara == [server_model |-> NoText, process_count |-> 0, ip |-> NoText, so_pathfilename |-> NoText,
             daemon_level |-> 0]
ZeroEnv  == [so_handle |-> 0, listen_sock |-> 0, accept_mutex |-> 0, epoll_array |-> <<>>]

\* The calls of the set-up that may fail.
Calls == {"dlopen", "dlsym", "socket", "bind", "listen", "malloc", "semget", "semctl",
          "epoll_array", "epoll_create", "epoll_ctl", "sessions"}

Environments == [so_handle : {0, 1}, listen_sock : Nat \cup {-1}, accept_mutex : {-1, 0, 1},
                 epoll_array : Seq(Nat \cup {-1})]

Fd(n) == <<"fd", n>>
Sem(id) == <<"sem", id>>
So == <<"so", 1>>
\* stdin, stdout, stderr.
Inherited == {Fd(n) : n \in 0 .. 2}
\* The lowest descriptor that is free.
FreeFd == CHOOSE n \in 0 .. Cardinality(kernel) :
              Fd(n) \notin kernel /\ \A k \in 0 .. n - 1 : Fd(k) \in kernel

TypesOK ==
    /\ TypeOK
    /\ step \in {"main", "parse", "tcpdaemon", "daemon", "check", "init", "serve", "returned", "killed", "exited"}
    /\ p_para \in Parameters
    /\ step \in {"init", "serve"} => p_para.server_model \in ServerModels
    /\ argv \in Seq(Words) /\ todo \in Seq(Calls)
    /\ p_env \in Environments
    /\ status \in NotYet .. 255

StartInit ==
    /\ Init
    /\ \/ step = "main" /\ argv \in CommandLines /\ p_para = ZeroPara
       \/ step = "tcpdaemon" /\ argv = <<>> /\ p_para \in Embedded
    /\ todo = <<>>
    /\ p_env = ZeroEnv
    /\ kernel = Inherited
    /\ status = NotYet

-----------------------------------------------------------------------------
(* The command line                                                        *)

Flags == {"--loglevel-fatal", "--loglevel-error", "--loglevel-warn", "--loglevel-info",
          "--loglevel-debug", "--tcp-nodelay", "--daemon-level"}
Options == {"-m", "-c", "-n", "-l", "-s", "--work-path", "--work-user", "--logfile",
            "--tcp-linger", "--timeout", "--cpu-affinity"}

\* atol: what is not a number is 0.
Number(word) == IF word \in DOMAIN Atol THEN Atol[word] ELSE 0

\* What the value of an option does to the parameters; others than these do not
\* decide what the program does next.
Assign(para, option, value) ==
    CASE option = "-m" -> [para EXCEPT !.server_model = value]
      [] option = "-c" -> [para EXCEPT !.process_count = Number(value)]
      [] option = "-l" -> [para EXCEPT !.ip = value]
      [] option = "-s" -> [para EXCEPT !.so_pathfilename = value]
      [] OTHER -> para

\* The first exit is the one that the starter sees.
Exit(code) == status' = IF status = NotYet THEN code ELSE status

\* main: without arguments it prints how to use it.
Main ==
    /\ step = "main"
    /\ IF argv = <<>> THEN step' = "exited" /\ Exit(0) ELSE step' = "parse" /\ UNCHANGED status
    /\ UNCHANGED <<argv, p_para, todo, p_env, kernel, vars>>

\* Nothing more is read of a command line after which the program exits.
ExitParsing(code) == step' = "exited" /\ Exit(code) /\ argv' = <<>> /\ p_para' = ZeroPara

Version == argv # <<>> /\ Head(argv) = "-v" /\ ExitParsing(0)

\* An option takes the next word, whatever that is; -l only an address.
ParseOption ==
    /\ Len(argv) >= 2
    /\ Head(argv) \in Options
    /\ IF Head(argv) = "-l" /\ argv[2] \notin Addresses THEN ExitParsing(1)
       ELSE /\ p_para' = Assign(p_para, Head(argv), argv[2])
            /\ argv' = Tail(Tail(argv))
            /\ UNCHANGED <<step, status>>

ParseFlag ==
    /\ argv # <<>> /\ Head(argv) \in Flags
    /\ p_para' = IF Head(argv) = "--daemon-level" THEN [p_para EXCEPT !.daemon_level = 1] ELSE p_para
    /\ argv' = Tail(argv)
    /\ UNCHANGED <<step, status>>

\* A word the program does not know, or an option without a value.
Invalid ==
    /\ argv # <<>>
    /\ Head(argv) \notin Flags \cup {"-v"}
    /\ Head(argv) \in Options => Len(argv) = 1
    /\ ExitParsing(1)

ParseCommandParameter ==
    /\ step = "parse"
    /\ \/ Version \/ ParseOption \/ ParseFlag \/ Invalid
       \/ argv = <<>> /\ step' = "tcpdaemon" /\ UNCHANGED <<argv, p_para, status>>
    /\ UNCHANGED <<todo, p_env, kernel, vars>>

-----------------------------------------------------------------------------
(* tcpdaemon(): the daemon, the parameters                                 *)

\* tcpdaemon() returns nret, and the program exits with -nret.
Return(nret) == step' = "returned" /\ Exit(-nret)

\* The first of the two forks of a daemon. Its parent exits at once.
BindDaemonServer ==
    /\ step = "tcpdaemon" /\ p_para.daemon_level = 1
    /\ \/ step' = "daemon" /\ Exit(0) /\ UNCHANGED faults
       \/ Fault /\ Return(-1)
    /\ UNCHANGED <<argv, p_para, todo, p_env, kernel, parent, listen_sock, accepted_sock,
                   process_count, conn, sigchld, g_EXIT_flag>>

ForkAgain ==
    /\ step = "daemon"
    /\ \/ step' = "check" /\ UNCHANGED <<faults, status>>
       \/ Fault /\ Return(-2)
    /\ UNCHANGED <<argv, p_para, todo, p_env, kernel, parent, listen_sock, accepted_sock,
                   process_count, conn, sigchld, g_EXIT_flag>>

InForeground ==
    /\ step = "tcpdaemon" /\ p_para.daemon_level # 1
    /\ step' = "check"
    /\ UNCHANGED <<argv, p_para, todo, p_env, kernel, status, vars>>

CheckCommandParameter(para) ==
    CASE para.server_model = "IF" -> 0
      [] para.server_model \in {"LF", "IOMP"} -> IF para.process_count <= 0 THEN -1 ELSE 0
      [] OTHER -> -2

\* The calls of InitDaemonEnv that may fail, in their order, for parameters para.
CommonCalls(para) ==
    (IF para.so_pathfilename # NoText THEN <<"dlopen", "dlsym">> ELSE <<>>) \o <<"socket", "bind", "listen">>

InitCalls(para) ==
    LET each(call) == [i \in 1 .. para.process_count |-> call]
    IN  CommonCalls(para) \o
        CASE para.server_model = "IF" -> <<>>
          [] para.server_model = "LF" -> <<"malloc", "semget", "semctl">>
          [] para.server_model = "IOMP" ->
               <<"malloc", "epoll_array">> \o each("epoll_create") \o each("epoll_ctl") \o <<"sessions">>

\* _tcpdaemon: a cleared environment, then the entry of the server model.
CheckAndEnter ==
    /\ step = "check"
    /\ IF CheckCommandParameter(p_para) # 0
         THEN Return(CheckCommandParameter(p_para)) /\ UNCHANGED <<todo, p_env>>
         ELSE /\ step' = "init"
              /\ todo' = InitCalls(p_para)
              /\ p_env' = [ZeroEnv EXCEPT !.listen_sock = -1]
              /\ UNCHANGED status
    /\ UNCHANGED <<argv, p_para, kernel, vars>>

-----------------------------------------------------------------------------
(* The environment of the server                                           *)

\* The slots of epoll_array that are still as memset left them.
Unset == {i \in DOMAIN p_env.epoll_array : p_env.epoll_array[i] = 0}
FirstUnset == CHOOSE i \in Unset : \A j \in Unset : i <= j

\* What a successful call leaves in p_env and in the kernel. The first semaphore of
\* a system has the identifier 0.
Opens(call) ==
    CASE call = "dlopen" -> p_env' = [p_env EXCEPT !.so_handle = 1] /\ kernel' = kernel \cup {So}
      [] call = "socket" -> p_env' = [p_env EXCEPT !.listen_sock = FreeFd] /\ kernel' = kernel \cup {Fd(FreeFd)}
      [] call = "semget" -> \E id \in {0, 1} : /\ p_env' = [p_env EXCEPT !.accept_mutex = id]
                                               /\ kernel' = kernel \cup {Sem(id)}
      [] call = "epoll_array" -> /\ p_env' = [p_env EXCEPT !.epoll_array = [i \in 1 .. p_para.process_count |-> 0]]
                                 /\ UNCHANGED kernel
      [] call = "epoll_create" -> /\ p_env' = [p_env EXCEPT !.epoll_array[FirstUnset] = FreeFd]
                                  /\ kernel' = kernel \cup {Fd(FreeFd)}
      [] OTHER -> UNCHANGED <<p_env, kernel>>

\* A call succeeds: a bind without an address may, too.
CallSucceeds ==
    /\ step = "init" /\ todo # <<>>
    /\ Opens(Head(todo))
    /\ todo' = Tail(todo)
    /\ UNCHANGED <<step, argv, p_para, status, vars>>

\* What a failing call leaves in p_env.
Failed(call) ==
    CASE call = "semget" -> [p_env EXCEPT !.accept_mutex = -1]
      [] call = "epoll_create" -> [p_env EXCEPT !.epoll_array[FirstUnset] = -1]
      [] OTHER -> p_env

\* What CleanDaemonEnv, CleanDaemonEnv_LF and CleanDaemonEnv_IOMP close and remove.
Cleaned(env) ==
    (IF env.so_handle # 0 THEN {So} ELSE {}) \cup
    (IF env.listen_sock # -1 THEN {Fd(env.listen_sock)} ELSE {})
Cleaned_LF(env) == Cleaned(env) \cup (IF env.accept_mutex # 0 THEN {Sem(env.accept_mutex)} ELSE {})

\* Mutant: the last epoll is left open.
Cleaned_IOMPExceptLast(env) ==
    Cleaned(env) \cup {Fd(env.epoll_array[i]) : i \in 1 .. Len(env.epoll_array) - 1}
Cleaned_IOMP(env) == Cleaned(env) \cup {Fd(env.epoll_array[i]) : i \in DOMAIN env.epoll_array}

CleanedBy(server_model, env) ==
    CASE server_model = "IF" -> Cleaned(env)
      [] server_model = "LF" -> Cleaned_LF(env)
      [] server_model = "IOMP" -> Cleaned_IOMP(env)

\* Mutant: the result of the cleaning is returned.
CallFailsUnreported ==
    /\ step = "init" /\ todo # <<>>
    /\ p_env' = Failed(Head(todo))
    /\ kernel' = kernel \ CleanedBy(p_para.server_model, p_env')
    /\ Return(0)
    /\ IF p_para.server_model = "IF" THEN InitFails
       ELSE Fault /\ UNCHANGED <<parent, listen_sock, accepted_sock, process_count, conn, sigchld, g_EXIT_flag>>
    /\ UNCHANGED <<argv, p_para, todo>>

CallFails ==
    /\ step = "init" /\ todo # <<>>
    /\ p_env' = Failed(Head(todo))
    /\ kernel' = kernel \ CleanedBy(p_para.server_model, p_env')
    /\ Return(-1)
    /\ IF p_para.server_model = "IF" THEN InitFails
       ELSE Fault /\ UNCHANGED <<parent, listen_sock, accepted_sock, process_count, conn, sigchld, g_EXIT_flag>>
    /\ UNCHANGED <<argv, p_para, todo>>

\* The handlers are set and the server model's own loop begins.
StartServing ==
    /\ step = "init" /\ todo = <<>>
    /\ step' = "serve"
    /\ IF p_para.server_model = "IF" THEN InitDaemonEnv ELSE UNCHANGED vars
    /\ UNCHANGED <<argv, p_para, todo, p_env, kernel, status>>

-----------------------------------------------------------------------------
(* Serving                                                                 *)

\* A step of InstanceFork; tcpdaemon_IF returns 0 when it is done, for whatever reason.
ServeIF(A) ==
    /\ step = "serve" /\ p_para.server_model = "IF"
    /\ A
    /\ IF parent' = "done"
         THEN Return(0) /\ kernel' = kernel \ Cleaned(p_env)
         ELSE UNCHANGED <<step, kernel, status>>
    /\ UNCHANGED <<argv, p_para, todo, p_env>>

\* A pool returns 0 when all its workers are gone.
PoolReturns ==
    /\ step = "serve" /\ p_para.server_model # "IF"
    /\ kernel' = kernel \ CleanedBy(p_para.server_model, p_env)
    /\ Return(0)
    /\ UNCHANGED <<argv, p_para, todo, p_env, vars>>

\* pipe() or fork() fails for one worker: the manager still has its ends of the pipes
\* of other workers, and both of this one's when it is fork() that fails.
PoolFails ==
    /\ step = "serve" /\ p_para.server_model # "IF"
    /\ Fault
    /\ \E ends \in {0, 2}, others \in 0 .. p_para.process_count - 1 :
         kernel' = (kernel \ CleanedBy(p_para.server_model, p_env))
                     \cup {<<"pipe", i>> : i \in 1 .. others + ends}
    /\ Return(-11)
    /\ UNCHANGED <<argv, p_para, todo, p_env, parent, listen_sock, accepted_sock, process_count,
                   conn, sigchld, g_EXIT_flag>>

\* SIGTERM before its handler is set ends the program; a semaphore outlives it.
KilledInSetUp ==
    /\ step \in {"daemon", "check", "init"}
    /\ step' = "killed"
    /\ Exit(128 + 15)
    /\ kernel' = {r \in kernel : r[1] = "sem"}
    /\ UNCHANGED <<argv, p_para, todo, p_env, vars>>

StartStep == Main \/ ParseCommandParameter \/ BindDaemonServer \/ ForkAgain \/ InForeground \/ CheckAndEnter
                  \/ CallSucceeds \/ StartServing

StartNext ==
    \/ StartStep \/ CallFails \/ PoolReturns \/ PoolFails \/ KilledInSetUp
    \/ ServeIF(ParentStep) \/ ServeIF(ForkFails) \/ ServeIF(SystemCallFails)
    \/ ServeIF(sigproc_SIGTERM) \/ ServeIF(sigproc_SIGCHLD)
    \/ \E c \in Conns : ServeIF(ChildEnds(c)) \/ ServeIF(Connect(c))

\* The program runs, and a pending SIGCHLD is delivered.
StartSpec ==
    /\ StartInit /\ [][StartNext]_allVars
    /\ WF_allVars(StartStep)
    /\ WF_allVars(ServeIF(ParentStep))
    /\ WF_allVars(ServeIF(sigproc_SIGCHLD))

-----------------------------------------------------------------------------
(* Safety                                                                  *)

\* When tcpdaemon() has returned to an application, whatever failed and where, all
\* that the server opened is closed, but for a semaphore with identifier 0 and,
\* after a pool could not start a worker, alive pipes; and nothing else is closed,
\* but for descriptor 0 if the epolls could not all be created.
SetupUndone ==
    step = "returned" =>
        /\ \A r \in kernel \ Inherited : r = Sem(0) \/ (r[1] = "pipe" /\ todo = <<>>)
        /\ \A r \in Inherited \ kernel : r = Fd(0) /\ Unset # {}

\* The starter sees 0 only for a server that has served, for a daemon, whatever
\* becomes of it, and when it asked for nothing else than how to use the program.
ExitTells ==
    [][ status = NotYet /\ status' = 0 =>
          \/ step = "serve"
          \/ step = "tcpdaemon" /\ p_para.daemon_level = 1
          \/ step = "main" /\ argv = <<>>
          \/ step = "parse" /\ Head(argv) = "-v" ]_allVars
=============================================================================
