----------------------------- MODULE TcpdaemonMC -----------------------------
(* Command lines and parameters for TLC: the ones of the README and of the     *)
(* scripts in src/test, and what is left of them when words are missing.       *)
EXTENDS Tcpdaemon

MCAddresses == {"0:9527"}
MCAtol == [w \in {"2", "1", "0", "1000"} |->
             CASE w = "2" -> 2 [] w = "1" -> 1 [] w = "0" -> 0 [] w = "1000" -> 1000]

Listen == <<"-l", "0:9527">>
Serve(model, count) == <<"-m", model>> \o Listen \o <<"-s", "tcpmain.so", "-c", count>>

MCCommandLines == {
    <<>>, <<"-v">>, <<"-m", "IF", "-v">>,
    Serve("IF", "2"),
    Serve("LF", "2") \o <<"-n", "1000", "--work-path", "/home", "--loglevel-debug">>,
    Serve("LF", "2") \o <<"--daemon-level", "--cpu-affinity", "1">>,
    Serve("IOMP", "2") \o <<"--tcp-nodelay", "--tcp-linger", "1", "--timeout", "2">>,
    Serve("IOMP", "1") \o <<"--daemon-level">>,
    Serve("LF", "0"), Serve("IOMP", "many") \o <<"--daemon-level">>,
    Serve("WIN-TLF", "2"), Listen, <<"-m", "LF", "-c", "2", "-s", "tcpmain.so">>,
    <<"-m", "LF", "-l", "9527">>, <<"-m", "-l", "0:9527">>, <<"-m", "LF", "-c">>,
    <<"-m", "LF", "--loglevel">> }

MCWords == UNION {{line[i] : i \in DOMAIN line} : line \in MCCommandLines} \cup {"", "IF", "LF", "IOMP"}

Para(model, count, daemon) ==
    [server_model |-> model, process_count |-> count, ip |-> "0:9527", so_pathfilename |-> "",
     daemon_level |-> daemon]
MCEmbedded == {Para("IF", max_process_count, 0), Para("LF", 2, 0), Para("IOMP", 3, 0)}
=============================================================================
