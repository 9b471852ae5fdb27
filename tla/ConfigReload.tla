---------------------------- MODULE ConfigReload ----------------------------
(***************************************************************************)
(* Output clients, signals and configuration reload of parsedmarc/cli.py:  *)
(* building the clients at start-up, the watch loop, SIGHUP, SIGTERM and   *)
(* SIGINT, and the reload that stages every fallible step, then commits    *)
(* all of them or rolls back.                                              *)
(*                                                                         *)
(* The process is single-threaded, so the interleavings are those of its   *)
(* steps with signals and with edits of the configuration file; any staged *)
(* step can fail.  A configuration is a model value, and every setting     *)
(* derived from it is represented by the configuration it came from.  A    *)
(* client is <<output, generation>>, the generation being the number of    *)
(* the attempt that built it.                                              *)
(***************************************************************************)
EXTENDS Integers

CONSTANTS
    Configs,        \* contents the configuration file can have
    Outputs(_),     \* the outputs a configuration names
    Watches(_),     \* whether it sets mailbox_watch
    Rejected,       \* configurations that parse but that watch_inbox refuses
                    \* (a negative max_unsaved_retries)
    MaxRetries,     \* retries of the client initialization at start-up (4)
    MaxSignals      \* bound on SIGHUPs

(***************************************************************************)
(* The search backends, whose client lives under a process-wide alias, are *)
(* built after the other outputs.                                          *)
(***************************************************************************)
Backends == {"elasticsearch", "opensearch"}

Names == {"postgresql"} \cup Backends

BuildOrder == [postgresql |-> 1, elasticsearch |-> 2, opensearch |-> 3]

ASSUME ConfigAssumption ==
    /\ \A c \in Configs : Outputs(c) \subseteq Names /\ Watches(c) \in BOOLEAN
    /\ Rejected \subseteq Configs
    /\ MaxRetries \in Nat
    /\ MaxSignals \in Nat

Generations == 0 .. MaxRetries + MaxSignals + 1

VARIABLES
    file,       \* the contents of the configuration file
    pc,
    starting,   \* the clients are being built for start-up, not for a reload
    retries,    \* failed attempts at start-up
    gen,        \* number of the current attempt to build clients
    reload,     \* _reload_requested
    shutdown,   \* _shutdown_requested
    live,       \* opts, parser_config, watch parameters, n_procs,
                \* REVERSE_DNS_MAP, log
    utils,      \* psl_overrides, _IP_DB_PATH and _IPINFO_API_TOKEN
    serverless, \* elastic._SERVERLESS
    alias,      \* the generation registered under each backend's "default"
    clients,    \* the clients in use: output -> generation, 0 for none
    new,        \* new_opts, as the configuration it was parsed from
    staged,     \* new_clients
    todo,       \* outputs still to be built
    half,       \* a backend registered by set_hosts() without a handle yet
    saved,      \* the snapshots: aliases, serverless, utils globals
    open,       \* clients that hold an open connection
    abandoned,  \* history: the attempts whose PostgreSQL client was dropped,
                \* connected, when create_tables() raised
    unread,     \* history: a SIGHUP arrived after the file was last read
    forced      \* history: a second SIGINT ended the process

signals == <<reload, shutdown, unread, forced>>
active == <<live, clients>>
globals == <<utils, serverless, alias>>
vars == <<file, pc, starting, retries, gen, signals, active, globals, new,
          staged, todo, half, saved, open, abandoned>>

NoClients == [n \in Names |-> 0]

NoAlias == [b \in Backends |-> 0]

Parts == {"opts", "parser", "watch", "procs", "map", "log"}

(***************************************************************************)
(* What a commit renews.  n_procs is computed once, from the configuration *)
(* of the start, and handed to every watch_inbox().                        *)
(***************************************************************************)
Renewed == Parts \ {"procs"}

Settings(c) == [p \in Parts |-> c]

UtilsParts == {"psl", "ipdb", "token"}

Snapshot == [alias |-> alias, serverless |-> serverless, utils |-> utils]

Pool(dict) == {<<n, dict[n]>> : n \in {m \in Names : dict[m] # 0}}

(***************************************************************************)
(* The process has parsed its configuration, loaded the map and the        *)
(* databases, and is about to build the clients for the first time.        *)
(***************************************************************************)
Init ==
    /\ file \in Configs
    /\ new = file
    /\ pc = "build"
    /\ starting = TRUE
    /\ retries = 0
    /\ gen = 1
    /\ reload = FALSE /\ shutdown = FALSE /\ unread = FALSE /\ forced = FALSE
    /\ live = Settings(file)
    /\ utils = [p \in UtilsParts |-> file]
    /\ serverless = file
    /\ alias = NoAlias
    /\ clients = NoClients
    /\ staged = NoClients
    /\ todo = Outputs(file)
    /\ half = "none"
    /\ saved = Snapshot
    /\ open = {}
    /\ abandoned = {}

-----------------------------------------------------------------------------
(***************************************************************************)
(* _build_output_clients.  A search backend takes over the default alias   *)
(* (and elastic._SERVERLESS) in set_hosts(), before the index migration    *)
(* and before its handle is in the dict.                                   *)
(***************************************************************************)
Building(n) ==
    /\ pc = "build"
    /\ n \in todo
    /\ \A m \in todo : BuildOrder[n] <= BuildOrder[m]

BuildClient(n) ==
    /\ Building(n)
    /\ n \notin Backends
    /\ staged' = [staged EXCEPT ![n] = gen]
    /\ open' = open \cup {<<n, gen>>}
    /\ todo' = todo \ {n}
    /\ UNCHANGED <<file, pc, starting, retries, gen, signals, active, globals,
                   new, half, saved, abandoned>>

SetHosts(b) ==
    /\ Building(b)
    /\ b \in Backends
    /\ half = "none"
    /\ serverless' = IF b = "elasticsearch" THEN new ELSE serverless
    /\ alias' = [alias EXCEPT ![b] = gen]
    /\ open' = open \cup {<<b, gen>>}
    /\ half' = b
    /\ UNCHANGED <<file, pc, starting, retries, gen, signals, active, utils,
                   new, staged, todo, saved, abandoned>>

Migrate(b) ==
    /\ Building(b)
    /\ half = b
    /\ staged' = [staged EXCEPT ![b] = gen]
    /\ half' = "none"
    /\ todo' = todo \ {b}
    /\ UNCHANGED <<file, pc, starting, retries, gen, signals, active, globals,
                   new, saved, open, abandoned>>

(***************************************************************************)
(* A constructor fails: an unreachable server, a bad option, a missing     *)
(* extra.  set_hosts() has assigned _SERVERLESS by then.  PostgreSQLClient *)
(* connects in its constructor and is registered after create_tables();    *)
(* when that raises, no dict holds the client and nothing closes it.       *)
(***************************************************************************)
BuildFails(n) ==
    /\ Building(n)
    /\ serverless' \in {serverless, IF n = "elasticsearch" THEN new ELSE serverless}
    /\ pc' = "teardown"
    /\ \/ UNCHANGED <<open, abandoned>>
       \/ /\ n = "postgresql"
          /\ open' = open \cup {<<n, gen>>}
          /\ abandoned' = abandoned \cup {gen}
    /\ UNCHANGED <<file, starting, retries, gen, signals, active, utils, alias,
                   new, staged, todo, half, saved>>

Abandoned == {<<"postgresql", g>> : g \in abandoned}

(***************************************************************************)
(* Closing a dict of clients: a search handle gives up the alias only      *)
(* while the alias names its own client.                                   *)
(***************************************************************************)
Mutant_ReleaseAnyway(dict) ==
    [b \in Backends |-> IF dict[b] # 0 THEN 0 ELSE alias[b]]

AliasAfterClosing(dict) ==
    [b \in Backends |-> IF dict[b] # 0 /\ alias[b] = dict[b] THEN 0 ELSE alias[b]]

CloseClients(dict) ==
    /\ open' = open \ Pool(dict)
    /\ alias' = AliasAfterClosing(dict)

(***************************************************************************)
(* The rollback: close what was built, then hand the aliases, _SERVERLESS  *)
(* and the utils globals back.  A client that still holds an alias then is *)
(* a half-built one, and is closed.                                        *)
(***************************************************************************)
Teardown ==
    /\ pc = "teardown"
    /\ CloseClients(staged)
    /\ staged' = NoClients
    /\ pc' = "restore"
    /\ UNCHANGED <<file, starting, retries, gen, signals, active, utils,
                   serverless, new, todo, half, saved, abandoned>>

TakenOver == {b \in Backends : alias[b] # saved.alias[b] /\ alias[b] # 0}

Mutant_HalfBuiltKept ==
    /\ pc = "restore"
    /\ alias' = saved.alias
    /\ serverless' = saved.serverless
    /\ utils' = saved.utils
    /\ pc' = IF starting THEN "retry" ELSE "loop"
    /\ half' = "none"
    /\ UNCHANGED <<file, starting, retries, gen, signals, active, new, staged,
                   todo, saved, open, abandoned>>

Restore ==
    /\ pc = "restore"
    /\ serverless' = saved.serverless
    /\ alias' = saved.alias
    /\ open' = open \ {<<b, alias[b]>> : b \in TakenOver}
    /\ utils' = saved.utils
    /\ pc' = IF starting THEN "retry" ELSE "loop"
    /\ half' = "none"
    /\ UNCHANGED <<file, starting, retries, gen, signals, active, new, staged,
                   todo, saved, abandoned>>

Retry ==
    /\ pc = "retry"
    /\ \/ /\ retries < MaxRetries
          /\ retries' = retries + 1
          /\ gen' = gen + 1
          /\ todo' = Outputs(new)
          /\ pc' = "build"
       \/ /\ pc' = "exit"
          /\ UNCHANGED <<retries, gen, todo>>
    /\ UNCHANGED <<file, starting, signals, active, globals, new, staged, half,
                   saved, open, abandoned>>

Started ==
    /\ starting
    /\ pc = "build"
    /\ todo = {}
    /\ clients' = staged
    /\ staged' = NoClients
    /\ starting' = FALSE
    /\ pc' = "loop"
    /\ UNCHANGED <<file, retries, gen, signals, live, globals, new, todo, half,
                   saved, open, abandoned>>

-----------------------------------------------------------------------------
(***************************************************************************)
(* The watch loop.  watch_inbox() checks the mailbox until a signal flag   *)
(* is set; it refuses bad options with a ValueError nobody catches, and a  *)
(* failing check of some backends ends the process too.                    *)
(***************************************************************************)
Watch ==
    /\ pc = "loop"
    /\ pc' = CASE ~Watches(live["opts"])     -> "close"
               [] live["watch"] \in Rejected -> "exit"
               [] OTHER                      -> "watch"
    /\ UNCHANGED <<file, starting, retries, gen, signals, active, globals, new,
                   staged, todo, half, saved, open, abandoned>>

WatchError ==
    /\ pc = "watch"
    /\ pc' = "exit"
    /\ UNCHANGED <<file, starting, retries, gen, signals, active, globals, new,
                   staged, todo, half, saved, open, abandoned>>

(***************************************************************************)
(* A flag is seen between two checks.  Shutdown has priority.  A reload    *)
(* clears its flag, takes the snapshots and reads the file.                *)
(***************************************************************************)
Mutant_NoBreak ==
    /\ pc = "watch"
    /\ shutdown
    /\ pc' = "loop"
    /\ UNCHANGED <<file, starting, retries, gen, signals, active, globals, new,
                   staged, todo, half, saved, open, abandoned>>

StopWatching ==
    /\ pc = "watch"
    /\ shutdown
    /\ pc' = "close"
    /\ UNCHANGED <<file, starting, retries, gen, signals, active, globals, new,
                   staged, todo, half, saved, open, abandoned>>

Mutant_CloseBeforeBuilding ==
    /\ pc = "watch"
    /\ reload
    /\ ~shutdown
    /\ reload' = FALSE
    /\ saved' = Snapshot
    /\ CloseClients(clients)
    /\ pc' = "parse"
    /\ UNCHANGED <<file, starting, retries, gen, shutdown, unread, forced,
                   active, utils, serverless, new, staged, todo, half,
                   abandoned>>

BeginReload ==
    /\ pc = "watch"
    /\ reload
    /\ ~shutdown
    /\ reload' = FALSE
    /\ saved' = Snapshot
    /\ pc' = "parse"
    /\ UNCHANGED <<file, starting, retries, gen, shutdown, unread, forced,
                   active, globals, new, staged, todo, half, open, abandoned>>

(***************************************************************************)
(* Phase 1.  Parse the file, build the clients, derive the parser          *)
(* configuration and watch parameters, open the log file; any may fail.    *)
(***************************************************************************)
ParseConfig ==
    /\ pc = "parse"
    /\ new' = file
    /\ unread' = FALSE
    /\ gen' = gen + 1
    /\ todo' = Outputs(file)
    /\ pc' \in {"build", "teardown"}
    /\ UNCHANGED <<file, starting, retries, reload, shutdown, forced, active,
                   globals, staged, half, saved, open, abandoned>>

Stage ==
    /\ ~starting
    /\ pc = "build"
    /\ todo = {}
    /\ pc' \in {"psl", "teardown"}
    /\ UNCHANGED <<file, starting, retries, gen, signals, active, globals, new,
                   staged, todo, half, saved, open, abandoned>>

(***************************************************************************)
(* load_reverse_dns_map first clears and refills the shared overrides      *)
(* list, then fills the staged map; load_ip_db assigns a path;             *)
(* configure_ipinfo_api assigns the token and then probes it, and a        *)
(* rejected token ends the process without a rollback.                     *)
(***************************************************************************)
LoadOverrides ==
    /\ pc = "psl"
    /\ \/ utils' = [utils EXCEPT !["psl"] = new] /\ pc' \in {"ipdb", "teardown"}
       \/ utils' = [utils EXCEPT !["psl"] = "partial"] /\ pc' = "teardown"
    /\ UNCHANGED <<file, starting, retries, gen, signals, active, serverless,
                   alias, new, staged, todo, half, saved, open, abandoned>>

LoadIpDb ==
    /\ pc = "ipdb"
    /\ \/ utils' = [utils EXCEPT !["ipdb"] = new] /\ pc' = "token"
       \/ UNCHANGED utils /\ pc' = "teardown"
    /\ UNCHANGED <<file, starting, retries, gen, signals, active, serverless,
                   alias, new, staged, todo, half, saved, open, abandoned>>

ConfigureToken ==
    /\ pc = "token"
    /\ utils' = [utils EXCEPT !["token"] = new]
    /\ pc' \in {"commit", "exit"}
    /\ UNCHANGED <<file, starting, retries, gen, signals, active, serverless,
                   alias, new, staged, todo, half, saved, open, abandoned>>

(***************************************************************************)
(* Phase 2, the commit, consists of assignments, none of them to n_procs;  *)
(* phase 3 closes the clients that were replaced.                          *)
(***************************************************************************)
Commit ==
    /\ pc = "commit"
    /\ live' = [p \in Parts |-> IF p \in Renewed THEN new ELSE live[p]]
    /\ clients' = staged
    /\ staged' = clients            \* old_clients
    /\ pc' = "close_old"
    /\ UNCHANGED <<file, starting, retries, gen, signals, globals, new, todo,
                   half, saved, open, abandoned>>

Mutant_FlagClearedLate ==
    /\ pc = "close_old"
    /\ CloseClients(staged)
    /\ staged' = NoClients
    /\ reload' = FALSE
    /\ pc' = "loop"
    /\ UNCHANGED <<file, starting, retries, gen, shutdown, unread, forced,
                   active, utils, serverless, new, todo, half, saved,
                   abandoned>>

CloseOld ==
    /\ pc = "close_old"
    /\ CloseClients(staged)
    /\ staged' = NoClients
    /\ pc' = "loop"
    /\ UNCHANGED <<file, starting, retries, gen, signals, active, utils,
                   serverless, new, todo, half, saved, abandoned>>

(***************************************************************************)
(* The end of _main closes the clients in use.  The interpreter then runs  *)
(* the atexit hook, and only the hook when _main left by sys.exit() or an  *)
(* exception: it closes the dict that `clients` names by then.  It is      *)
(* registered once start-up has built the clients; before, there are none. *)
(***************************************************************************)
Close ==
    /\ pc = "close"
    /\ CloseClients(clients)
    /\ pc' = "exit"
    /\ UNCHANGED <<file, starting, retries, gen, signals, active, utils,
                   serverless, new, staged, todo, half, saved, abandoned>>

Mutant_BoundEarly ==
    /\ pc = "exit"
    /\ CloseClients([n \in Names |-> IF n \in Outputs(live["procs"]) THEN retries + 1 ELSE 0])
    /\ pc' = "exited"
    /\ UNCHANGED <<file, starting, retries, gen, signals, active, utils,
                   serverless, new, staged, todo, half, saved, abandoned>>

AtExit ==
    /\ pc = "exit"
    /\ CloseClients(clients)
    /\ pc' = "exited"
    /\ UNCHANGED <<file, starting, retries, gen, signals, active, utils,
                   serverless, new, staged, todo, half, saved, abandoned>>

-----------------------------------------------------------------------------
(***************************************************************************)
(* The administrator edits the file and sends signals.  The handlers are   *)
(* installed once start-up has built the clients, and only set flags.      *)
(* Sigterm is a SIGTERM or a first SIGINT; the second SIGINT ends the      *)
(* process on the spot.                                                    *)
(***************************************************************************)
Edit ==
    /\ pc # "exited"
    /\ \E c \in Configs : file' = c
    /\ UNCHANGED <<pc, starting, retries, gen, signals, active, globals, new,
                   staged, todo, half, saved, open, abandoned>>

Sighup ==
    /\ ~starting
    /\ pc # "exited"
    /\ reload \/ gen + (IF pc = "parse" THEN 1 ELSE 0) < MaxSignals + retries + 1
    /\ reload' = TRUE
    /\ unread' = TRUE
    /\ UNCHANGED <<file, pc, starting, retries, gen, shutdown, forced, active,
                   globals, new, staged, todo, half, saved, open, abandoned>>

Sigterm ==
    /\ ~starting
    /\ pc # "exited"
    /\ shutdown' = TRUE
    /\ UNCHANGED <<file, pc, starting, retries, gen, reload, unread, forced,
                   active, globals, new, staged, todo, half, saved, open,
                   abandoned>>

SecondSigint ==
    /\ shutdown
    /\ pc # "exited"
    /\ pc' = "exited"
    /\ forced' = TRUE
    /\ UNCHANGED <<file, starting, retries, gen, reload, shutdown, unread,
                   active, globals, new, staged, todo, half, saved, open,
                   abandoned>>

Ended == pc = "exited" /\ UNCHANGED vars

Step ==
    \/ \E n \in Names : BuildClient(n) \/ SetHosts(n) \/ Migrate(n) \/ BuildFails(n)
    \/ Teardown \/ Restore \/ Retry \/ Started
    \/ Watch \/ StopWatching \/ BeginReload
    \/ ParseConfig \/ Stage \/ LoadOverrides \/ LoadIpDb \/ ConfigureToken
    \/ Commit \/ CloseOld \/ Close \/ AtExit

Next ==
    \/ Step
    \/ WatchError
    \/ Edit \/ Sighup \/ Sigterm \/ SecondSigint
    \/ Ended

Spec == Init /\ [][Next]_vars

(***************************************************************************)
(* The process runs; backends poll config_reloading between checks.        *)
(***************************************************************************)
FairSpec == Spec /\ WF_vars(Step)

-----------------------------------------------------------------------------
(***************************************************************************)
(* usage.md: a reload takes effect as a whole, or "the previous            *)
(* configuration remains fully active".  Whenever the watcher runs, all    *)
(* settings but n_procs, the loaders' globals, the clients and the         *)
(* process-wide search aliases come from one configuration, and every      *)
(* client in use is open and reachable through its alias.                  *)
(***************************************************************************)
OneConfiguration ==
    pc = "watch" =>
        LET c == live["opts"]
        IN  /\ \A p \in Renewed : live[p] = c
            /\ utils = [p \in UtilsParts |-> c]
            /\ \A n \in Names : (clients[n] # 0) = (n \in Outputs(c))
            /\ \A b \in Backends : alias[b] = clients[b]
            /\ "elasticsearch" \in Outputs(c) => serverless = c
            /\ Pool(clients) \subseteq open

(***************************************************************************)
(* A failed start-up attempt or a reload, aborted or not, leaves behind no *)
(* connection of its own but PostgreSQL's on which create_tables() raised: *)
(* besides those, the watcher runs with only its own clients open.         *)
(***************************************************************************)
NoClientLeak == pc = "watch" => open = Pool(clients) \cup Abandoned

(***************************************************************************)
(* Until a reload has committed, the clients of the running configuration  *)
(* stay open, until the process ends.                                      *)
(***************************************************************************)
ClientsStayOpen == pc \notin {"exit", "exited"} => Pool(clients) \subseteq open

(***************************************************************************)
(* "Always close output clients on the way out", after any number of       *)
(* reloads: however the process ends, except by a second SIGINT, neither   *)
(* the clients in use nor any they replaced are left open.  Those of an    *)
(* unfinished reload are, when its last step, configure_ipinfo_api, ends   *)
(* the process.                                                            *)
(***************************************************************************)
ExitClosesClients ==
    pc = "exited" /\ ~forced =>
        /\ open = Pool(staged) \cup Abandoned
        /\ staged # NoClients => ~starting /\ utils = [p \in UtilsParts |-> new]

(***************************************************************************)
(* A SIGHUP is never lost, not even one that arrives during a reload: the  *)
(* file is read again after it, unless the process ends.                   *)
(***************************************************************************)
SighupServed == unread ~> (~unread \/ pc = "exited")

(***************************************************************************)
(* A shutdown request ends the process, whatever reloads were requested.   *)
(***************************************************************************)
ShutdownEnds == shutdown ~> pc = "exited"

=============================================================================
