--------------------------- MODULE ConfigLoading ---------------------------
(***************************************************************************)
(* Where the options in force come from, and where the log goes: start-up  *)
(* and reloads of cli._main with the sources they read.  The configuration *)
(* file, the secret files and the permissions of the log files change at   *)
(* any moment; the environment of the process does not.  A reload reads    *)
(* the sources, builds the output clients, opens the new log file, loads   *)
(* the maps, and only then replaces the options; each step before that may *)
(* fail and leaves everything as it was.  (ConfigReload models the clients *)
(* and the maps.)                                                          *)
(***************************************************************************)
EXTENDS ConfigOptions

CONSTANTS
    Files,      \* what the configuration file may hold
    Unreadable, \* the file is missing or cannot be read
    Direct,     \* PARSEDMARC_* variables that hold the value themselves
    Secrets,    \* what the files named by PARSEDMARC_..._FILE may hold
    Missing,    \* one of those files cannot be read
    CliLog,     \* the log file of the command line, or Nothing
    LogFiles    \* files that may be logged to

ASSUME LogAssumption == CliLog \in LogFiles \cup {Nothing} /\ Nothing \notin LogFiles

VARIABLES
    file,       \* contents of the configuration file, or Unreadable
    secrets,    \* contents of the secret files, or Missing
    writable,   \* the log files that can be opened
    pc,         \* start, running, parsed, opened or exited
    opts,       \* the options in force
    active,     \* opts.active_log_file
    attached,   \* log files whose handlers are on the parsedmarc logger
    dependency, \* log files whose handlers are on the dependencies' loggers
    open,       \* log files with an open handler
    level,      \* level of the parsedmarc logger
    staged,     \* the reload under way: the new options and log handler
    loaded      \* history: the sources of the options in force

vars == <<file, secrets, writable, pc, opts, active, attached, dependency, open,
          level, staged, loaded>>

sources == <<file, secrets, writable>>
logging == <<active, attached, dependency, open, level>>

NotStaged == [opts |-> None, handler |-> Nothing, from |-> None]

CliOptions == None \* what the command line says is not repeated here

(***************************************************************************)
(* The options that only a configuration creates: the namespace made from  *)
(* the command line lacks them.                                            *)
(***************************************************************************)
NotInCli == {<<"msgraph", "token_file">>}

On(o, s, k) == <<s, k>> \in DOMAIN o /\ o[<<s, k>>] = "on"

LogFile(o) == IF <<"general", "log_file">> \in DOMAIN o
              THEN o[<<"general", "log_file">>] ELSE CliLog

Level(o) ==
    IF On(o, "general", "debug") THEN "DEBUG"
    ELSE IF On(o, "general", "verbose") THEN "INFO"
    ELSE IF On(o, "general", "warnings") THEN "WARNING"
    ELSE "ERROR"

Config(from) == LoadConfig(from.file, Direct, from.secrets)

Loads(from, answered) ==
    /\ from.file # Unreadable
    /\ from.secrets # Missing
    /\ Accepted(Config(from), answered)

\* At least one way to get at reports.
HasInput(o) ==
    \/ <<"imap", "host">> \in DOMAIN o
    \/ <<"msgraph", "client_id">> \in DOMAIN o
    \/ \E way \in {<<"gmail_api", "credentials_file">>, <<"maildir", "maildir_path">>} :
          way \in DOMAIN o /\ o[way] # Nothing

PerType == {"delete_aggregate", "delete_failure", "delete_smtp_tls", "delete_invalid"}

\* A flag of its own, or, unless it has one, the one for all types.
Deletes(o, k) == IF <<"mailbox", k>> \in DOMAIN o THEN On(o, "mailbox", k)
                 ELSE On(o, "mailbox", "delete")

(***************************************************************************)
(* Without the scope that allows it nothing may be deleted through the     *)
(* Gmail API: start-up turns every delete option off.                      *)
(***************************************************************************)
GmailRestricted(o) ==
    LET off == {<<"mailbox", k>> : k \in PerType \cup {"delete"}}
    IN  IF /\ <<"gmail_api", "credentials_file">> \in DOMAIN o
           /\ o[<<"gmail_api", "credentials_file">>] # Nothing
           /\ \E k \in PerType : Deletes(o, k)
           /\ o[<<"gmail_api", "scopes">>] # DeleteScope
        THEN [x \in DOMAIN o \cup off |-> IF x \in off THEN "off" ELSE o[x]]
        ELSE o

----------------------------------------------------------------------------
Init ==
    /\ file \in Files \cup {Unreadable}
    /\ secrets \in Secrets \cup {Missing}
    /\ writable \in SUBSET LogFiles
    /\ pc = "start"
    /\ opts = CliOptions
    /\ active = Nothing /\ attached = {} /\ dependency = {} /\ open = {}
    /\ level = "ERROR"
    /\ staged = NotStaged
    /\ loaded = None

----------------------------------------------------------------------------
(***************************************************************************)
(* The administrator's doing.                                              *)
(***************************************************************************)
EditFile ==
    /\ file' \in Files \cup {Unreadable}
    /\ UNCHANGED <<secrets, writable, pc, opts, logging, staged, loaded>>

EditSecrets ==
    /\ secrets' \in Secrets \cup {Missing}
    /\ UNCHANGED <<file, writable, pc, opts, logging, staged, loaded>>

ChangePermissions ==
    /\ writable' \in SUBSET LogFiles
    /\ UNCHANGED <<file, secrets, pc, opts, logging, staged, loaded>>

----------------------------------------------------------------------------
(***************************************************************************)
(* Start-up.  A log file that cannot be opened is only warned about, and   *)
(* then no file is active, so that a reload tries again.                   *)
(***************************************************************************)
Now == [file |-> file, secrets |-> secrets]

StartFails ==
    /\ pc = "start"
    /\ \E answered \in BOOLEAN : ~Loads(Now, answered)
    /\ pc' = "exited"
    /\ UNCHANGED <<sources, opts, logging, staged, loaded>>

AttachLog(o) ==
    LET opened == {LogFile(o)} \cap writable
    IN  /\ active' = IF opened = {} THEN Nothing ELSE LogFile(o)
        /\ attached' = opened
        /\ open' = opened
        /\ dependency' = opened
        /\ level' = Level(o)

Start ==
    /\ pc = "start"
    /\ Loads(Now, TRUE)
    /\ LET parsed == ParseConfig(Config(Now), CliOptions)
       IN  /\ opts' = GmailRestricted(parsed)
           /\ AttachLog(parsed)
           /\ pc' = IF HasInput(parsed) THEN "running" ELSE "exited"
    /\ loaded' = Now
    /\ UNCHANGED <<sources, staged>>

(***************************************************************************)
(* The watch loop.  It checks first whether the mailbox is still watched;  *)
(* a SIGHUP makes it reload.                                               *)
(***************************************************************************)
Watching == On(opts, "mailbox", "watch")

Stop ==
    /\ pc = "running" /\ ~Watching
    /\ pc' = "exited"
    /\ UNCHANGED <<sources, opts, logging, staged, loaded>>

Mutant_OnTopOfRunning ==
    /\ pc = "running" /\ Watching
    /\ Loads(Now, TRUE)
    /\ staged' = [opts |-> ParseConfig(Config(Now), opts), handler |-> Nothing,
                  from |-> Now]
    /\ pc' = "parsed"
    /\ UNCHANGED <<sources, opts, logging, loaded>>

\* Each reload starts from the command line, so a section that is gone has no effect.
ReadSources ==
    /\ pc = "running" /\ Watching
    /\ Loads(Now, TRUE)
    /\ staged' = [opts |-> ParseConfig(Config(Now), CliOptions), handler |-> Nothing,
                  from |-> Now]
    /\ pc' = "parsed"
    /\ UNCHANGED <<sources, opts, logging, loaded>>

\* What was refused leaves no trace: the running options stay.
RefuseSources ==
    /\ pc = "running" /\ Watching
    /\ \E answered \in BOOLEAN : ~Loads(Now, answered)
    /\ UNCHANGED vars

Mutant_AgainstConfigured ==
    /\ pc = "parsed"
    /\ LET new == LogFile(staged.opts)
       IN  /\ new # LogFile(opts) /\ new # Nothing => new \in writable
           /\ staged' = [staged EXCEPT !.handler =
                             IF new # LogFile(opts) /\ new # Nothing THEN new ELSE Nothing]
           /\ open' = open \cup ({staged'.handler} \ {Nothing})
    /\ pc' = "opened"
    /\ UNCHANGED <<sources, opts, active, attached, dependency, level, loaded>>

(***************************************************************************)
(* The output clients are built; then the new log file is opened, if it is *)
(* not the one being written.                                              *)
(***************************************************************************)
OpenLog ==
    /\ pc = "parsed"
    /\ LET new    == LogFile(staged.opts)
           change == new # active /\ new # Nothing
       IN  /\ change => new \in writable
           /\ staged' = [staged EXCEPT !.handler = IF change THEN new ELSE Nothing]
           /\ open' = IF change THEN open \cup {new} ELSE open
    /\ pc' = "opened"
    /\ UNCHANGED <<sources, opts, active, attached, dependency, level, loaded>>

(***************************************************************************)
(* The rollback: after a client that cannot be built or a log file that    *)
(* cannot be opened, and after a map or a database that cannot be loaded.  *)
(***************************************************************************)
Rollback ==
    /\ pc \in {"parsed", "opened"}
    /\ open' = open \ {staged.handler}
    /\ staged' = NotStaged
    /\ pc' = "running"
    /\ UNCHANGED <<sources, opts, active, attached, dependency, level, loaded>>

\* A rejected IPinfo token ends the process from inside the reload.
TokenRejected ==
    /\ pc = "opened"
    /\ pc' = "exited"
    /\ UNCHANGED <<sources, opts, logging, staged, loaded>>

(***************************************************************************)
(* The new options are copied attribute by attribute onto those in force,  *)
(* so an attribute that only the old ones had is left.  When the log file  *)
(* changes, every file handler is closed and taken off and the new one put *)
(* on; the dependencies' loggers get the handlers of parsedmarc's.         *)
(***************************************************************************)
CopyOptions(new, old) ==
    [x \in DOMAIN new \cup (NotInCli \cap DOMAIN old) |->
        IF x \in DOMAIN new THEN new[x] ELSE old[x]]

Commit ==
    /\ pc = "opened"
    /\ LET new     == LogFile(staged.opts)
           changed == active # new
           handler == {staged.handler} \ {Nothing}
       IN  /\ attached' = IF changed THEN handler ELSE attached
           /\ open' = IF changed THEN (open \ attached) \cup handler ELSE open
           /\ active' = IF changed THEN new ELSE active
           /\ dependency' = attached'
    /\ opts' = CopyOptions(staged.opts, opts)
    /\ level' = Level(opts')
    /\ loaded' = staged.from
    /\ staged' = NotStaged
    /\ pc' = "running"
    /\ UNCHANGED sources

Next ==
    \/ EditFile \/ EditSecrets \/ ChangePermissions
    \/ StartFails \/ Start \/ Stop
    \/ ReadSources \/ RefuseSources \/ OpenLog \/ Rollback \/ TokenRejected \/ Commit

Spec == Init /\ [][Next]_vars

----------------------------------------------------------------------------
(***************************************************************************)
(* After any edits, failed and successful reloads, the options in force    *)
(* are those a process started now with the sources last loaded would      *)
(* have: nothing is left of what an earlier configuration said, nor of a   *)
(* reload that failed.  (The two exceptions the code makes: the Graph      *)
(* token file is left over, and the Gmail restriction is start-up's.)  And *)
(* whatever is given under an option's own name comes from the secret file *)
(* first, then from the environment, then from the configuration file.     *)
(***************************************************************************)
Given(from, o) ==
    IF o \in DOMAIN from.secrets THEN {from.secrets[o]}
    ELSE IF o \in DOMAIN Direct THEN {Direct[o]}
    ELSE IF o[1] \in DOMAIN from.file /\ o[2] \in DOMAIN from.file[o[1]]
         THEN {from.file[o[1]][o[2]]}
    ELSE {}

Loaded == pc \in {"running", "parsed", "opened"}

OptionsFollowSources ==
    Loaded =>
        LET fresh == ParseConfig(Config(loaded), CliOptions)
            ours  == Restrict(opts, DOMAIN opts \ (NotInCli \ DOMAIN fresh))
        IN  /\ ours \in {fresh, GmailRestricted(fresh)}
            /\ \A o \in DOMAIN fresh \ DOMAIN MovedFromImap(Config(loaded)) :
                  Given(loaded, o) \subseteq {fresh[o]}

(***************************************************************************)
(* The log goes where the options in force say: exactly the active log     *)
(* file is attached, to the dependencies' loggers as to parsedmarc's own,  *)
(* no other handler stays open but the one a reload under way has opened,  *)
(* and the active file is the one that is configured.                      *)
(***************************************************************************)
LogFollows ==
    Loaded =>
        /\ attached = {active} \ {Nothing}
        /\ dependency = attached
        /\ open = attached \cup ({staged.handler} \ {Nothing})
        /\ active # Nothing => active = LogFile(opts)
        /\ level = Level(opts)
=============================================================================
