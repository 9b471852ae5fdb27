------------------------ MODULE ConfigLoadingProofs ------------------------
(***************************************************************************)
(* The log and the options of a process follow its configuration, for any  *)
(* configurations, secret files and log files, and through any reloads     *)
(* that fail.                                                              *)
(***************************************************************************)
EXTENDS ConfigLoading, TLAPS

(***************************************************************************)
(* What a reload has opened at each of its places.                         *)
(***************************************************************************)
StagedInv ==
    /\ pc \in {"start", "running", "parsed"} => staged.handler = Nothing
    /\ pc = "opened" =>
          staged.handler = IF LogFile(staged.opts) # active THEN LogFile(staged.opts)
                                                            ELSE Nothing

IInv == writable \subseteq LogFiles /\ StagedInv /\ LogFollows

-----------------------------------------------------------------------------
(***************************************************************************)
(* Neither the Gmail restriction nor an option left over from before says  *)
(* anything of the log.                                                    *)
(***************************************************************************)
LEMMA RestrictedLogsAlike ==
    ASSUME NEW o
    PROVE  LogFile(GmailRestricted(o)) = LogFile(o) /\ Level(GmailRestricted(o)) = Level(o)
<1> DEFINE off == {<<"mailbox", k>> : k \in PerType \cup {"delete"}}
           p   == [x \in DOMAIN o \cup off |-> IF x \in off THEN "off" ELSE o[x]]
<1>1. ASSUME NEW k PROVE <<"general", k>> \notin off
  OBVIOUS
<1>2. ASSUME NEW k
      PROVE  /\ <<"general", k>> \in DOMAIN p <=> <<"general", k>> \in DOMAIN o
             /\ <<"general", k>> \in DOMAIN o => p[<<"general", k>>] = o[<<"general", k>>]
  <2> HIDE DEF off
  <2> QED
    BY <1>1
<1>3. GmailRestricted(o) \in {o, p}
  BY DEF GmailRestricted
<1> HIDE DEF p
<1> QED
  BY <1>2, <1>3 DEF LogFile, Level, On

LEMMA CopiedLogsAlike ==
    ASSUME NEW o, NEW old
    PROVE  LogFile(CopyOptions(o, old)) = LogFile(o)
<1>1. <<"general", "log_file">> \notin NotInCli
  BY DEF NotInCli
<1> QED
  BY <1>1 DEF CopyOptions, LogFile

-----------------------------------------------------------------------------
LEMMA InitInv == Init => IInv
  BY DEF Init, IInv, StagedInv, LogFollows, Loaded, NotStaged

LEMMA StartKeeps == IInv /\ Start => IInv'
<1> SUFFICES ASSUME IInv, Start PROVE IInv'
  OBVIOUS
<1> DEFINE parsed == ParseConfig(Config(Now), CliOptions)
           log    == LogFile(parsed)
<1>1. /\ writable' = writable /\ staged' = staged
      /\ pc = "start" /\ pc' \in {"running", "exited"}
      /\ opts' = GmailRestricted(parsed)
      /\ AttachLog(parsed)
  BY DEF Start, sources
<1> HIDE DEF parsed
<1>2. StagedInv'
  BY <1>1 DEF IInv, StagedInv
<1>3. LogFile(opts') = log /\ level' = Level(opts') /\ dependency' = attached'
  BY <1>1, RestrictedLogsAlike DEF AttachLog
<1> HIDE DEF log
<1>4. CASE log \in writable
  <2>1. active' = log /\ attached' = {log} /\ dependency' = {log} /\ open' = {log}
    BY <1>1, <1>4 DEF AttachLog, log
  <2>2. log # Nothing
    BY <1>4, LogAssumption DEF IInv
  <2> QED
    BY <1>1, <1>2, <1>3, <2>1, <2>2 DEF IInv, LogFollows, StagedInv
<1>5. CASE log \notin writable
  <2>1. active' = Nothing /\ attached' = {} /\ dependency' = {} /\ open' = {}
    BY <1>1, <1>5 DEF AttachLog, log
  <2> QED
    BY <1>1, <1>2, <1>3, <2>1 DEF IInv, LogFollows, StagedInv
<1> QED
  BY <1>4, <1>5

LEMMA ReadSourcesKeeps == IInv /\ ReadSources => IInv'
  BY DEF ReadSources, sources, logging, IInv, StagedInv, LogFollows, Loaded

LEMMA OpenLogKeeps == IInv /\ OpenLog => IInv'
<1> SUFFICES ASSUME IInv, OpenLog PROVE IInv'
  OBVIOUS
<1> DEFINE new    == LogFile(staged.opts)
           change == new # active /\ new # Nothing
<1>1. /\ pc = "parsed" /\ pc' = "opened"
      /\ UNCHANGED <<writable, opts, active, attached, dependency, level>>
      /\ staged' = [staged EXCEPT !.handler = IF change THEN new ELSE Nothing]
      /\ open' = IF change THEN open \cup {new} ELSE open
  BY DEF OpenLog, sources
<1>2. staged.handler = Nothing
  BY <1>1 DEF IInv, StagedInv
<1>3. staged'.opts = staged.opts /\ staged'.handler = IF change THEN new ELSE Nothing
  BY <1>1 DEF IInv, StagedInv
<1> QED
  BY <1>1, <1>2, <1>3 DEF IInv, StagedInv, LogFollows, Loaded

LEMMA RollbackKeeps == IInv /\ Rollback => IInv'
  BY DEF Rollback, NotStaged, sources, IInv, StagedInv, LogFollows, Loaded

LEMMA CommitKeeps == IInv /\ Commit => IInv'
<1> SUFFICES ASSUME IInv, Commit PROVE IInv'
  OBVIOUS
<1> DEFINE new     == LogFile(staged.opts)
           handler == {staged.handler} \ {Nothing}
<1>1. /\ pc = "opened" /\ pc' = "running"
      /\ writable' = writable
      /\ staged' = NotStaged
      /\ LogFile(opts') = new
      /\ level' = Level(opts')
  BY CopiedLogsAlike DEF Commit, sources
<1>2. /\ attached' = IF active # new THEN handler ELSE attached
      /\ open' = IF active # new THEN (open \ attached) \cup handler ELSE open
      /\ active' = IF active # new THEN new ELSE active
      /\ dependency' = attached'
  BY DEF Commit
<1>3. /\ staged.handler = IF new # active THEN new ELSE Nothing
      /\ attached = {active} \ {Nothing}
      /\ open = attached \cup handler
  BY <1>1 DEF IInv, StagedInv, LogFollows, Loaded
<1>4. attached' = {active'} \ {Nothing} /\ open' = attached'
  BY <1>2, <1>3
<1> QED
  BY <1>1, <1>2, <1>4 DEF IInv, StagedInv, LogFollows, NotStaged

LEMMA OthersKeep ==
    ASSUME IInv, writable' \subseteq LogFiles,
           UNCHANGED <<pc, opts, active, attached, dependency, open, level, staged>>
           \/ pc' = "exited"
    PROVE  IInv'
  BY DEF IInv, StagedInv, LogFollows, Loaded

LEMMA NextKeeps == IInv /\ [Next]_vars => IInv'
<1> SUFFICES ASSUME IInv, [Next]_vars PROVE IInv'
  OBVIOUS
<1>1. CASE Start \/ ReadSources \/ OpenLog \/ Rollback \/ Commit
  BY <1>1, StartKeeps, ReadSourcesKeeps, OpenLogKeeps, RollbackKeeps, CommitKeeps
<1>2. CASE EditFile \/ EditSecrets \/ ChangePermissions \/ RefuseSources \/ UNCHANGED vars
  <2>1. /\ writable' \subseteq LogFiles
        /\ UNCHANGED <<pc, opts, active, attached, dependency, open, level, staged>>
    BY <1>2 DEF EditFile, EditSecrets, ChangePermissions, RefuseSources, vars, logging, IInv
  <2> QED
    BY <2>1, OthersKeep
<1>3. CASE StartFails \/ Stop \/ TokenRejected
  <2>1. writable' \subseteq LogFiles /\ pc' = "exited"
    BY <1>3 DEF StartFails, Stop, TokenRejected, sources, IInv
  <2> QED
    BY <2>1, OthersKeep
<1> QED
  BY <1>1, <1>2, <1>3 DEF Next

(***************************************************************************)
(* Through start-up, reloads that succeed and reloads that fail at any     *)
(* step, the log goes to the one file the options in force name, or to     *)
(* none if it could not be opened, and no other handler stays open.        *)
(***************************************************************************)
THEOREM LogFollowsConfiguration == Spec => []LogFollows
<1>1. Init => IInv
  BY InitInv
<1>2. IInv /\ [Next]_vars => IInv'
  BY NextKeeps
<1>3. IInv => LogFollows
  BY DEF IInv
<1> QED
  BY <1>1, <1>2, <1>3, PTL DEF Spec

-----------------------------------------------------------------------------
(***************************************************************************)
(* The options of a process are what its sources say.                      *)
(*                                                                         *)
(* OptionsFollowSources alone is not inductive: what a reload has read     *)
(* must be what its sources make of the bare command line.                 *)
(***************************************************************************)
Fresh(from) == ParseConfig(Config(from), CliOptions)

ReadInv ==
    pc \in {"parsed", "opened"} =>
        staged = [opts    |-> Fresh(staged.from),
                  handler |-> staged.handler,
                  from    |-> staged.from]

InForceInv ==
    Loaded =>
        Restrict(opts, DOMAIN opts \ (NotInCli \ DOMAIN Fresh(loaded)))
            \in {Fresh(loaded), GmailRestricted(Fresh(loaded))}

OInv == ReadInv /\ InForceInv

(***************************************************************************)
(* What is given under the own name of an option is what LoadConfig puts   *)
(* in its section: a secret file comes before a variable, and that before  *)
(* the configuration file.                                                 *)
(***************************************************************************)
LEMMA GivenIsLoaded ==
    ASSUME NEW from, NEW s, NEW k, NEW v \in Given(from, <<s, k>>)
    PROVE  /\ s \in DOMAIN Config(from)
           /\ k \in DOMAIN Config(from)[s]
           /\ Config(from)[s][k] = v
<1> DEFINE o       == <<s, k>>
           ini     == from.file
           env     == FromEnvironment(Direct, from.secrets)
           keys(t) == {j \in {p[2] : p \in DOMAIN env} : <<t, j>> \in DOMAIN env}
           own(t)  == IF t \in DOMAIN ini THEN ini[t] ELSE None
           set(t)  == [j \in keys(t) |-> env[<<t, j>>]]
<1>1. Config(from) = [t \in DOMAIN ini \cup {p[1] : p \in DOMAIN env} |->
                         Over(set(t), own(t))]
  BY DEF Config, LoadConfig
<1>2. /\ DOMAIN env = DOMAIN from.secrets \cup DOMAIN Direct
      /\ o \in DOMAIN env =>
            env[o] = IF o \in DOMAIN from.secrets THEN from.secrets[o] ELSE Direct[o]
  BY DEF FromEnvironment, Over
<1> HIDE DEF env
<1>3. CASE o \in DOMAIN env
  <2>1. v = env[o]
    BY <1>2, <1>3 DEF Given
  <2>2. s \in {p[1] : p \in DOMAIN env} /\ k \in {p[2] : p \in DOMAIN env}
    BY <1>3
  <2>3. k \in keys(s)
    BY <1>3, <2>2
  <2>4. Config(from)[s] = Over(set(s), own(s))
    BY <1>1, <2>2
  <2>5. DOMAIN set(s) = keys(s) /\ set(s)[k] = env[o]
    BY <2>3
  <2> HIDE DEF set, own
  <2> QED
    BY <1>1, <2>1, <2>2, <2>3, <2>4, <2>5 DEF Over
<1>4. CASE o \notin DOMAIN env
  <2>1. s \in DOMAIN ini /\ k \in DOMAIN ini[s] /\ v = ini[s][k]
    BY <1>2, <1>4 DEF Given
  <2>2. Config(from)[s] = Over(set(s), ini[s])
    BY <1>1, <2>1
  <2>3. DOMAIN set(s) = keys(s) /\ k \notin keys(s)
    BY <1>4
  <2> HIDE DEF set, own
  <2> QED
    BY <1>1, <2>1, <2>2, <2>3 DEF Over
<1> QED
  BY <1>3, <1>4

(***************************************************************************)
(* A section that takes a key takes it under its own name first.           *)
(***************************************************************************)
LEMMA OwnNameFirst ==
    ASSUME NEW config, NEW s, NEW k,
           k \in SectionOf(s, config).takes, k \in DOMAIN config[s]
    PROVE  /\ <<s, k>> \in DOMAIN Taken(s, config)
           /\ Taken(s, config)[<<s, k>>] = config[s][k]
<1> DEFINE row == SectionOf(s, config)
           set == {j \in row.takes : HasValue(row, config[s], j)}
<1> HIDE DEF row
<1>1. k \in row.takes
  BY DEF row
<1>2. HasValue(row, config[s], k) /\ ValueOf(row, config[s], k) = config[s][k]
  BY DEF HasValue, ValueOf
<1>3. Taken(s, config) = [o \in {<<s, j>> : j \in set} |-> ValueOf(row, config[s], o[2])]
  BY DEF Taken, row
<1> QED
  BY <1>1, <1>2, <1>3

LEMMA SilentIsGeneral ==
    ASSUME NEW config
    PROVE  "silent" \in SectionOf("general", config).takes /\ "general" \in KnownSections
<1>1. SectionOf("general", config) = General(config["general"])
  BY Zenon DEF SectionOf
<1>2. "silent" \in General(config["general"]).takes
  BY DEF General, Section
<1> QED
  BY <1>1, <1>2 DEF KnownSections

LEMMA TakenShape ==
    ASSUME NEW config, NEW s, NEW o \in DOMAIN Taken(s, config)
    PROVE  \E k \in SectionOf(s, config).takes : o = <<s, k>>
  BY DEF Taken

(***************************************************************************)
(* Options given under their own name have the value given, unless [imap]  *)
(* sets an option of [mailbox].                                            *)
(***************************************************************************)
LEMMA GivenIsFresh ==
    ASSUME NEW from, NEW o \in DOMAIN Fresh(from) \ DOMAIN MovedFromImap(Config(from))
    PROVE  Given(from, o) \subseteq {Fresh(from)[o]}
<1> SUFFICES ASSUME NEW v \in Given(from, o) PROVE Fresh(from)[o] = v
  OBVIOUS
<1> DEFINE config   == Config(from)
           moved    == MovedFromImap(config)
           sections == DOMAIN config \cap KnownSections
           silent   == [x \in {<<"general", "silent">>} |-> "on"]
           taken    == [x \in UNION {DOMAIN Taken(s, config) : s \in sections} |->
                           Taken(x[1], config)[x]]
<1> HIDE DEF config
<1>1. Fresh(from) = Over(moved, Over(taken, Over(silent, None)))
  BY DEF Fresh, ParseConfig, CliOptions, config
<1>2. DOMAIN taken = UNION {DOMAIN Taken(s, config) : s \in sections}
  OBVIOUS
<1>3. ASSUME NEW s \in sections, NEW k \in SectionOf(s, config).takes, o = <<s, k>>
      PROVE  o \in DOMAIN taken /\ taken[o] = v
  <2>1. s \in DOMAIN config /\ k \in DOMAIN config[s] /\ config[s][k] = v
    BY <1>3, GivenIsLoaded DEF config
  <2>2. o \in DOMAIN Taken(s, config) /\ Taken(s, config)[o] = v
    BY <1>3, <2>1, OwnNameFirst
  <2>3. o[1] = s
    BY <1>3
  <2> QED
    BY <1>2, <2>2, <2>3
<1> HIDE DEF taken
<1>4. o \in DOMAIN taken /\ taken[o] = v
  <2>1. CASE o \in DOMAIN taken
    <3>1. PICK s \in sections : o \in DOMAIN Taken(s, config)
      BY <1>2, <2>1
    <3>2. PICK k \in SectionOf(s, config).takes : o = <<s, k>>
      BY <3>1, TakenShape
    <3> QED
      BY <1>3, <3>2
  <2>2. CASE o = <<"general", "silent">>
    <3>1. "general" \in sections
      BY <2>2, GivenIsLoaded, SilentIsGeneral DEF config
    <3> QED
      BY <1>3, <2>2, <3>1, SilentIsGeneral
  <2>3. DOMAIN Fresh(from) \ DOMAIN moved \subseteq DOMAIN taken \cup {<<"general", "silent">>}
    BY <1>1 DEF Over, None
  <2> QED
    BY <2>1, <2>2, <2>3 DEF config
<1>5. o \notin DOMAIN moved
  BY DEF config
<1> HIDE DEF moved, silent
<1> QED
  BY <1>1, <1>4, <1>5 DEF Over

(***************************************************************************)
(* The Graph token file is not an option that the Gmail restriction sets.  *)
(***************************************************************************)
LEMMA RestrictedInForce ==
    ASSUME NEW from, NEW o, o = GmailRestricted(Fresh(from))
    PROVE  Restrict(o, DOMAIN o \ (NotInCli \ DOMAIN Fresh(from))) = o
<1> DEFINE f   == Fresh(from)
           off == {<<"mailbox", k>> : k \in PerType \cup {"delete"}}
<1>1. f = [x \in DOMAIN f |-> f[x]]
  BY DEF Fresh, ParseConfig, Over
<1> HIDE DEF f
<1>2. o = [x \in DOMAIN o |-> o[x]] /\ DOMAIN o \subseteq DOMAIN f \cup off
  BY <1>1 DEF GmailRestricted, f
<1>3. <<"msgraph", "token_file">> \notin off
  OBVIOUS
<1> HIDE DEF off
<1>4. DOMAIN o \ (NotInCli \ DOMAIN f) = DOMAIN o
  BY <1>2, <1>3 DEF NotInCli
<1> QED
  BY <1>2, <1>4 DEF Restrict, f

LEMMA CopiedInForce ==
    ASSUME NEW from, NEW old, NEW o, o = CopyOptions(Fresh(from), old)
    PROVE  Restrict(o, DOMAIN o \ (NotInCli \ DOMAIN Fresh(from))) = Fresh(from)
<1> DEFINE f == Fresh(from)
<1>1. f = [x \in DOMAIN f |-> f[x]]
  BY DEF Fresh, ParseConfig, Over
<1> HIDE DEF f
<1>2. DOMAIN o = DOMAIN f \cup (NotInCli \cap DOMAIN old)
      /\ \A x \in DOMAIN f : o[x] = f[x]
  BY DEF CopyOptions, f
<1>3. DOMAIN o \ (NotInCli \ DOMAIN f) = DOMAIN f
  BY <1>2
<1> QED
  BY <1>1, <1>2, <1>3 DEF Restrict, f

-----------------------------------------------------------------------------
LEMMA OptionsInit == Init => OInv
  BY DEF Init, OInv, ReadInv, InForceInv, Loaded

LEMMA OptionsNext == OInv /\ [Next]_vars => OInv'
<1> SUFFICES ASSUME OInv, [Next]_vars PROVE OInv'
  OBVIOUS
<1>1. CASE Start
  <2>1. /\ pc' \in {"running", "exited"}
        /\ opts' = GmailRestricted(Fresh(loaded'))
    BY <1>1 DEF Start, Fresh
  <2>2. InForceInv'
    BY <2>1, RestrictedInForce DEF InForceInv
  <2> QED
    BY <2>1, <2>2 DEF OInv, ReadInv
<1>2. CASE ReadSources
  <2>1. /\ pc = "running" /\ pc' = "parsed" /\ UNCHANGED <<opts, loaded>>
        /\ staged' = [opts |-> Fresh(Now), handler |-> Nothing, from |-> Now]
    BY <1>2 DEF ReadSources, Fresh
  <2>2. ReadInv'
    BY <2>1 DEF ReadInv
  <2> QED
    BY <2>1, <2>2 DEF OInv, InForceInv, Loaded
<1>3. CASE OpenLog
  <2>1. /\ pc = "parsed" /\ pc' = "opened" /\ UNCHANGED <<opts, loaded>>
    BY <1>3 DEF OpenLog
  <2>2. PICK h : staged' = [staged EXCEPT !.handler = h]
    BY <1>3 DEF OpenLog
  <2>3. staged = [opts |-> Fresh(staged.from), handler |-> staged.handler,
                  from |-> staged.from]
    BY <2>1 DEF OInv, ReadInv
  <2>4. staged' = [opts |-> Fresh(staged.from), handler |-> h, from |-> staged.from]
    BY <2>2, <2>3
  <2>5. ReadInv'
    BY <2>4 DEF ReadInv
  <2> QED
    BY <2>1, <2>5 DEF OInv, InForceInv, Loaded
<1>4. CASE Rollback
  <2>1. pc' = "running" /\ Loaded /\ UNCHANGED <<opts, loaded>>
    BY <1>4 DEF Rollback, Loaded
  <2> QED
    BY <2>1 DEF OInv, ReadInv, InForceInv
<1>5. CASE Commit
  <2>1. /\ pc = "opened" /\ pc' = "running"
        /\ opts' = CopyOptions(staged.opts, opts)
        /\ loaded' = staged.from
    BY <1>5 DEF Commit
  <2>2. staged.opts = Fresh(staged.from)
    BY <2>1 DEF OInv, ReadInv
  <2>3. opts' = CopyOptions(Fresh(loaded'), opts)
    BY <2>1, <2>2
  <2>4. InForceInv'
    BY <2>3, CopiedInForce DEF InForceInv
  <2> QED
    BY <2>1, <2>4 DEF OInv, ReadInv
<1>6. CASE EditFile \/ EditSecrets \/ ChangePermissions \/ RefuseSources \/ UNCHANGED vars
  <2>1. UNCHANGED <<pc, opts, staged, loaded>>
    BY <1>6 DEF EditFile, EditSecrets, ChangePermissions, RefuseSources, vars
  <2> QED
    BY <2>1 DEF OInv, ReadInv, InForceInv, Loaded
<1>7. CASE StartFails \/ Stop \/ TokenRejected
  <2>1. pc' = "exited"
    BY <1>7 DEF StartFails, Stop, TokenRejected
  <2> QED
    BY <2>1 DEF OInv, ReadInv, InForceInv, Loaded
<1> QED
  BY <1>1, <1>2, <1>3, <1>4, <1>5, <1>6, <1>7 DEF Next

(***************************************************************************)
(* After any edits of the sources and any reloads, refused, rolled back or *)
(* committed, the options in force are those of the sources last loaded    *)
(* (but for the two exceptions of OptionsFollowSources), and what is given *)
(* comes from the secret file first, then from the environment, then from  *)
(* the configuration file.                                                 *)
(***************************************************************************)
THEOREM OptionsAreTheSources == Spec => []OptionsFollowSources
<1>1. Init => OInv
  BY OptionsInit
<1>2. OInv /\ [Next]_vars => OInv'
  BY OptionsNext
<1>3. OInv => OptionsFollowSources
  BY GivenIsFresh DEF OInv, InForceInv, OptionsFollowSources, Fresh
<1> QED
  BY <1>1, <1>2, <1>3, PTL DEF Spec

=============================================================================
