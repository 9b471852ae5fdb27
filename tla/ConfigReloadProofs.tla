-------------------------- MODULE ConfigReloadProofs --------------------------
(***************************************************************************)
(* A process that reloads its configuration runs on one whole              *)
(* configuration and leaks no connection, for every set of configurations, *)
(* any number of retries and reloads, and any step that fails.             *)
(*                                                                         *)
(* What makes this inductive is where each open connection and each alias  *)
(* comes from at every place of an attempt to build clients: the clients   *)
(* in use are older than the attempt, those of the attempt carry its       *)
(* number, at most one backend is registered without a handle, and the     *)
(* connections nothing will close are those of abandoned attempts.         *)
(***************************************************************************)
EXTENDS ConfigReload, TLAPS

(***************************************************************************)
(* The places of the process: building clients and staging a reload; with  *)
(* nothing staged.                                                         *)
(***************************************************************************)
Constructing == {"build", "psl", "ipdb", "token", "commit"}

Staging == Constructing \cup {"teardown"}

Resting == {"loop", "watch", "retry", "parse"}

Places == Staging \cup Resting \cup {"restore", "close_old", "close", "exit", "exited"}

Current == live["opts"]

Whole(c) == [p \in UtilsParts |-> c]

HalfBuilt == {<<b, gen>> : b \in Backends \cap {half}}

TypeInv ==
    /\ file \in Configs /\ new \in Configs
    /\ pc \in Places
    /\ starting \in BOOLEAN
    /\ gen \in Nat \ {0}
    /\ Current \in Configs
    /\ \A p \in Renewed : live[p] = Current
    /\ clients \in [Names -> Nat]
    /\ staged \in [Names -> Nat]
    /\ alias \in [Backends -> Nat]
    /\ todo \subseteq Names
    /\ half \in Backends \cup {"none"}
    /\ abandoned \subseteq Nat \ {0}

(***************************************************************************)
(* The clients in use are older than those of an attempt; after a commit   *)
(* it is the other way round.                                              *)
(***************************************************************************)
AgesInv ==
    /\ pc \in Staging \cup {"restore"} =>
          \A n \in Names : clients[n] < gen /\ staged[n] \in {0, gen}
    /\ pc \in Resting => \A n \in Names : clients[n] <= gen
    /\ pc = "close_old" =>
          \A n \in Names : staged[n] < gen /\ clients[n] \in {0, gen}

(***************************************************************************)
(* The PostgreSQL client of an abandoned attempt is in no dict, and the    *)
(* attempt under way is not an abandoned one.                              *)
(***************************************************************************)
AbandonedInv ==
    /\ \A g \in abandoned :
          /\ g <= gen
          /\ g # clients["postgresql"] /\ g # staged["postgresql"]
    /\ pc \in Constructing => gen \notin abandoned

(***************************************************************************)
(* The clients in use are those the settings in force name.                *)
(***************************************************************************)
OwnedInv ==
    /\ starting => /\ clients = NoClients
                   /\ new = Current
                   /\ pc \in {"build", "teardown", "restore", "retry", "exit", "exited"}
    /\ ~starting => /\ pc # "retry"
                    /\ \A n \in Names : (clients[n] # 0) <=> (n \in Outputs(Current))

(***************************************************************************)
(* With nothing staged everything is of the configuration in force.        *)
(***************************************************************************)
RestInv ==
    pc \in Resting =>
        /\ staged = NoClients
        /\ half = "none"
        /\ open = Pool(clients) \cup Abandoned
        /\ \A b \in Backends : alias[b] = clients[b]
        /\ utils = Whole(Current)
        /\ "elasticsearch" \in Outputs(Current) => serverless = Current

(***************************************************************************)
(* The snapshots are what is in force until the commit.                    *)
(***************************************************************************)
SnapshotInv ==
    pc \in Staging \cup {"restore", "retry", "parse"} =>
        /\ saved.alias \in [Backends -> Nat]
        /\ \A b \in Backends : saved.alias[b] = clients[b]
        /\ saved.utils = Whole(Current)
        /\ "elasticsearch" \in Outputs(Current) => saved.serverless = Current

(***************************************************************************)
(* An attempt under way: which connections are open and who has the        *)
(* aliases.                                                                *)
(***************************************************************************)
AttemptInv ==
    pc \in Staging =>
        /\ open = Pool(clients) \cup Pool(staged) \cup HalfBuilt \cup Abandoned
        /\ \A b \in Backends :
              alias[b] = IF staged[b] # 0 \/ half = b THEN gen ELSE clients[b]
        /\ half # "none" => half \in todo /\ staged[half] = 0

(***************************************************************************)
(* What has been built and loaded of the new configuration.                *)
(***************************************************************************)
LoadedInv ==
    pc \in Constructing =>
        /\ todo \subseteq Outputs(new)
        /\ \A n \in Names : (staged[n] # 0) <=> (n \in Outputs(new) \ todo)
        /\ pc # "build" => todo = {} /\ ~starting
        /\ "elasticsearch" \in Outputs(new) \ todo => serverless = new
        /\ half = "elasticsearch" => serverless = new
        /\ utils = CASE pc \in {"build", "psl"} -> Whole(Current)
                     [] pc = "ipdb"   -> [Whole(Current) EXCEPT !["psl"] = new]
                     [] pc = "token"  -> [Whole(new) EXCEPT !["token"] = Current]
                     [] pc = "commit" -> Whole(new)

(***************************************************************************)
(* Between closing the clients of a failed attempt and handing the aliases *)
(* back, between the commit and closing the old clients, and at the end.   *)
(***************************************************************************)
EndingInv ==
    /\ pc = "restore" =>
          /\ staged = NoClients
          /\ open = Pool(clients) \cup HalfBuilt \cup Abandoned
          /\ \A b \in Backends : IF half = b THEN alias[b] = gen
                                             ELSE alias[b] \in {0, clients[b]}
    /\ pc = "close_old" =>
          /\ ~starting
          /\ half = "none"
          /\ open = Pool(clients) \cup Pool(staged) \cup Abandoned
          /\ \A b \in Backends :
                alias[b] = IF clients[b] # 0 THEN clients[b] ELSE staged[b]
          /\ utils = Whole(Current)
          /\ "elasticsearch" \in Outputs(Current) => serverless = Current

(***************************************************************************)
(* On the way out: besides the clients in use, only those staged by a      *)
(* reload that got as far as its last step.                                *)
(***************************************************************************)
LeavingInv ==
    /\ pc = "close" => Pool(clients) \subseteq open
    /\ pc \in {"close", "exit"} => open \ Pool(clients) = Pool(staged) \cup Abandoned
    /\ pc = "exited" /\ ~forced => open = Pool(staged) \cup Abandoned
    /\ pc \in {"close", "exit"} \/ (pc = "exited" /\ ~forced) =>
          (staged # NoClients => ~starting /\ utils = Whole(new))

IInv ==
    /\ TypeInv /\ AgesInv /\ AbandonedInv /\ OwnedInv /\ RestInv
    /\ SnapshotInv /\ AttemptInv /\ LoadedInv /\ EndingInv /\ LeavingInv

-----------------------------------------------------------------------------
(***************************************************************************)
(* Pool: the connections of a dict of clients.                             *)
(***************************************************************************)
LEMMA PoolMember ==
    ASSUME NEW d, NEW n, NEW g
    PROVE  <<n, g>> \in Pool(d) <=> n \in Names /\ d[n] = g /\ g # 0
BY DEF Pool

LEMMA PoolPairs ==
    ASSUME NEW d, NEW x \in Pool(d)
    PROVE  \E n \in Names : x = <<n, d[n]>> /\ d[n] # 0
BY DEF Pool

LEMMA PoolNone == Pool(NoClients) = {}
BY DEF Pool, NoClients

LEMMA PoolAdd ==
    ASSUME NEW d \in [Names -> Nat], NEW n \in Names, d[n] = 0, NEW g \in Nat \ {0}
    PROVE  Pool([d EXCEPT ![n] = g]) = Pool(d) \cup {<<n, g>>}
<1> DEFINE e == [d EXCEPT ![n] = g]
<1>1. \A m \in Names : e[m] = IF m = n THEN g ELSE d[m]
  OBVIOUS
<1>2. ASSUME NEW x \in Pool(e) PROVE x \in Pool(d) \cup {<<n, g>>}
  <2> HIDE DEF e
  <2>1. PICK m \in Names : x = <<m, e[m]>> /\ e[m] # 0
    BY PoolPairs
  <2> QED
    BY <1>1, <2>1 DEF Pool
<1>3. ASSUME NEW x \in Pool(d) PROVE x \in Pool(e)
  <2> HIDE DEF e
  <2>1. PICK m \in Names : x = <<m, d[m]>> /\ d[m] # 0
    BY PoolPairs
  <2>2. e[m] = d[m]
    BY <1>1, <2>1
  <2> QED
    BY <2>1, <2>2 DEF Pool
<1>4. <<n, g>> \in Pool(e)
  <2> HIDE DEF e
  <2> QED
    BY <1>1 DEF Pool
<1> QED
  BY <1>2, <1>3, <1>4

LEMMA PoolsApart ==
    ASSUME NEW d, NEW e, \A n \in Names : d[n] # 0 => d[n] # e[n]
    PROVE  Pool(d) \cap Pool(e) = {}
BY DEF Pool

(***************************************************************************)
(* No dict that lacks the abandoned clients, and no search client, has one *)
(* of their connections.                                                   *)
(***************************************************************************)
LEMMA AbandonedApart ==
    ASSUME NEW d, \A g \in abandoned : g # d["postgresql"]
    PROVE  Pool(d) \cap Abandoned = {}
<1> SUFFICES ASSUME NEW g \in abandoned PROVE <<"postgresql", g>> \notin Pool(d)
  BY DEF Abandoned
<1> QED
  BY PoolMember

LEMMA BackendApart ==
    ASSUME NEW b \in Backends, NEW g
    PROVE  <<b, g>> \notin Abandoned
BY DEF Abandoned, Backends

LEMMA InitInv == Init => IInv
<1> SUFFICES ASSUME Init PROVE IInv
  OBVIOUS
<1>1. TypeInv
  BY ConfigAssumption DEF Init, TypeInv, Places, Staging, Constructing, Resting, Current,
     Settings, Parts, Renewed, NoClients, NoAlias, Names, Backends
<1>2. AgesInv /\ OwnedInv /\ RestInv
  BY DEF Init, AgesInv, OwnedInv, RestInv, Staging, Constructing, Resting, Current,
     Settings, Parts, NoClients
<1>3. SnapshotInv
  BY DEF Init, SnapshotInv, Snapshot, Staging, Constructing, Resting, Current, Settings,
     Parts, Whole, NoClients, NoAlias, Names, Backends
<1>4. AttemptInv
  BY PoolNone DEF Init, AttemptInv, Abandoned, Staging, Constructing, HalfBuilt, NoClients, NoAlias,
     Names, Backends
<1>5. LoadedInv
  BY DEF Init, LoadedInv, Constructing, Whole, Current, Settings, Parts, NoClients
<1>6. EndingInv /\ LeavingInv /\ AbandonedInv
  BY DEF Init, EndingInv, LeavingInv, AbandonedInv
<1> QED
  BY <1>1, <1>2, <1>3, <1>4, <1>5, <1>6 DEF IInv

LEMMA BuildClientKeeps ==
    ASSUME IInv, NEW n \in Names, BuildClient(n)
    PROVE  IInv'
<1>1. TypeInv'
  BY DEF BuildClient, IInv, TypeInv, Current, active, globals
<1>2. AgesInv'
  BY DEF BuildClient, IInv, AgesInv, Building, active
<1>3. OwnedInv'
  BY DEF BuildClient, IInv, OwnedInv, Current, active
<1>4. RestInv'
  BY DEF BuildClient, RestInv, Resting, Building
<1>5. SnapshotInv'
  BY DEF BuildClient, IInv, SnapshotInv, Current, active
<1>6. AttemptInv'
  <2>1. n \in todo /\ pc = "build" /\ pc' = "build" /\ gen' = gen
    BY DEF BuildClient, Building
  <2>2. staged[n] = 0 /\ staged \in [Names -> Nat] /\ gen \in Nat \ {0}
    BY <2>1 DEF IInv, TypeInv, LoadedInv, Constructing
  <2>3. Pool(staged') = Pool(staged) \cup {<<n, gen>>}
    BY <2>2, PoolAdd DEF BuildClient
  <2>4. open' = Pool(clients') \cup Pool(staged') \cup HalfBuilt' \cup Abandoned'
    BY <2>1, <2>3 DEF BuildClient, active, IInv, AttemptInv, Staging, Constructing, HalfBuilt,
       Abandoned
  <2>5. \A b \in Backends :
          alias'[b] = IF staged'[b] # 0 \/ half' = b THEN gen' ELSE clients'[b]
    BY <2>1, <2>2 DEF BuildClient, active, globals, IInv, AttemptInv, Staging, Constructing,
       Names
  <2>6. half' # "none" => half' \in todo' /\ staged'[half'] = 0
    BY <2>1, <2>2 DEF BuildClient, IInv, AttemptInv, TypeInv, Staging, Constructing, Names
  <2> QED
    BY <2>4, <2>5, <2>6 DEF AttemptInv
<1>7. LoadedInv'
  BY DEF BuildClient, IInv, TypeInv, LoadedInv, Current, Building, active, globals,
     Backends
<1>8. EndingInv'
  BY DEF BuildClient, EndingInv, Building
<1>9. AbandonedInv'
  BY DEF BuildClient, IInv, TypeInv, AbandonedInv, Constructing, Building, active
<1>10. LeavingInv'
  BY DEF BuildClient, LeavingInv, Building
<1> QED
  BY <1>1, <1>2, <1>3, <1>4, <1>5, <1>6, <1>7, <1>8, <1>9, <1>10 DEF IInv

LEMMA SetHostsKeeps ==
    ASSUME IInv, NEW b \in Names, SetHosts(b)
    PROVE  IInv'
<1>1. TypeInv'
  BY DEF SetHosts, IInv, TypeInv, Current, active
<1>2. AgesInv'
  BY DEF SetHosts, IInv, AgesInv, active
<1>3. OwnedInv'
  BY DEF SetHosts, IInv, OwnedInv, Current, active
<1>4. RestInv'
  BY DEF SetHosts, RestInv, Resting, Building
<1>5. SnapshotInv'
  BY DEF SetHosts, IInv, SnapshotInv, Current, active
<1>6. AttemptInv'
  <2>1. /\ b \in todo /\ b \in Backends
        /\ pc = "build" /\ pc' = "build" /\ gen' = gen
        /\ half = "none" /\ half' = b
    BY DEF SetHosts, Building
  <2>2. staged[b] = 0
    BY <2>1 DEF IInv, LoadedInv, Constructing
  <2>3. HalfBuilt = {} /\ HalfBuilt' = {<<b, gen>>}
    BY <2>1 DEF HalfBuilt, Backends
  <2>4. open' = Pool(clients') \cup Pool(staged') \cup HalfBuilt' \cup Abandoned'
    BY <2>1, <2>3 DEF SetHosts, active, IInv, AttemptInv, Staging, Constructing, Pool, Abandoned
  <2>5. \A c \in Backends :
          alias'[c] = IF staged'[c] # 0 \/ half' = c THEN gen' ELSE clients'[c]
    BY <2>1 DEF SetHosts, active, IInv, TypeInv, AttemptInv, Staging, Constructing, Backends
  <2> QED
    BY <2>1, <2>2, <2>4, <2>5 DEF AttemptInv, SetHosts
<1>7. LoadedInv'
  BY DEF SetHosts, IInv, LoadedInv, Constructing, Current, active
<1>8. EndingInv'
  BY DEF SetHosts, EndingInv, Building
<1>9. AbandonedInv'
  BY DEF SetHosts, IInv, TypeInv, AbandonedInv, Constructing, Building, active
<1>10. LeavingInv'
  BY DEF SetHosts, LeavingInv, Building
<1> QED
  BY <1>1, <1>2, <1>3, <1>4, <1>5, <1>6, <1>7, <1>8, <1>9, <1>10 DEF IInv

LEMMA MigrateKeeps ==
    ASSUME IInv, NEW b \in Names, Migrate(b)
    PROVE  IInv'
<1>1. TypeInv'
  BY DEF Migrate, IInv, TypeInv, Current, active, globals
<1>2. AgesInv'
  BY DEF Migrate, IInv, AgesInv, Building, active
<1>3. OwnedInv'
  BY DEF Migrate, IInv, OwnedInv, Current, active
<1>4. RestInv'
  BY DEF Migrate, RestInv, Resting, Building
<1>5. SnapshotInv'
  BY DEF Migrate, IInv, SnapshotInv, Current, active
<1>6. AttemptInv'
  <2>1. /\ b \in todo /\ half = b /\ half' = "none"
        /\ pc = "build" /\ pc' = "build" /\ gen' = gen
    BY DEF Migrate, Building
  <2>2. staged[b] = 0 /\ staged \in [Names -> Nat] /\ gen \in Nat \ {0} /\ b # "none"
    BY <2>1 DEF IInv, TypeInv, LoadedInv, Constructing, Names, Backends
  <2>3. Pool(staged') = Pool(staged) \cup {<<b, gen>>}
    BY <2>2, PoolAdd DEF Migrate
  <2>4. b \in Backends /\ HalfBuilt = {<<b, gen>>} /\ HalfBuilt' = {}
    BY <2>1, <2>2 DEF HalfBuilt, IInv, TypeInv, Backends
  <2>5. open' = Pool(clients') \cup Pool(staged') \cup HalfBuilt' \cup Abandoned'
    BY <2>1, <2>3, <2>4 DEF Migrate, active, IInv, AttemptInv, Staging, Constructing, Pool,
       Abandoned
  <2>6. \A c \in Backends :
          alias'[c] = IF staged'[c] # 0 \/ half' = c THEN gen' ELSE clients'[c]
    BY <2>1, <2>2 DEF Migrate, active, globals, IInv, AttemptInv, Staging, Constructing,
       Backends, Names
  <2> QED
    BY <2>1, <2>5, <2>6 DEF AttemptInv
<1>7. LoadedInv'
  BY DEF Migrate, IInv, TypeInv, LoadedInv, Current, Building, active, globals
<1>8. EndingInv'
  BY DEF Migrate, EndingInv, Building
<1>9. AbandonedInv'
  BY DEF Migrate, IInv, TypeInv, AbandonedInv, Constructing, Building, active
<1>10. LeavingInv'
  BY DEF Migrate, LeavingInv, Building
<1> QED
  BY <1>1, <1>2, <1>3, <1>4, <1>5, <1>6, <1>7, <1>8, <1>9, <1>10 DEF IInv

LEMMA BuildFailsKeeps ==
    ASSUME IInv, NEW n \in Names, BuildFails(n)
    PROVE  IInv'
<1>1. TypeInv'
  BY DEF BuildFails, IInv, TypeInv, Staging, Places, Current, active
<1>2. AgesInv'
  BY DEF BuildFails, IInv, TypeInv, AgesInv, Staging, Constructing, Building, active
<1>3. OwnedInv'
  BY DEF BuildFails, IInv, OwnedInv, Current, active
<1>4. RestInv'
  BY ConfigAssumption DEF BuildFails, IInv, TypeInv, AgesInv, OwnedInv, RestInv,
     SnapshotInv, AttemptInv, LoadedInv, EndingInv, Staging, Constructing, Resting, Places,
     Current, Building, active, globals, signals, Backends, Names, HalfBuilt, Whole,
     Settings, Parts, UtilsParts, Snapshot, NoClients
<1>5. SnapshotInv'
  BY DEF BuildFails, IInv, SnapshotInv, Staging, Constructing, Current, Building, active
<1>6. AttemptInv'
  <2>1. /\ pc = "build" /\ pc' = "teardown" /\ gen' = gen /\ half' = half
        /\ clients' = clients /\ staged' = staged /\ todo' = todo /\ alias' = alias
    BY DEF BuildFails, Building, active
  <2>2. open' = Pool(clients) \cup Pool(staged) \cup HalfBuilt \cup Abandoned'
    <3>1. open = Pool(clients) \cup Pool(staged) \cup HalfBuilt \cup Abandoned
      BY <2>1 DEF IInv, AttemptInv, Staging, Constructing
    <3>2. CASE UNCHANGED <<open, abandoned>>
      BY <3>1, <3>2 DEF Abandoned
    <3>3. CASE open' = open \cup {<<"postgresql", gen>>} /\ abandoned' = abandoned \cup {gen}
      <4>1. Abandoned' = Abandoned \cup {<<"postgresql", gen>>}
        BY <3>3 DEF Abandoned
      <4> QED
        BY <3>1, <3>3, <4>1
    <3> QED
      BY <3>2, <3>3 DEF BuildFails
  <2>3. open' = Pool(clients') \cup Pool(staged') \cup HalfBuilt' \cup Abandoned'
    BY <2>1, <2>2 DEF Pool, HalfBuilt
  <2> QED
    BY <2>1, <2>3 DEF IInv, AttemptInv, Staging, Constructing
<1>7. LoadedInv'
  BY DEF BuildFails, LoadedInv, Constructing
<1>8. EndingInv'
  BY DEF BuildFails, EndingInv
<1>9. AbandonedInv'
  <2>1. /\ pc = "build" /\ pc' = "teardown" /\ gen' = gen /\ n \in todo
        /\ clients' = clients /\ staged' = staged
    BY DEF BuildFails, Building, active
  <2>2. \A m \in Names : clients[m] < gen
    BY <2>1 DEF IInv, AgesInv, Staging, Constructing
  <2>3. abandoned' = abandoned
          \/ (abandoned' = abandoned \cup {gen} /\ staged["postgresql"] = 0)
    <3>1. staged[n] = 0
      BY <2>1 DEF IInv, LoadedInv, Constructing
    <3> QED
      BY <3>1 DEF BuildFails
  <2>4. "postgresql" \in Names /\ gen \in Nat \ {0} /\ clients \in [Names -> Nat]
    BY DEF IInv, TypeInv, Names
  <2>5. \A g \in abandoned' : g <= gen /\ g # clients["postgresql"] /\ g # staged["postgresql"]
    BY <2>2, <2>3, <2>4 DEF IInv, AbandonedInv
  <2> QED
    BY <2>1, <2>5 DEF AbandonedInv, Constructing
<1>10. LeavingInv'
  BY DEF BuildFails, LeavingInv, Building
<1> QED
  BY <1>1, <1>2, <1>3, <1>4, <1>5, <1>6, <1>7, <1>8, <1>9, <1>10 DEF IInv

LEMMA TeardownKeeps ==
    ASSUME IInv, Teardown
    PROVE  IInv'
<1>1. TypeInv'
  BY DEF Teardown, IInv, TypeInv, Places, Current, CloseClients, AliasAfterClosing,
     active, NoClients
<1>2. AgesInv'
  BY DEF Teardown, IInv, TypeInv, AgesInv, Staging, active, NoClients
<1>3. OwnedInv'
  BY DEF Teardown, IInv, OwnedInv, Current, active
<1>4. RestInv'
  BY DEF Teardown, RestInv, Resting
<1>5. SnapshotInv'
  BY DEF Teardown, IInv, SnapshotInv, Staging, Current, active
<1>6. AttemptInv'
  BY DEF Teardown, AttemptInv, Staging, Constructing
<1>7. LoadedInv'
  BY DEF Teardown, LoadedInv, Constructing
<1>8. EndingInv'
  <2>1. pc = "teardown" /\ pc' = "restore" /\ gen' = gen /\ half' = half /\ clients' = clients
    BY DEF Teardown, active
  <2>2. /\ open = Pool(clients) \cup Pool(staged) \cup HalfBuilt \cup Abandoned
        /\ half # "none" => staged[half] = 0
        /\ \A n \in Names : clients[n] < gen /\ staged[n] \in {0, gen}
        /\ clients \in [Names -> Nat] /\ gen \in Nat \ {0}
    BY <2>1 DEF IInv, TypeInv, AgesInv, AttemptInv, Staging
  <2>3. Pool(clients) \cap Pool(staged) = {}
    <3>1. \A n \in Names : clients[n] # 0 => clients[n] # staged[n]
      BY <2>2
    <3> QED
      BY <3>1, PoolsApart
  <2>4. HalfBuilt \cap Pool(staged) = {}
    <3>1. ASSUME NEW b \in Backends \cap {half} PROVE <<b, gen>> \notin Pool(staged)
      BY <2>2, PoolMember DEF Backends
    <3> QED
      BY <3>1 DEF HalfBuilt
  <2>5. open' = Pool(clients') \cup HalfBuilt' \cup Abandoned'
    <3>1. open' = open \ Pool(staged)
      BY DEF Teardown, CloseClients
    <3>2. Pool(clients') = Pool(clients) /\ HalfBuilt' = HalfBuilt /\ Abandoned' = Abandoned
      BY <2>1 DEF Pool, HalfBuilt, Abandoned, Teardown
    <3>3. Pool(staged) \cap Abandoned = {}
      BY AbandonedApart DEF IInv, AbandonedInv
    <3> QED
      BY <2>2, <2>3, <2>4, <3>1, <3>2, <3>3
  <2>6. ASSUME NEW b \in Backends
        PROVE  IF half' = b THEN alias'[b] = gen' ELSE alias'[b] \in {0, clients'[b]}
    <3>1. alias'[b] = IF staged[b] # 0 /\ alias[b] = staged[b] THEN 0 ELSE alias[b]
      BY DEF Teardown, CloseClients, AliasAfterClosing
    <3>2. alias[b] = IF staged[b] # 0 \/ half = b THEN gen ELSE clients[b]
      BY <2>1 DEF IInv, AttemptInv, Staging
    <3> QED
      BY <2>1, <2>2, <3>1, <3>2 DEF Backends, Names
  <2> QED
    BY <2>1, <2>5, <2>6 DEF EndingInv, Teardown
<1>9. AbandonedInv'
  BY DEF Teardown, IInv, TypeInv, AbandonedInv, Constructing, active, NoClients, Names
<1>10. LeavingInv'
  BY DEF Teardown, LeavingInv, Building
<1> QED
  BY <1>1, <1>2, <1>3, <1>4, <1>5, <1>6, <1>7, <1>8, <1>9, <1>10 DEF IInv

LEMMA RestoreKeeps ==
    ASSUME IInv, Restore
    PROVE  IInv'
<1>1. TypeInv'
  BY DEF Restore, IInv, TypeInv, SnapshotInv, Resting, Places, Current, active
<1>2. AgesInv'
  BY DEF Restore, IInv, TypeInv, AgesInv, active
<1>3. OwnedInv'
  BY DEF Restore, IInv, OwnedInv, Current, active
<1>4. RestInv'
  <2>1. /\ pc = "restore" /\ half' = "none"
        /\ clients' = clients /\ staged' = staged /\ live' = live
    BY DEF Restore, active
  <2>2. /\ staged = NoClients
        /\ open = Pool(clients) \cup HalfBuilt \cup Abandoned
        /\ \A b \in Backends : IF half = b THEN alias[b] = gen
                                           ELSE alias[b] \in {0, clients[b]}
        /\ \A b \in Backends : saved.alias[b] = clients[b] /\ clients[b] < gen
        /\ clients \in [Names -> Nat] /\ gen \in Nat \ {0}
    BY <2>1 DEF IInv, TypeInv, AgesInv, EndingInv, SnapshotInv, Names, Backends
  <2>3. open' = Pool(clients') \cup Abandoned'
    <3>1. ASSUME NEW b \in Backends, half = b PROVE b \in TakenOver /\ alias[b] = gen
      BY <2>2, <3>1 DEF TakenOver, Names, Backends
    <3>2. HalfBuilt \subseteq {<<b, alias[b]>> : b \in TakenOver}
      BY <3>1 DEF HalfBuilt
    <3>3. ASSUME NEW b \in TakenOver PROVE <<b, alias[b]>> \notin Pool(clients)
      BY <2>2, PoolMember DEF TakenOver, Names, Backends
    <3>4. open' = open \ {<<b, alias[b]>> : b \in TakenOver} /\ Pool(clients') = Pool(clients)
      BY <2>1 DEF Restore, Pool
    <3>5. Abandoned' = Abandoned
      BY DEF Restore, Abandoned
    <3>6. ASSUME NEW b \in TakenOver PROVE <<b, alias[b]>> \notin Abandoned
      BY BackendApart DEF TakenOver
    <3> QED
      BY <2>2, <3>2, <3>3, <3>4, <3>5, <3>6
  <2>4. /\ \A b \in Backends : alias'[b] = clients'[b]
        /\ utils' = Whole(Current)
        /\ "elasticsearch" \in Outputs(Current) => serverless' = Current
    BY <2>1, <2>2 DEF Restore, IInv, SnapshotInv
  <2> QED
    BY <2>1, <2>2, <2>3, <2>4 DEF RestInv, NoClients, Whole, Current
<1>5. SnapshotInv'
  BY DEF Restore, IInv, SnapshotInv, Current, active
<1>6. AttemptInv'
  BY DEF Restore, AttemptInv, Staging, Constructing
<1>7. LoadedInv'
  BY DEF Restore, LoadedInv, Constructing
<1>8. EndingInv'
  BY DEF Restore, EndingInv
<1>9. AbandonedInv'
  BY DEF Restore, IInv, TypeInv, AbandonedInv, Constructing, Building, active
<1>10. LeavingInv'
  BY DEF Restore, LeavingInv, Building
<1> QED
  BY <1>1, <1>2, <1>3, <1>4, <1>5, <1>6, <1>7, <1>8, <1>9, <1>10 DEF IInv

LEMMA RetryKeeps ==
    ASSUME IInv, Retry
    PROVE  IInv'
<1>1. TypeInv'
  BY ConfigAssumption DEF Retry, IInv, TypeInv, Staging, Constructing, Places, Current,
     active, globals
<1>2. AgesInv'
  BY DEF Retry, IInv, TypeInv, AgesInv, OwnedInv, RestInv, Resting, active, NoClients
<1>3. OwnedInv'
  BY DEF Retry, IInv, OwnedInv, Current, active
<1>4. RestInv'
  BY DEF Retry, RestInv, Resting
<1>5. SnapshotInv'
  BY DEF Retry, IInv, SnapshotInv, Current, active
<1>6. AttemptInv'
  BY DEF Retry, IInv, OwnedInv, RestInv, AttemptInv, Resting, active, globals, Backends,
     Names, HalfBuilt, Abandoned, NoClients, Pool
<1>7. LoadedInv'
  BY DEF Retry, IInv, RestInv, LoadedInv, Constructing, Resting, Current, active, globals,
     NoClients
<1>8. EndingInv'
  BY DEF Retry, IInv, RestInv, EndingInv, Resting, active
<1>9. AbandonedInv'
  BY DEF Retry, IInv, TypeInv, AbandonedInv, Constructing, Building, active
<1>10. LeavingInv'
  <2>1. /\ pc \in Resting /\ pc' \in {"build", "exit"}
        /\ clients' = clients /\ staged' = staged /\ open' = open /\ abandoned' = abandoned
    BY DEF Retry, active, Resting
  <2>2. /\ staged = NoClients /\ open = Pool(clients) \cup Abandoned
        /\ Pool(clients') = Pool(clients) /\ Abandoned' = Abandoned
    BY <2>1 DEF IInv, RestInv, Pool, Abandoned
  <2>3. open' \ Pool(clients') = Pool(staged') \cup Abandoned'
    <3>1. Pool(clients) \cap Abandoned = {}
      BY AbandonedApart DEF IInv, AbandonedInv
    <3> QED
      BY <2>1, <2>2, <3>1, PoolNone
  <2> QED
    BY <2>1, <2>2, <2>3 DEF LeavingInv, Resting, NoClients
<1> QED
  BY <1>1, <1>2, <1>3, <1>4, <1>5, <1>6, <1>7, <1>8, <1>9, <1>10 DEF IInv

LEMMA StartedKeeps ==
    ASSUME IInv, Started
    PROVE  IInv'
<1>1. TypeInv'
  BY ConfigAssumption DEF Started, IInv, TypeInv, AgesInv, OwnedInv, RestInv, SnapshotInv,
     AttemptInv, LoadedInv, EndingInv, Staging, Constructing, Resting, Places, Current,
     active, globals, signals, Backends, Names, HalfBuilt, Whole, Settings, Parts,
     UtilsParts, Snapshot, NoClients
<1>2. AgesInv'
  BY DEF Started, IInv, TypeInv, AgesInv, Staging, Constructing
<1>3. OwnedInv'
  BY DEF Started, IInv, OwnedInv, LoadedInv, Constructing, Current
<1>4. RestInv'
  <2>1. /\ pc = "build" /\ todo = {} /\ starting
        /\ clients' = staged /\ staged' = NoClients /\ half' = half /\ live' = live
    BY DEF Started
  <2>2. /\ half = "none"
        /\ open = Pool(clients) \cup Pool(staged) \cup HalfBuilt \cup Abandoned
        /\ \A b \in Backends : alias[b] = IF staged[b] # 0 THEN gen ELSE clients[b]
    BY <2>1 DEF IInv, TypeInv, AttemptInv, Staging, Constructing, Backends
  <2>3. clients = NoClients /\ new = Current /\ \A n \in Names : staged[n] \in {0, gen}
    BY <2>1 DEF IInv, OwnedInv, AgesInv, Staging, Constructing
  <2>4. open' = Pool(clients') \cup Abandoned'
    <3>1. HalfBuilt = {}
      BY <2>2 DEF HalfBuilt, Backends
    <3>2. Abandoned' = Abandoned
      BY DEF Started, Abandoned
    <3> QED
      BY <2>1, <2>2, <2>3, <3>1, <3>2, PoolNone DEF Started
  <2>5. \A b \in Backends : alias'[b] = clients'[b]
    BY <2>1, <2>2, <2>3 DEF Started, globals, NoClients, Names, Backends
  <2>6. utils' = Whole(Current) /\ ("elasticsearch" \in Outputs(Current) => serverless' = Current)
    BY <2>1, <2>3 DEF Started, globals, IInv, LoadedInv, Constructing
  <2> QED
    BY <2>1, <2>2, <2>4, <2>5, <2>6 DEF RestInv, Whole, Current, NoClients
<1>5. SnapshotInv'
  BY DEF Started, SnapshotInv, Staging, Constructing
<1>6. AttemptInv'
  BY DEF Started, AttemptInv, Staging, Constructing
<1>7. LoadedInv'
  BY DEF Started, LoadedInv, Constructing
<1>8. EndingInv'
  BY DEF Started, EndingInv
<1>9. AbandonedInv'
  BY DEF Started, IInv, TypeInv, AbandonedInv, Constructing, active, NoClients, Names
<1>10. LeavingInv'
  BY DEF Started, LeavingInv, Building
<1> QED
  BY <1>1, <1>2, <1>3, <1>4, <1>5, <1>6, <1>7, <1>8, <1>9, <1>10 DEF IInv

LEMMA WatchKeeps ==
    ASSUME IInv, Watch
    PROVE  IInv'
<1>1. TypeInv'
  BY DEF Watch, IInv, TypeInv, Resting, Places, Current, active, globals
<1>2. AgesInv'
  BY DEF Watch, IInv, AgesInv, Staging, Constructing, Resting, active
<1>3. OwnedInv'
  BY DEF Watch, IInv, OwnedInv, Current, active
<1>4. RestInv'
  BY DEF Watch, IInv, RestInv, Resting, Current, active, globals, Abandoned
<1>5. SnapshotInv'
  BY DEF Watch, SnapshotInv, Staging, Constructing
<1>6. AttemptInv'
  BY DEF Watch, AttemptInv, Staging, Constructing
<1>7. LoadedInv'
  BY DEF Watch, LoadedInv, Constructing
<1>8. EndingInv'
  BY DEF Watch, IInv, RestInv, EndingInv, Resting, active
<1>9. AbandonedInv'
  BY DEF Watch, IInv, TypeInv, AbandonedInv, Constructing, Building, active
<1>10. LeavingInv'
  <2>1. /\ pc \in Resting /\ pc' \in Resting \cup {"close", "exit"}
        /\ clients' = clients /\ staged' = staged /\ open' = open /\ abandoned' = abandoned
    BY DEF Watch, active, Resting
  <2>2. /\ staged = NoClients /\ open = Pool(clients) \cup Abandoned
        /\ Pool(clients') = Pool(clients) /\ Abandoned' = Abandoned
    BY <2>1 DEF IInv, RestInv, Pool, Abandoned
  <2>3. open' \ Pool(clients') = Pool(staged') \cup Abandoned'
    <3>1. Pool(clients) \cap Abandoned = {}
      BY AbandonedApart DEF IInv, AbandonedInv
    <3> QED
      BY <2>1, <2>2, <3>1, PoolNone
  <2> QED
    BY <2>1, <2>2, <2>3 DEF LeavingInv, Resting, NoClients
<1> QED
  BY <1>1, <1>2, <1>3, <1>4, <1>5, <1>6, <1>7, <1>8, <1>9, <1>10 DEF IInv

LEMMA WatchErrorKeeps ==
    ASSUME IInv, WatchError
    PROVE  IInv'
<1>1. TypeInv'
  BY DEF WatchError, IInv, TypeInv, Places, Current, active, globals
<1>2. AgesInv'
  BY DEF WatchError, AgesInv, Staging, Constructing, Resting
<1>3. OwnedInv'
  BY DEF WatchError, IInv, OwnedInv, Current, active
<1>4. RestInv'
  BY DEF WatchError, RestInv, Resting
<1>5. SnapshotInv'
  BY DEF WatchError, SnapshotInv, Staging, Constructing
<1>6. AttemptInv'
  BY DEF WatchError, AttemptInv, Staging, Constructing
<1>7. LoadedInv'
  BY DEF WatchError, LoadedInv, Constructing
<1>8. EndingInv'
  BY DEF WatchError, IInv, RestInv, EndingInv, Resting, active
<1>9. AbandonedInv'
  BY DEF WatchError, IInv, TypeInv, AbandonedInv, Constructing, Building, active
<1>10. LeavingInv'
  <2>1. /\ pc \in Resting /\ pc' \in Resting \cup {"close", "exit"}
        /\ clients' = clients /\ staged' = staged /\ open' = open /\ abandoned' = abandoned
    BY DEF WatchError, active, Resting
  <2>2. /\ staged = NoClients /\ open = Pool(clients) \cup Abandoned
        /\ Pool(clients') = Pool(clients) /\ Abandoned' = Abandoned
    BY <2>1 DEF IInv, RestInv, Pool, Abandoned
  <2>3. open' \ Pool(clients') = Pool(staged') \cup Abandoned'
    <3>1. Pool(clients) \cap Abandoned = {}
      BY AbandonedApart DEF IInv, AbandonedInv
    <3> QED
      BY <2>1, <2>2, <3>1, PoolNone
  <2> QED
    BY <2>1, <2>2, <2>3 DEF LeavingInv, Resting, NoClients
<1> QED
  BY <1>1, <1>2, <1>3, <1>4, <1>5, <1>6, <1>7, <1>8, <1>9, <1>10 DEF IInv

LEMMA StopWatchingKeeps ==
    ASSUME IInv, StopWatching
    PROVE  IInv'
<1>1. TypeInv'
  BY DEF StopWatching, IInv, TypeInv, Places, Current, active, globals
<1>2. AgesInv'
  BY DEF StopWatching, AgesInv, Staging, Constructing, Resting
<1>3. OwnedInv'
  BY DEF StopWatching, IInv, OwnedInv, Current, active
<1>4. RestInv'
  BY DEF StopWatching, RestInv, Resting
<1>5. SnapshotInv'
  BY DEF StopWatching, SnapshotInv, Staging, Constructing
<1>6. AttemptInv'
  BY DEF StopWatching, AttemptInv, Staging, Constructing
<1>7. LoadedInv'
  BY DEF StopWatching, LoadedInv, Constructing
<1>8. EndingInv'
  BY DEF StopWatching, IInv, RestInv, EndingInv, Resting, active
<1>9. AbandonedInv'
  BY DEF StopWatching, IInv, TypeInv, AbandonedInv, Constructing, Building, active
<1>10. LeavingInv'
  <2>1. /\ pc \in Resting /\ pc' \in Resting \cup {"close", "exit"}
        /\ clients' = clients /\ staged' = staged /\ open' = open /\ abandoned' = abandoned
    BY DEF StopWatching, active, Resting
  <2>2. /\ staged = NoClients /\ open = Pool(clients) \cup Abandoned
        /\ Pool(clients') = Pool(clients) /\ Abandoned' = Abandoned
    BY <2>1 DEF IInv, RestInv, Pool, Abandoned
  <2>3. open' \ Pool(clients') = Pool(staged') \cup Abandoned'
    <3>1. Pool(clients) \cap Abandoned = {}
      BY AbandonedApart DEF IInv, AbandonedInv
    <3> QED
      BY <2>1, <2>2, <3>1, PoolNone
  <2> QED
    BY <2>1, <2>2, <2>3 DEF LeavingInv, Resting, NoClients
<1> QED
  BY <1>1, <1>2, <1>3, <1>4, <1>5, <1>6, <1>7, <1>8, <1>9, <1>10 DEF IInv

LEMMA BeginReloadKeeps ==
    ASSUME IInv, BeginReload
    PROVE  IInv'
<1>1. TypeInv'
  BY DEF BeginReload, IInv, TypeInv, Resting, Places, Current, active, globals
<1>2. AgesInv'
  BY DEF BeginReload, IInv, AgesInv, Staging, Constructing, Resting, active
<1>3. OwnedInv'
  BY DEF BeginReload, IInv, OwnedInv, Current, active
<1>4. RestInv'
  BY DEF BeginReload, IInv, RestInv, Resting, Current, active, globals, Abandoned
<1>5. SnapshotInv'
  BY DEF BeginReload, IInv, TypeInv, RestInv, SnapshotInv, Resting, Current, active,
     Snapshot
<1>6. AttemptInv'
  BY DEF BeginReload, AttemptInv, Staging, Constructing
<1>7. LoadedInv'
  BY DEF BeginReload, LoadedInv, Constructing
<1>8. EndingInv'
  BY DEF BeginReload, EndingInv
<1>9. AbandonedInv'
  BY DEF BeginReload, IInv, TypeInv, AbandonedInv, Constructing, Building, active
<1>10. LeavingInv'
  BY DEF BeginReload, LeavingInv, Building
<1> QED
  BY <1>1, <1>2, <1>3, <1>4, <1>5, <1>6, <1>7, <1>8, <1>9, <1>10 DEF IInv

LEMMA ParseConfigKeeps ==
    ASSUME IInv, ParseConfig
    PROVE  IInv'
<1>1. TypeInv'
  BY ConfigAssumption DEF ParseConfig, IInv, TypeInv, Staging, Constructing, Places,
     Current, active, globals
<1>2. AgesInv'
  BY DEF ParseConfig, IInv, TypeInv, AgesInv, RestInv, Resting, active, NoClients
<1>3. OwnedInv'
  BY DEF ParseConfig, IInv, OwnedInv, Current, active
<1>4. RestInv'
  BY DEF ParseConfig, RestInv, Resting
<1>5. SnapshotInv'
  BY DEF ParseConfig, IInv, SnapshotInv, Current, active
<1>6. AttemptInv'
  <2>1. /\ pc = "parse" /\ half' = half
        /\ staged' = staged /\ clients' = clients /\ open' = open /\ alias' = alias
    BY DEF ParseConfig, active, globals
  <2>2. /\ staged = NoClients /\ half = "none" /\ open = Pool(clients) \cup Abandoned
        /\ \A b \in Backends : alias[b] = clients[b]
    BY <2>1 DEF IInv, RestInv, Resting
  <2>3. HalfBuilt' = {}
    BY <2>1, <2>2 DEF HalfBuilt, Backends
  <2>4. open' = Pool(clients') \cup Pool(staged') \cup HalfBuilt' \cup Abandoned'
    BY <2>1, <2>2, <2>3, PoolNone DEF ParseConfig, Abandoned
  <2>5. \A b \in Backends :
          alias'[b] = IF staged'[b] # 0 \/ half' = b THEN gen' ELSE clients'[b]
    BY <2>1, <2>2 DEF NoClients, Names, Backends
  <2> QED
    BY <2>1, <2>2, <2>4, <2>5 DEF AttemptInv
<1>7. LoadedInv'
  BY DEF ParseConfig, IInv, RestInv, LoadedInv, Constructing, Resting, Current, active,
     globals, NoClients
<1>8. EndingInv'
  BY DEF ParseConfig, EndingInv
<1>9. AbandonedInv'
  BY DEF ParseConfig, IInv, TypeInv, AbandonedInv, Constructing, Building, active
<1>10. LeavingInv'
  BY DEF ParseConfig, LeavingInv, Building
<1> QED
  BY <1>1, <1>2, <1>3, <1>4, <1>5, <1>6, <1>7, <1>8, <1>9, <1>10 DEF IInv

LEMMA StageKeeps ==
    ASSUME IInv, Stage
    PROVE  IInv'
<1>1. TypeInv'
  BY DEF Stage, IInv, TypeInv, Staging, Constructing, Places, Current, active, globals
<1>2. AgesInv'
  BY DEF Stage, IInv, TypeInv, AgesInv, Staging, Constructing, active
<1>3. OwnedInv'
  BY DEF Stage, IInv, OwnedInv, Current, active
<1>4. RestInv'
  BY DEF Stage, RestInv, Resting
<1>5. SnapshotInv'
  BY DEF Stage, IInv, SnapshotInv, Staging, Constructing, Current, active
<1>6. AttemptInv'
  BY DEF Stage, IInv, AttemptInv, Staging, Constructing, active, globals, HalfBuilt,
     Abandoned
<1>7. LoadedInv'
  BY DEF Stage, IInv, LoadedInv, Constructing, Current, active, globals
<1>8. EndingInv'
  BY DEF Stage, EndingInv
<1>9. AbandonedInv'
  BY DEF Stage, IInv, TypeInv, AbandonedInv, Constructing, Building, active
<1>10. LeavingInv'
  BY DEF Stage, LeavingInv, Building
<1> QED
  BY <1>1, <1>2, <1>3, <1>4, <1>5, <1>6, <1>7, <1>8, <1>9, <1>10 DEF IInv

LEMMA LoadOverridesKeeps ==
    ASSUME IInv, LoadOverrides
    PROVE  IInv'
<1>1. TypeInv'
  BY DEF LoadOverrides, IInv, TypeInv, Staging, Constructing, Places, Current, active
<1>2. AgesInv'
  BY DEF LoadOverrides, IInv, TypeInv, AgesInv, Staging, Constructing, active
<1>3. OwnedInv'
  BY DEF LoadOverrides, IInv, OwnedInv, Current, active
<1>4. RestInv'
  BY DEF LoadOverrides, RestInv, Resting
<1>5. SnapshotInv'
  BY DEF LoadOverrides, IInv, SnapshotInv, Staging, Constructing, Current, active
<1>6. AttemptInv'
  BY DEF LoadOverrides, IInv, AttemptInv, Staging, Constructing, active, HalfBuilt, Abandoned
<1>7. LoadedInv'
  BY DEF LoadOverrides, IInv, LoadedInv, Constructing, Current, active
<1>8. EndingInv'
  BY DEF LoadOverrides, EndingInv
<1>9. AbandonedInv'
  BY DEF LoadOverrides, IInv, TypeInv, AbandonedInv, Constructing, Building, active
<1>10. LeavingInv'
  BY DEF LoadOverrides, LeavingInv, Building
<1> QED
  BY <1>1, <1>2, <1>3, <1>4, <1>5, <1>6, <1>7, <1>8, <1>9, <1>10 DEF IInv

LEMMA LoadIpDbKeeps ==
    ASSUME IInv, LoadIpDb
    PROVE  IInv'
<1>1. TypeInv'
  BY DEF LoadIpDb, IInv, TypeInv, Staging, Constructing, Places, Current, active
<1>2. AgesInv'
  BY DEF LoadIpDb, IInv, TypeInv, AgesInv, Staging, Constructing, active
<1>3. OwnedInv'
  BY DEF LoadIpDb, IInv, OwnedInv, Current, active
<1>4. RestInv'
  BY DEF LoadIpDb, RestInv, Resting
<1>5. SnapshotInv'
  BY DEF LoadIpDb, IInv, SnapshotInv, Staging, Constructing, Current, active
<1>6. AttemptInv'
  BY DEF LoadIpDb, IInv, AttemptInv, Staging, Constructing, active, HalfBuilt, Abandoned
<1>7. LoadedInv'
  BY DEF LoadIpDb, IInv, LoadedInv, Constructing, Current, active, Whole, UtilsParts
<1>8. EndingInv'
  BY DEF LoadIpDb, EndingInv
<1>9. AbandonedInv'
  BY DEF LoadIpDb, IInv, TypeInv, AbandonedInv, Constructing, Building, active
<1>10. LeavingInv'
  BY DEF LoadIpDb, LeavingInv, Building
<1> QED
  BY <1>1, <1>2, <1>3, <1>4, <1>5, <1>6, <1>7, <1>8, <1>9, <1>10 DEF IInv

LEMMA ConfigureTokenKeeps ==
    ASSUME IInv, ConfigureToken
    PROVE  IInv'
<1>1. TypeInv'
  BY DEF ConfigureToken, IInv, TypeInv, Staging, Constructing, Places, Current, active
<1>2. AgesInv'
  BY DEF ConfigureToken, IInv, TypeInv, AgesInv, Staging, Constructing, active
<1>3. OwnedInv'
  BY DEF ConfigureToken, IInv, OwnedInv, Current, active
<1>4. RestInv'
  BY DEF ConfigureToken, RestInv, Resting
<1>5. SnapshotInv'
  BY DEF ConfigureToken, IInv, SnapshotInv, Staging, Constructing, Current, active
<1>6. AttemptInv'
  BY DEF ConfigureToken, IInv, AttemptInv, Staging, Constructing, active, HalfBuilt, Abandoned
<1>7. LoadedInv'
  BY ConfigAssumption DEF ConfigureToken, IInv, TypeInv, AgesInv, OwnedInv, RestInv,
     SnapshotInv, AttemptInv, LoadedInv, EndingInv, Staging, Constructing, Resting, Places,
     Current, active, globals, signals, Backends, Names, HalfBuilt, Whole, Settings, Parts,
     UtilsParts, Snapshot, NoClients
<1>8. EndingInv'
  BY DEF ConfigureToken, IInv, AttemptInv, EndingInv, Staging, Constructing, active
<1>9. AbandonedInv'
  BY DEF ConfigureToken, IInv, TypeInv, AbandonedInv, Constructing, Building, active
<1>10. LeavingInv'
  <2>1. /\ pc = "token" /\ pc' \in {"commit", "exit"} /\ starting' = starting /\ new' = new
        /\ utils' = [utils EXCEPT !["token"] = new]
        /\ clients' = clients /\ staged' = staged /\ open' = open /\ abandoned' = abandoned
    BY DEF ConfigureToken, active
  <2>2. /\ todo = {} /\ ~starting
        /\ utils = [Whole(new) EXCEPT !["token"] = Current]
        /\ half # "none" => half \in todo
        /\ open = Pool(clients) \cup Pool(staged) \cup HalfBuilt \cup Abandoned
        /\ clients \in [Names -> Nat] /\ gen \in Nat \ {0}
        /\ \A n \in Names : clients[n] < gen /\ staged[n] \in {0, gen}
    BY <2>1 DEF IInv, TypeInv, AgesInv, LoadedInv, AttemptInv, Staging, Constructing
  <2>3. open' \ Pool(clients') = Pool(staged') \cup Abandoned'
    <3>1. HalfBuilt = {}
      BY <2>2 DEF HalfBuilt, Backends
    <3>2. \A n \in Names : clients[n] # 0 => clients[n] # staged[n]
      BY <2>2
    <3>3. Pool(clients) \cap Pool(staged) = {}
      BY <3>2, PoolsApart
    <3>4. Pool(clients) \cap Abandoned = {}
      BY AbandonedApart DEF IInv, AbandonedInv
    <3>5. /\ Pool(clients') = Pool(clients) /\ Pool(staged') = Pool(staged)
          /\ Abandoned' = Abandoned
      BY <2>1 DEF Pool, Abandoned
    <3> QED
      BY <2>1, <2>2, <3>1, <3>3, <3>4, <3>5
  <2>4. ~starting' /\ utils' = Whole(new')
    BY <2>1, <2>2 DEF Whole, UtilsParts
  <2> QED
    BY <2>1, <2>3, <2>4 DEF LeavingInv, Whole
<1> QED
  BY <1>1, <1>2, <1>3, <1>4, <1>5, <1>6, <1>7, <1>8, <1>9, <1>10 DEF IInv

LEMMA CommitKeeps ==
    ASSUME IInv, Commit
    PROVE  IInv'
<1>1. TypeInv'
  BY DEF Commit, IInv, TypeInv, Places, Current, globals, Renewed, Parts
<1>2. AgesInv'
  BY DEF Commit, IInv, TypeInv, AgesInv, Staging, Constructing
<1>3. OwnedInv'
  BY DEF Commit, IInv, OwnedInv, LoadedInv, Constructing, Current, Renewed, Parts
<1>4. RestInv'
  BY DEF Commit, RestInv, Resting
<1>5. SnapshotInv'
  BY DEF Commit, SnapshotInv, Staging, Constructing
<1>6. AttemptInv'
  BY DEF Commit, AttemptInv, Staging, Constructing
<1>7. LoadedInv'
  BY DEF Commit, LoadedInv, Constructing
<1>8. EndingInv'
  BY DEF Commit, IInv, AgesInv, AttemptInv, LoadedInv, EndingInv, Staging, Constructing,
     Current, globals, Backends, Names, HalfBuilt, Abandoned, Renewed, Parts
<1>9. AbandonedInv'
  BY DEF Commit, IInv, TypeInv, AbandonedInv, Constructing, Building, active
<1>10. LeavingInv'
  BY DEF Commit, LeavingInv, Building
<1> QED
  BY <1>1, <1>2, <1>3, <1>4, <1>5, <1>6, <1>7, <1>8, <1>9, <1>10 DEF IInv

LEMMA CloseOldKeeps ==
    ASSUME IInv, CloseOld
    PROVE  IInv'
<1>1. TypeInv'
  BY DEF CloseOld, IInv, TypeInv, Resting, Places, Current, CloseClients,
     AliasAfterClosing, active, NoClients
<1>2. AgesInv'
  BY DEF CloseOld, IInv, TypeInv, AgesInv, Staging, Constructing, active
<1>3. OwnedInv'
  BY DEF CloseOld, IInv, OwnedInv, Current, active
<1>4. RestInv'
  <2>1. /\ pc = "close_old" /\ half' = half /\ clients' = clients /\ live' = live
        /\ staged' = NoClients /\ utils' = utils /\ serverless' = serverless
    BY DEF CloseOld, active
  <2>2. /\ half = "none"
        /\ open = Pool(clients) \cup Pool(staged) \cup Abandoned
        /\ \A b \in Backends : alias[b] = IF clients[b] # 0 THEN clients[b] ELSE staged[b]
        /\ \A n \in Names : staged[n] < gen /\ clients[n] \in {0, gen}
    BY <2>1 DEF IInv, EndingInv, AgesInv
  <2>3. open' = Pool(clients') \cup Abandoned'
    <3>1. \A n \in Names : clients[n] # 0 => clients[n] # staged[n]
      BY <2>2 DEF IInv, TypeInv
    <3>2. Pool(clients) \cap Pool(staged) = {}
      BY <3>1, PoolsApart
    <3>3. open' = open \ Pool(staged) /\ Abandoned' = Abandoned
      BY DEF CloseOld, CloseClients, Abandoned
    <3>4. Pool(staged) \cap Abandoned = {}
      BY AbandonedApart DEF IInv, AbandonedInv
    <3> QED
      BY <2>1, <2>2, <3>2, <3>3, <3>4
  <2>4. ASSUME NEW b \in Backends PROVE alias'[b] = clients'[b]
    <3>1. alias'[b] = IF staged[b] # 0 /\ alias[b] = staged[b] THEN 0 ELSE alias[b]
      BY DEF CloseOld, CloseClients, AliasAfterClosing
    <3>2. staged[b] \in Nat /\ clients[b] \in Nat /\ gen \in Nat \ {0}
      BY DEF IInv, TypeInv, Names, Backends
    <3> QED
      BY <2>1, <2>2, <3>1, <3>2 DEF Names, Backends
  <2>5. utils' = Whole(Current) /\ ("elasticsearch" \in Outputs(Current) => serverless' = Current)
    BY <2>1 DEF IInv, EndingInv
  <2> QED
    BY <2>1, <2>2, <2>3, <2>4, <2>5 DEF RestInv, Whole, Current, NoClients
<1>5. SnapshotInv'
  BY DEF CloseOld, SnapshotInv, Staging, Constructing
<1>6. AttemptInv'
  BY DEF CloseOld, AttemptInv, Staging, Constructing
<1>7. LoadedInv'
  BY DEF CloseOld, LoadedInv, Constructing
<1>8. EndingInv'
  BY DEF CloseOld, EndingInv
<1>9. AbandonedInv'
  BY DEF CloseOld, IInv, TypeInv, AbandonedInv, Constructing, active, NoClients, Names
<1>10. LeavingInv'
  BY DEF CloseOld, LeavingInv, Building
<1> QED
  BY <1>1, <1>2, <1>3, <1>4, <1>5, <1>6, <1>7, <1>8, <1>9, <1>10 DEF IInv

LEMMA CloseKeeps ==
    ASSUME IInv, Close
    PROVE  IInv'
<1>1. TypeInv'
  BY DEF Close, IInv, TypeInv, Places, Current, CloseClients, AliasAfterClosing, active
<1>2. AgesInv'
  BY DEF Close, AgesInv, Staging, Constructing, Resting
<1>3. OwnedInv'
  BY DEF Close, IInv, OwnedInv, Current, active
<1>4. RestInv'
  BY DEF Close, RestInv, Resting
<1>5. SnapshotInv'
  BY DEF Close, SnapshotInv, Staging, Constructing
<1>6. AttemptInv'
  BY DEF Close, AttemptInv, Staging, Constructing
<1>7. LoadedInv'
  BY DEF Close, LoadedInv, Constructing
<1>8. EndingInv'
  BY DEF Close, EndingInv
<1>9. AbandonedInv'
  BY DEF Close, IInv, TypeInv, AbandonedInv, Constructing, Building, active
<1>10. LeavingInv'
  <2>1. /\ pc \in {"close", "exit"} /\ pc' \in {"exit", "exited"} /\ open' = open \ Pool(clients)
        /\ clients' = clients /\ staged' = staged /\ abandoned' = abandoned
        /\ starting' = starting /\ utils' = utils /\ new' = new
    BY DEF Close, CloseClients, active
  <2>2. /\ open \ Pool(clients) = Pool(staged) \cup Abandoned
        /\ staged # NoClients => ~starting /\ utils = Whole(new)
    BY <2>1 DEF IInv, LeavingInv
  <2>3. /\ Pool(clients') = Pool(clients) /\ Pool(staged') = Pool(staged)
        /\ Abandoned' = Abandoned
    BY <2>1 DEF Pool, Abandoned
  <2> QED
    BY <2>1, <2>2, <2>3 DEF LeavingInv, Whole, NoClients
<1> QED
  BY <1>1, <1>2, <1>3, <1>4, <1>5, <1>6, <1>7, <1>8, <1>9, <1>10 DEF IInv

LEMMA AtExitKeeps ==
    ASSUME IInv, AtExit
    PROVE  IInv'
<1>1. TypeInv'
  BY DEF AtExit, IInv, TypeInv, Places, Current, CloseClients, AliasAfterClosing, active
<1>2. AgesInv'
  BY DEF AtExit, AgesInv, Staging, Constructing, Resting
<1>3. OwnedInv'
  BY DEF AtExit, IInv, OwnedInv, Current, active
<1>4. RestInv'
  BY DEF AtExit, RestInv, Resting
<1>5. SnapshotInv'
  BY DEF AtExit, SnapshotInv, Staging, Constructing
<1>6. AttemptInv'
  BY DEF AtExit, AttemptInv, Staging, Constructing
<1>7. LoadedInv'
  BY DEF AtExit, LoadedInv, Constructing
<1>8. EndingInv'
  BY DEF AtExit, EndingInv
<1>9. AbandonedInv'
  BY DEF AtExit, IInv, TypeInv, AbandonedInv, Constructing, Building, active
<1>10. LeavingInv'
  <2>1. /\ pc \in {"close", "exit"} /\ pc' \in {"exit", "exited"} /\ open' = open \ Pool(clients)
        /\ clients' = clients /\ staged' = staged /\ abandoned' = abandoned
        /\ starting' = starting /\ utils' = utils /\ new' = new
    BY DEF AtExit, CloseClients, active
  <2>2. /\ open \ Pool(clients) = Pool(staged) \cup Abandoned
        /\ staged # NoClients => ~starting /\ utils = Whole(new)
    BY <2>1 DEF IInv, LeavingInv
  <2>3. /\ Pool(clients') = Pool(clients) /\ Pool(staged') = Pool(staged)
        /\ Abandoned' = Abandoned
    BY <2>1 DEF Pool, Abandoned
  <2> QED
    BY <2>1, <2>2, <2>3 DEF LeavingInv, Whole, NoClients
<1> QED
  BY <1>1, <1>2, <1>3, <1>4, <1>5, <1>6, <1>7, <1>8, <1>9, <1>10 DEF IInv

LEMMA SecondSigintKeeps ==
    ASSUME IInv, SecondSigint
    PROVE  IInv'
<1>1. TypeInv'
  BY DEF SecondSigint, IInv, TypeInv, Places, Current, active, globals
<1>2. AgesInv'
  BY DEF SecondSigint, AgesInv, Staging, Constructing, Resting
<1>3. OwnedInv'
  BY DEF SecondSigint, IInv, OwnedInv, Current, active
<1>4. RestInv'
  BY DEF SecondSigint, RestInv, Resting
<1>5. SnapshotInv'
  BY DEF SecondSigint, SnapshotInv, Staging, Constructing
<1>6. AttemptInv'
  BY DEF SecondSigint, AttemptInv, Staging, Constructing
<1>7. LoadedInv'
  BY DEF SecondSigint, LoadedInv, Constructing
<1>8. EndingInv'
  BY DEF SecondSigint, EndingInv
<1>9. AbandonedInv'
  BY DEF SecondSigint, IInv, TypeInv, AbandonedInv, Constructing, Building, active
<1>10. LeavingInv'
  BY DEF SecondSigint, LeavingInv
<1> QED
  BY <1>1, <1>2, <1>3, <1>4, <1>5, <1>6, <1>7, <1>8, <1>9, <1>10 DEF IInv

-----------------------------------------------------------------------------
(***************************************************************************)
(* Edits, signals and stuttering leave what IInv speaks of alone.          *)
(***************************************************************************)
LEMMA OthersKeep ==
    ASSUME IInv, file' \in Configs,
           UNCHANGED <<pc, starting, gen, active, globals, new, staged, todo, half, saved, open,
                       abandoned, forced>>
    PROVE  IInv'
<1>1. /\ HalfBuilt' = HalfBuilt /\ Abandoned' = Abandoned
      /\ Pool(clients)' = Pool(clients) /\ Pool(staged)' = Pool(staged)
  BY DEF HalfBuilt, Abandoned, Pool, active
<1>2. TypeInv' /\ AgesInv' /\ OwnedInv'
  BY DEF IInv, TypeInv, AgesInv, OwnedInv, Current, active, globals
<1>3. RestInv' /\ SnapshotInv'
  BY <1>1 DEF IInv, RestInv, SnapshotInv, Current, Whole, active, globals
<1>4. AttemptInv' /\ LoadedInv' /\ EndingInv' /\ AbandonedInv' /\ LeavingInv'
  BY <1>1 DEF IInv, AttemptInv, LoadedInv, EndingInv, AbandonedInv, LeavingInv, Current,
     Whole, active, globals
<1> QED
  BY <1>2, <1>3, <1>4 DEF IInv

LEMMA NextKeeps == IInv /\ [Next]_vars => IInv'
<1> SUFFICES ASSUME IInv, [Next]_vars PROVE IInv'
  OBVIOUS
<1>0. file \in Configs
  BY DEF IInv, TypeInv
<1>1. CASE \E n \in Names : BuildClient(n) \/ SetHosts(n) \/ Migrate(n) \/ BuildFails(n)
  BY <1>1, BuildClientKeeps, SetHostsKeeps, MigrateKeeps, BuildFailsKeeps
<1>2. CASE Teardown \/ Restore \/ Retry \/ Started
  BY <1>2, TeardownKeeps, RestoreKeeps, RetryKeeps, StartedKeeps
<1>3. CASE Watch \/ WatchError \/ StopWatching \/ BeginReload
  BY <1>3, WatchKeeps, WatchErrorKeeps, StopWatchingKeeps, BeginReloadKeeps
<1>4. CASE ParseConfig \/ Stage \/ LoadOverrides \/ LoadIpDb \/ ConfigureToken
  BY <1>4, ParseConfigKeeps, StageKeeps, LoadOverridesKeeps, LoadIpDbKeeps, ConfigureTokenKeeps
<1>5. CASE Commit \/ CloseOld \/ Close \/ AtExit \/ SecondSigint
  BY <1>5, CommitKeeps, CloseOldKeeps, CloseKeeps, AtExitKeeps, SecondSigintKeeps
<1>6. CASE Edit \/ Sighup \/ Sigterm \/ Ended \/ UNCHANGED vars
  BY <1>0, <1>6, OthersKeep DEF Edit, Sighup, Sigterm, Ended, vars, signals, active, globals
<1> QED
  BY <1>1, <1>2, <1>3, <1>4, <1>5, <1>6 DEF Next, Step

THEOREM ReloadInductive == Spec => []IInv
<1>1. Init => IInv
  BY InitInv
<1>2. IInv /\ [Next]_vars => IInv'
  BY NextKeeps
<1> QED
  BY <1>1, <1>2, PTL DEF Spec

(***************************************************************************)
(* usage.md: a reload takes effect as a whole, or "the previous            *)
(* configuration remains fully active".  All but n_procs.                  *)
(***************************************************************************)
THEOREM WholeConfiguration == Spec => []OneConfiguration
<1>1. IInv => OneConfiguration
  <2> SUFFICES ASSUME IInv, pc = "watch" PROVE OneConfiguration
    BY DEF OneConfiguration
  <2>1. RestInv /\ OwnedInv /\ \A p \in Renewed : live[p] = Current
    BY DEF IInv, TypeInv
  <2> QED
    BY <2>1 DEF OneConfiguration, RestInv, OwnedInv, Resting, Current, Whole
<1> QED
  BY <1>1, ReloadInductive, PTL

(***************************************************************************)
(* The watcher runs with its own clients open, and with no other but the   *)
(* PostgreSQL connections on which create_tables() raised.                 *)
(***************************************************************************)
THEOREM NothingLeaks == Spec => []NoClientLeak
<1>1. IInv => NoClientLeak
  BY DEF IInv, RestInv, Resting, NoClientLeak
<1> QED
  BY <1>1, ReloadInductive, PTL

(***************************************************************************)
(* The clients of the running configuration stay open until the process    *)
(* ends or another configuration has taken their place.                    *)
(***************************************************************************)
THEOREM InUseStaysOpen == Spec => []ClientsStayOpen
<1>1. IInv => ClientsStayOpen
  BY DEF IInv, TypeInv, RestInv, AttemptInv, EndingInv, LeavingInv, Places, Staging,
     ClientsStayOpen
<1> QED
  BY <1>1, ReloadInductive, PTL

(***************************************************************************)
(* However the process ends, except by a second SIGINT, the clients in use *)
(* and those they replaced are closed, after any number of reloads.        *)
(***************************************************************************)
THEOREM ExitCloses == Spec => []ExitClosesClients
<1>1. IInv => ExitClosesClients
  BY DEF IInv, LeavingInv, ExitClosesClients, Whole
<1> QED
  BY <1>1, ReloadInductive, PTL

=============================================================================
