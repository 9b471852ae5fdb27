---------------------------- MODULE SourceLookup ----------------------------
(***************************************************************************)
(* get_ip_address_info() of utils.py: what a source address is attributed  *)
(* to.  A lookup asks DNS for the PTR record, with retries, then the       *)
(* IPinfo API or the MMDB database for the autonomous system, and then the *)
(* reverse DNS map, which a process loads when it first needs it.  Results *)
(* are kept in the process's IP address cache.                             *)
(*                                                                         *)
(* The servers and files answer truthfully or fail; MaxFaults bounds the   *)
(* failures.  A PTR record is represented by its base domain.              *)
(***************************************************************************)
EXTENDS Integers

CONSTANTS
    Addresses,
    None,
    Ptr(_),        \* the PTR record of an address, or None
    Base(_, _),    \* base domain of an address's PTR record under an
                   \* overrides list, or None when it has none
    AsDomain(_),   \* domain of the autonomous system of an address
    RemoteMap,     \* base domains of the map at the URL
    TornMap,       \* those read before a row that cannot be read
    LocalMap,      \* base domains of the local or bundled map
    Configs,       \* the configurations: offline, token (an IPinfo API token
                   \* is set) and asn (the MMDB is more than country-only)
    Retries,       \* config.dns_retries
    MaxFaults      \* bound on failures of servers and files

ASSUME LookupAssumption ==
    /\ None \notin Addresses
    /\ Configs \subseteq [offline : BOOLEAN, token : BOOLEAN, asn : BOOLEAN]
    /\ Retries \in Nat
    /\ MaxFaults \in Nat

VARIABLES
    conf,      \* the configuration in force
    cache,     \* IP_ADDRESS_CACHE: address -> answer, or None
    map,       \* REVERSE_DNS_MAP: "empty", or where it was read from
    overrides, \* psl_overrides: "bundled" at import, "current" once loaded
    look,      \* the lookup in progress
    faults,    \* failures so far
    last       \* history: address -> the answer last given, or None

lookupVars == <<conf, cache, map, overrides, look, faults, last>>

(***************************************************************************)
(* name and type of a source: those of the map for the PTR record's base   *)
(* domain or the AS domain, the base domain itself, the raw AS name, or    *)
(* neither.                                                                *)
(***************************************************************************)
Attributions == {"service", "domain", "as_service", "as_name", "nothing"}

Answers == {[ptr |-> p, by |-> b] : p \in {Ptr(a) : a \in Addresses} \cup {None},
                                    b \in Attributions}

Maps == {"empty", "remote", "torn", "local"}

Entries(m) ==
    CASE m = "empty" -> {} [] m = "remote" -> RemoteMap
      [] m = "torn" -> TornMap [] m = "local" -> LocalMap

Resting == [stage |-> "idle", addr |-> None, tries |-> 0, ptr |-> None,
            base |-> None, asn |-> FALSE, gaveUp |-> FALSE, answer |-> None]

LookupInit ==
    /\ conf \in Configs
    /\ cache = [a \in Addresses |-> None]
    /\ map = "empty"
    /\ overrides = "bundled"
    /\ look = Resting
    /\ faults = 0
    /\ last = [a \in Addresses |-> None]

-----------------------------------------------------------------------------
Fault == faults < MaxFaults /\ faults' = faults + 1

At(s) == look.stage = s

(***************************************************************************)
(* An exception that leaves get_ip_address_info().                         *)
(***************************************************************************)
Raise == look' = [look EXCEPT !.stage = "raised"]

AfterDns == IF conf.token /\ ~conf.offline THEN "api" ELSE "mmdb"

(***************************************************************************)
(* get_ip_address_info(): the cache first; offline, no DNS.                *)
(***************************************************************************)
Begin(a) ==
    /\ IF cache[a] # None
         THEN /\ look' = [Resting EXCEPT !.stage = "done", !.addr = a, !.answer = cache[a]]
              /\ last' = [last EXCEPT ![a] = cache[a]]
         ELSE /\ look' = [Resting EXCEPT !.addr = a,
                                         !.stage = IF conf.offline THEN AfterDns ELSE "dns"]
              /\ UNCHANGED last
    /\ UNCHANGED <<conf, cache, map, overrides, faults>>

(***************************************************************************)
(* query_dns(): an answer, or NXDOMAIN, which get_reverse_dns() turns into *)
(* no host name.                                                           *)
(***************************************************************************)
Resolve ==
    /\ At("dns")
    /\ look' = [look EXCEPT !.stage = AfterDns, !.ptr = Ptr(look.addr),
                            !.tries = look.tries + 1]
    /\ UNCHANGED <<conf, cache, map, overrides, faults, last>>

QueryFails ==
    /\ At("dns")
    /\ Fault
    /\ LET tries == look.tries + 1
       IN  \/ /\ tries <= Retries
              /\ look' = [look EXCEPT !.tries = tries]
           \/ /\ tries > Retries
              /\ \E next \in {AfterDns, "raised"} :
                   look' = [look EXCEPT !.tries = tries, !.gaveUp = TRUE, !.stage = next]
    /\ UNCHANGED <<conf, cache, map, overrides, last>>

(***************************************************************************)
(* The base domain is determined with the overrides as they are, before    *)
(* the map, and with it the overrides, may be loaded.                      *)
(***************************************************************************)
Recorded(asn) ==
    look' = [look EXCEPT !.stage = "attribute", !.asn = asn,
                         !.base = IF look.ptr = None THEN None
                                                     ELSE Base(look.addr, overrides)]

(***************************************************************************)
(* The IPinfo API: a record; no usable answer, which falls back to the     *)
(* MMDB; or 401/403, which raises InvalidIPinfoAPIKey.                     *)
(***************************************************************************)
ApiAnswers ==
    /\ At("api")
    /\ Recorded(TRUE)
    /\ UNCHANGED <<conf, cache, map, overrides, faults, last>>

ApiUnusable ==
    /\ At("api")
    /\ Fault
    /\ look' = [look EXCEPT !.stage = "mmdb"]
    /\ UNCHANGED <<conf, cache, map, overrides, last>>

ApiRejects ==
    /\ At("api")
    /\ Fault
    /\ Raise
    /\ UNCHANGED <<conf, cache, map, overrides, last>>

ReadMmdb ==
    /\ At("mmdb")
    /\ Recorded(conf.asn)
    /\ UNCHANGED <<conf, cache, map, overrides, faults, last>>

MmdbMissing ==
    /\ At("mmdb")
    /\ Fault
    /\ Raise
    /\ UNCHANGED <<conf, cache, map, overrides, last>>

-----------------------------------------------------------------------------
(***************************************************************************)
(* The map is looked at unless there is a PTR record without base domain.  *)
(***************************************************************************)
NeedsMap == look.ptr = None \/ look.base # None

(***************************************************************************)
(* load_reverse_dns_map(): the overrides, then the map, each from its URL. *)
(* A failed download, or a map whose first row cannot be read, leaves the  *)
(* list empty and the local file is read; a later row of the map that      *)
(* cannot be read leaves the rows before it.  Offline, both are local.     *)
(***************************************************************************)
Downloads(c, failing) ==
    IF c.offline THEN {<<"bundled", "local">>}
    ELSE IF ~failing THEN {<<"current", "remote">>}
    ELSE {<<"bundled", "remote">>} \cup {"bundled", "current"} \X {"torn", "local"}

Load(c) ==
    \E failing \in BOOLEAN, files \in Downloads(c, TRUE) \cup Downloads(c, FALSE) :
        /\ IF failing THEN Fault ELSE UNCHANGED faults
        /\ files \in Downloads(c, failing)
        /\ overrides' = files[1]
        /\ map' = files[2]

LoadMap ==
    /\ At("attribute")
    /\ NeedsMap
    /\ map = "empty"
    /\ Load(conf)
    /\ UNCHANGED <<conf, cache, look, last>>

(***************************************************************************)
(* Not even the local file can be read.                                    *)
(***************************************************************************)
LoadFails ==
    /\ At("attribute")
    /\ NeedsMap
    /\ map = "empty"
    /\ Fault
    /\ Raise
    /\ overrides' \in {files[1] : files \in Downloads(conf, TRUE)}
    /\ UNCHANGED <<conf, cache, map, last>>

Answer ==
    LET known == Entries(map)
    IN  [ptr |-> look.ptr,
         by  |-> IF look.ptr # None
                   THEN IF look.base = None THEN "nothing"
                        ELSE IF look.base \in known THEN "service" ELSE "domain"
                   ELSE IF ~look.asn THEN "nothing"
                        ELSE IF AsDomain(look.addr) \in known THEN "as_service"
                        ELSE "as_name"]

WeakFallback(answer) == answer.by = "as_name"

Conclude(cached) ==
    /\ At("attribute")
    /\ NeedsMap => map # "empty"
    /\ look' = [look EXCEPT !.stage = "done", !.answer = Answer]
    /\ last' = [last EXCEPT ![look.addr] = Answer]
    /\ cache' = IF cached THEN [cache EXCEPT ![look.addr] = Answer] ELSE cache
    /\ UNCHANGED <<conf, map, overrides, faults>>

Mutant_CacheAlways == Conclude(TRUE)

Attribute == Conclude(~WeakFallback(Answer))

-----------------------------------------------------------------------------
(***************************************************************************)
(* The caller has taken the answer, or caught the exception.               *)
(***************************************************************************)
Rest == look' = Resting

(***************************************************************************)
(* The four hours of the cache are over for an address.                    *)
(***************************************************************************)
Expire(a) ==
    /\ cache[a] # None
    /\ cache' = [cache EXCEPT ![a] = None]
    /\ UNCHANGED <<conf, map, overrides, look, faults, last>>

(***************************************************************************)
(* A configuration reload that is committed: the new settings, and the map *)
(* loaded beside the old one; the cache stays.                             *)
(***************************************************************************)
ReloadMap ==
    /\ conf' \in Configs
    /\ Load(conf')
    /\ UNCHANGED <<cache, look, last>>

LookupStep ==
    \/ Resolve \/ QueryFails
    \/ ApiAnswers \/ ApiUnusable \/ ApiRejects \/ ReadMmdb \/ MmdbMissing
    \/ LoadMap \/ LoadFails \/ Attribute

-----------------------------------------------------------------------------
(***************************************************************************)
(* The comment on weak_fallback: a transient DNS failure must not poison   *)
(* the cache with the raw AS name.  An address that was attributed to its  *)
(* AS name while its PTR record could not be had is attributed by it       *)
(* again only if DNS gives no answer again, or may not be asked.           *)
(***************************************************************************)
Recovers ==
    [][\A a \in Addresses :
         (/\ look.stage # "done" /\ look'.stage = "done" /\ look'.addr = a
          /\ ~look'.gaveUp /\ ~conf.offline
          /\ last[a] # None /\ WeakFallback(last[a]))
            => look'.answer.ptr = Ptr(a)]_lookupVars

=============================================================================
