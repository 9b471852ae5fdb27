----------------------------- MODULE IndexNames -----------------------------
(***************************************************************************)
(* The index names of a deployment: those it saves reports under, and      *)
(* those that a migration at start-up works on.  A name is a pair of a     *)
(* prefix and a suffix around one base name, such as dmarc_aggregate.      *)
(***************************************************************************)
EXTENDS Naturals, Sequences

(***************************************************************************)
(* No prefix, no suffix.                                                   *)
(***************************************************************************)
None == "none"

AppendNew(seq, e) ==
    IF \E i \in DOMAIN seq : seq[i] = e THEN seq ELSE Append(seq, e)

(***************************************************************************)
(* The suffixed name is followed by the bare one; a configured prefix      *)
(* replaces the prefixes of the tenants, which come after no prefix.       *)
(***************************************************************************)
Bases(suffix) == IF suffix = None THEN <<None>> ELSE <<suffix, None>>

PrefixesOf(prefix, tenants) ==
    LET upTo[i \in 0..Len(tenants)] ==
            IF i = 0 THEN <<None>> ELSE AppendNew(upTo[i - 1], tenants[i])
    IN IF prefix # None THEN <<prefix>> ELSE upTo[Len(tenants)]

MigrationNames(suffix, prefix, tenants) ==
    LET prefixes == PrefixesOf(prefix, tenants)
        bases == Bases(suffix)
        upTo[i \in 0..Len(prefixes)] ==
            IF i = 0 THEN <<>>
            ELSE upTo[i - 1] \o [b \in 1..Len(bases) |-> <<prefixes[i], bases[b]>>]
    IN upTo[Len(prefixes)]

(***************************************************************************)
(* Where a report of the tenant is saved; tenant is None for a domain that *)
(* index_prefix_domain_map does not list.                                  *)
(***************************************************************************)
SaveName(suffix, prefix, tenant) ==
    <<IF prefix # None THEN prefix ELSE tenant, suffix>>

(***************************************************************************)
(* The names that f"{name}*" matches.                                      *)
(***************************************************************************)
CoveredBy(name, names) ==
    {n \in names : n[1] = name[1] /\ (name[2] = None \/ n[2] = name[2])}

=============================================================================
