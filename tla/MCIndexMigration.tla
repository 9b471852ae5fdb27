-------------------------- MODULE MCIndexMigration --------------------------
(***************************************************************************)
(* Instances of IndexMigration for TLC: a deployment with an index_suffix  *)
(* and one tenant in its index_prefix_domain_map, on a cluster that also   *)
(* holds the indexes of the time before both.                              *)
(***************************************************************************)
EXTENDS IndexMigration, IndexNames

CONSTANTS d1, d2, d3, d4, p1

Suffix == "prod"

Tenants == <<"acme">>

Bare == <<None, None>>

Suffixed == SaveName(Suffix, None, None)

Tenant == SaveName(Suffix, None, "acme")

TenantBare == SaveName(None, None, "acme")

(***************************************************************************)
(* The call in cli.py: the backfill gets the tenants' names, the legacy    *)
(* migration does not.                                                     *)
(***************************************************************************)
MCLegacyNames == MigrationNames(Suffix, None, <<>>)

MCBackfillNames == MigrationNames(Suffix, None, Tenants)

MCNames == {Bare, Suffixed, Tenant, TenantBare}

MCCovers == [n \in MCNames |-> CoveredBy(n, MCNames)]

(***************************************************************************)
(* The bare index is from before 5.0.0, the suffixed one from 5.0.0; d2    *)
(* was saved with the combined fields; d4 of the tenant is in a dated      *)
(* index.                                                                  *)
(***************************************************************************)
MCHeld ==
    [n \in MCNames |->
        CASE n = Bare -> {d1, d2} [] n = Suffixed -> {d3} [] OTHER -> {}]

MCDated ==
    [n \in MCNames |-> IF n = Tenant THEN {d4} ELSE {}]

MCFirstKind ==
    [n \in MCNames |->
        CASE n = Bare -> "long" [] n = Suffixed -> "text" [] OTHER -> "absent"]

=============================================================================
