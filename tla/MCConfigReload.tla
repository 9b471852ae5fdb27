--------------------------- MODULE MCConfigReload ---------------------------
(***************************************************************************)
(* ConfigReload for TLC: a configuration with Elasticsearch and            *)
(* PostgreSQL, one with both search backends, one without watch mode, and  *)
(* one that watch_inbox refuses.                                           *)
(***************************************************************************)
EXTENDS ConfigReload

CONSTANTS both, elastic, stopped, refused

MCOutputs(c) ==
    CASE c = both -> Names
      [] c = elastic -> {"elasticsearch", "postgresql"}
      [] c \in {stopped, refused} -> {"opensearch"}

MCWatches(c) == c # stopped

=============================================================================
