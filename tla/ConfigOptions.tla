--------------------------- MODULE ConfigOptions ---------------------------
(***************************************************************************)
(* What _parse_config of cli.py makes of a configuration.                  *)
(*                                                                         *)
(* A configuration maps the names of its sections to functions from keys   *)
(* to values.  An option is named by the section and the key that set it:  *)
(* <<"imap", "host">> is opts.imap_host.  Options are a function on the    *)
(* options that the configuration sets; any other has the value that the   *)
(* command line gives it.  Of a value only its identity counts, except     *)
(* that Malformed stands for a text that the key's conversion rejects.     *)
(***************************************************************************)
EXTENDS Functions, Sequences, FiniteSets

CONSTANT Installed \* the optional extras present: among "msgraph" and "gmail"

ASSUME InstalledAssumption == Installed \subseteq {"msgraph", "gmail"}

Malformed == "malformed"

Nothing == "nothing" \* Python's None

\* The options of f over those of g: what is set last is what counts.
Over(f, g) ==
    [x \in DOMAIN f \cup DOMAIN g |-> IF x \in DOMAIN f THEN f[x] ELSE g[x]]

(***************************************************************************)
(* What a section does: the keys it takes, the former name of a key (used  *)
(* when the key is not given), the fallback a key gets when it is given    *)
(* under neither name, the keys it cannot do without (one of each set),    *)
(* and the keys whose values are converted.                                *)
(***************************************************************************)
Section(takes, older, fallback, needs, typed) ==
    [takes |-> takes, older |-> older, fallback |-> fallback,
     needs |-> needs, typed |-> typed]

None == <<>>

General(c) ==
    Section(
        {"silent", "normalize_timespan_threshold_hours", "index_prefix_domain_map",
         "offline", "strip_attachment_payloads", "output", "archive_directory",
         "aggregate_json_filename", "failure_json_filename", "smtp_tls_json_filename",
         "aggregate_csv_filename", "failure_csv_filename", "smtp_tls_csv_filename",
         "dns_timeout", "dns_retries", "dns_test_address", "nameservers",
         "save_aggregate", "save_failure", "save_smtp_tls", "debug", "verbose",
         "warnings", "fail_on_output_error", "log_file", "n_procs", "ip_db_path",
         "ipinfo_url", "ipinfo_api_token", "always_use_local_files",
         "local_reverse_dns_map_path", "reverse_dns_map_url",
         "local_psl_overrides_path", "psl_overrides_url", "prettify_json"},
        [failure_json_filename |-> "forensic_json_filename",
         failure_csv_filename |-> "forensic_csv_filename",
         save_failure |-> "save_forensic", ipinfo_url |-> "ip_db_url"],
        [ip_db_path |-> Nothing],
        {},
        {"silent", "normalize_timespan_threshold_hours", "index_prefix_domain_map",
         "offline", "strip_attachment_payloads", "dns_timeout", "dns_retries",
         "save_aggregate", "save_failure", "save_smtp_tls", "debug", "verbose",
         "warnings", "fail_on_output_error", "n_procs", "always_use_local_files",
         "prettify_json"}
        \cup IF "save_failure" \in DOMAIN c THEN {} ELSE {"save_forensic"})

Mailbox(config) ==
    Section(
        {"reports_folder", "archive_folder", "watch", "delete", "delete_aggregate",
         "delete_failure", "delete_smtp_tls", "delete_invalid", "test", "batch_size",
         "check_timeout", "max_unsaved_retries", "since"},
        None,
        IF "msgraph" \in DOMAIN config THEN [reports_folder |-> "Inbox"] ELSE None,
        {},
        {"watch", "delete", "delete_aggregate", "delete_failure", "delete_smtp_tls",
         "delete_invalid", "test", "batch_size", "check_timeout",
         "max_unsaved_retries"})

\* Keys of [imap] that set the options of [mailbox], over what that section says.
ImapMoved == {"reports_folder", "archive_folder", "watch", "test", "batch_size"}

Imap ==
    Section({"host", "port", "timeout", "max_retries", "ssl",
             "skip_certificate_verification", "user", "password"},
            None, None, {{"host"}, {"user"}, {"password"}},
            {"port", "timeout", "max_retries", "ssl",
             "skip_certificate_verification", "watch", "test", "batch_size"})

AuthMethods ==
    {"UsernamePassword", "DeviceCode", "ClientSecret", "Certificate", "ClientAssertion"}

Msgraph(c) ==
    LET method == IF "auth_method" \in DOMAIN c THEN c["auth_method"]
                  ELSE "UsernamePassword"
        required ==
            CASE method = "UsernamePassword" -> {"user", "password", "client_secret"}
              [] method = "ClientSecret"     -> {"tenant_id", "client_secret"}
              [] method = "Certificate"      -> {"tenant_id", "certificate_path"}
              [] method = "ClientAssertion"  -> {"tenant_id", "client_assertion"}
              [] OTHER                       -> {"tenant_id"}
        optional ==
            CASE method = "DeviceCode"  -> {"user"}
              [] method = "Certificate" -> {"certificate_password"}
              [] OTHER                  -> {}
    IN  Section(required \cup optional
                \cup {"token_file", "auth_method", "client_id", "mailbox",
                      "graph_url", "allow_unencrypted_storage"},
                [graph_url |-> "url"],
                [token_file |-> ".token", auth_method |-> "UsernamePassword"],
                {{k} : k \in required \cup {"client_id"}
                             \cup IF method = "UsernamePassword" THEN {} ELSE {"mailbox"}},
                {"allow_unencrypted_storage"})

SearchKeys ==
    {"hosts", "timeout", "number_of_shards", "number_of_replicas", "index_suffix",
     "index_prefix", "monthly_indexes", "ssl", "cert_path",
     "skip_certificate_verification", "user", "password", "api_key"}

SearchTyped ==
    {"timeout", "number_of_shards", "number_of_replicas", "monthly_indexes", "ssl",
     "skip_certificate_verification"}

Elasticsearch ==
    Section(SearchKeys \cup {"serverless"}, [api_key |-> "apiKey"], None, {{"hosts"}},
            SearchTyped \cup {"serverless"})

Opensearch ==
    Section(SearchKeys \cup {"auth_type", "aws_region", "aws_service"},
            [api_key |-> "apiKey", auth_type |-> "authentication_type"],
            None, {{"hosts"}}, SearchTyped)

SplunkHec ==
    Section({"url", "token", "index", "skip_certificate_verification"}, None, None,
            {{"url"}, {"token"}, {"index"}}, {"skip_certificate_verification"})

Kafka ==
    Section({"hosts", "user", "password", "ssl", "skip_certificate_verification",
             "aggregate_topic", "failure_topic", "smtp_tls_topic"},
            [failure_topic |-> "forensic_topic"], None,
            {{"hosts"}, {"aggregate_topic"}, {"failure_topic", "forensic_topic"},
             {"smtp_tls_topic"}},
            {"ssl", "skip_certificate_verification"})

(***************************************************************************)
(* The summary is mailed through the SMTP host, or, when none is given,    *)
(* through the Microsoft Graph mailbox that must then be configured.       *)
(***************************************************************************)
Smtp(config) ==
    LET relayed == "host" \in DOMAIN config["smtp"]
    IN  Section({"port", "ssl", "skip_certificate_verification", "to", "subject",
                 "attachment", "message"}
                \cup IF relayed THEN {"host", "user", "password", "from"} ELSE {},
                None, None,
                IF relayed THEN {{"user"}, {"password"}}
                ELSE IF "msgraph" \in DOMAIN config THEN {} ELSE {{"host"}},
                {"port", "ssl", "skip_certificate_verification"})

S3 ==
    Section({"bucket", "path", "region_name", "endpoint_url", "access_key_id",
             "secret_access_key"},
            None, [path |-> ""], {{"bucket"}}, {})

Postgresql(c) ==
    Section(IF "connection_string" \in DOMAIN c THEN {"connection_string"}
            ELSE {"host", "port", "user", "password", "database"},
            None, None, {{"connection_string", "host"}},
            IF "connection_string" \in DOMAIN c THEN {} ELSE {"port"})

Syslog ==
    Section({"server", "port", "protocol", "cafile_path", "certfile_path",
             "keyfile_path", "timeout", "retry_attempts", "retry_delay"},
            None,
            [port |-> "514", protocol |-> "udp", timeout |-> "5.0",
             retry_attempts |-> "3", retry_delay |-> "5"],
            {{"server"}}, {"timeout", "retry_attempts", "retry_delay"})

ModifyScope == "gmail.modify"
DeleteScope == "mail.google.com"

GmailApi ==
    Section({"credentials_file", "token_file", "include_spam_trash",
             "paginate_messages", "scopes", "oauth2_port", "auth_mode",
             "service_account_user"},
            [service_account_user |-> "delegated_user"],
            [credentials_file |-> Nothing, token_file |-> ".token",
             include_spam_trash |-> "off", paginate_messages |-> "on",
             scopes |-> ModifyScope],
            {}, {"include_spam_trash", "paginate_messages", "oauth2_port"})

Maildir ==
    Section({"maildir_path", "maildir_create"},
            [maildir_path |-> "path", maildir_create |-> "create"],
            [maildir_path |-> Nothing, maildir_create |-> "off"],
            {}, {"maildir_create", "create"})

LogAnalytics ==
    LET keys == {"client_id", "client_secret", "tenant_id", "dce", "dcr_immutable_id",
                 "dcr_aggregate_stream", "dcr_failure_stream", "dcr_smtp_tls_stream"}
    IN  Section(keys, [dcr_failure_stream |-> "dcr_forensic_stream"],
                [k \in keys |-> Nothing], {}, {})

Gelf ==
    Section({"host", "port", "mode"}, None, None, {{"host"}, {"port"}, {"mode"}}, {})

Webhook ==
    Section({"aggregate_url", "failure_url", "smtp_tls_url", "timeout"},
            [failure_url |-> "forensic_url"], None, {}, {"timeout"})

KnownSections ==
    {"general", "mailbox", "imap", "msgraph", "elasticsearch", "opensearch",
     "splunk_hec", "kafka", "smtp", "s3", "postgresql", "syslog", "gmail_api",
     "maildir", "log_analytics", "gelf", "webhook"}

SectionOf(s, config) ==
    CASE s = "general"       -> General(config[s])
      [] s = "mailbox"       -> Mailbox(config)
      [] s = "imap"          -> Imap
      [] s = "msgraph"       -> Msgraph(config[s])
      [] s = "elasticsearch" -> Elasticsearch
      [] s = "opensearch"    -> Opensearch
      [] s = "splunk_hec"    -> SplunkHec
      [] s = "kafka"         -> Kafka
      [] s = "smtp"          -> Smtp(config)
      [] s = "s3"            -> S3
      [] s = "postgresql"    -> Postgresql(config[s])
      [] s = "syslog"        -> Syslog
      [] s = "gmail_api"     -> GmailApi
      [] s = "maildir"       -> Maildir
      [] s = "log_analytics" -> LogAnalytics
      [] s = "gelf"          -> Gelf
      [] s = "webhook"       -> Webhook

----------------------------------------------------------------------------
(***************************************************************************)
(* A section refuses its keys when a required one is missing, when a value *)
(* cannot be converted, or when the extra it needs is not installed.  The  *)
(* nameservers are tried at once: answered says whether they resolve.      *)
(***************************************************************************)
Refuses(s, config, answered) ==
    LET given == DOMAIN config[s]
        row   == SectionOf(s, config)
    IN  \/ \E alternatives \in row.needs : alternatives \cap given = {}
        \/ \E k \in row.typed \cap given : config[s][k] = Malformed
        \/ s = "general" /\ "nameservers" \in given /\ ~answered
        \/ s = "msgraph" /\ \/ "msgraph" \notin Installed
                            \/ /\ "auth_method" \in given
                               /\ config[s]["auth_method"] \notin AuthMethods
        \/ s = "gmail_api" /\ "gmail" \notin Installed

Accepted(config, answered) ==
    \A s \in DOMAIN config \cap KnownSections : ~Refuses(s, config, answered)

\* Has this key a value, under its own name, its former one or as a fallback?
HasValue(row, c, k) ==
    \/ k \in DOMAIN c \cup DOMAIN row.fallback
    \/ k \in DOMAIN row.older /\ row.older[k] \in DOMAIN c

ValueOf(row, c, k) ==
    IF k \in DOMAIN c THEN c[k]
    ELSE IF k \in DOMAIN row.older /\ row.older[k] \in DOMAIN c THEN c[row.older[k]]
    ELSE row.fallback[k]

\* The options that one section sets.
Taken(s, config) ==
    LET row == SectionOf(s, config)
        set == {k \in row.takes : HasValue(row, config[s], k)}
    IN  [o \in {<<s, k>> : k \in set} |-> ValueOf(row, config[s], o[2])]

\* Options of [mailbox] that [imap] sets.
MovedFromImap(config) ==
    IF "imap" \notin DOMAIN config THEN None
    ELSE [o \in {<<"mailbox", k>> : k \in ImapMoved \cap DOMAIN config["imap"]} |->
             config["imap"][o[2]]]

(***************************************************************************)
(* The options after parsing an accepted configuration on top of base.     *)
(***************************************************************************)
ParseConfig(config, base) ==
    LET sections == DOMAIN config \cap KnownSections
        silent   == [o \in {<<"general", "silent">>} |-> "on"]
        taken    == [o \in UNION {DOMAIN Taken(s, config) : s \in sections} |->
                        Taken(o[1], config)[o]]
    IN  Over(MovedFromImap(config), Over(taken, Over(silent, base)))

----------------------------------------------------------------------------
(***************************************************************************)
(* _load_config: the file, overridden by PARSEDMARC_* variables, which     *)
(* create a section that the file lacks; a variable that names a secret    *)
(* file (..._FILE) comes before one that holds the value itself.  direct   *)
(* and secrets are functions on pairs of section and key.                  *)
(***************************************************************************)
FromEnvironment(direct, secrets) == Over(secrets, direct)

LoadConfig(ini, direct, secrets) ==
    LET env  == FromEnvironment(direct, secrets)
        keys(s) == {k \in {o[2] : o \in DOMAIN env} : <<s, k>> \in DOMAIN env}
        own(s)  == IF s \in DOMAIN ini THEN ini[s] ELSE None
    IN  [s \in DOMAIN ini \cup {o[1] : o \in DOMAIN env} |->
            Over([k \in keys(s) |-> env[<<s, k>>]], own(s))]
=============================================================================
