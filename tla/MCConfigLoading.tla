-------------------------- MODULE MCConfigLoading --------------------------
(***************************************************************************)
(* ConfigLoading on configuration files that between them use every        *)
(* section, former names of keys, the keys of [imap] that set the options  *)
(* of [mailbox], each way to be refused, and two log files.                *)
(***************************************************************************)
EXTENDS ConfigLoading, TLC

ImapServer == [host |-> "server", user |-> "me", password |-> "secret"]

Watch == [watch |-> "on", reports_folder |-> "Reports", delete |-> "on"]

LogTo(f) == [log_file |-> f]

Outputs ==
    [elasticsearch |-> [hosts |-> "es", apiKey |-> "old", api_key |-> "new"],
     opensearch    |-> [hosts |-> "os", apiKey |-> "old", authentication_type |-> "sigv4"],
     splunk_hec    |-> [url |-> "hec", token |-> "t", index |-> "i"],
     kafka         |-> [hosts |-> "k", aggregate_topic |-> "a", forensic_topic |-> "f",
                        smtp_tls_topic |-> "s"],
     smtp          |-> [host |-> "relay", user |-> "u", password |-> "p"],
     s3            |-> [bucket |-> "b"],
     postgresql    |-> [connection_string |-> "dsn", port |-> Malformed],
     syslog        |-> [server |-> "log", timeout |-> "1.5"],
     log_analytics |-> [client_id |-> "id", dcr_forensic_stream |-> "f"],
     gelf          |-> [host |-> "g", port |-> "1", mode |-> "udp"],
     webhook       |-> [forensic_url |-> "hook"]]

Everything == [imap |-> ImapServer, mailbox |-> Watch, general |-> LogTo("a.log")] @@ Outputs

MCFiles ==
    {\* every output, a log file
     Everything,
     \* the same mailbox with a former name, another log file, no outputs
     [imap |-> ImapServer @@ [watch |-> "on"], mailbox |-> [watch |-> "off"],
      general |-> LogTo("b.log") @@ [save_forensic |-> "on", debug |-> "on",
                                     save_failure |-> "off"]],
     \* a Graph mailbox, which mails the summary too
     [msgraph |-> [auth_method |-> "Certificate", tenant_id |-> "t",
                   certificate_path |-> "c", client_id |-> "id", mailbox |-> "m"],
      mailbox |-> [watch |-> "on"], smtp |-> [to |-> "you"], general |-> LogTo("a.log")],
     \* Gmail without the scope that allows deleting
     [gmail_api |-> [credentials_file |-> "c"], mailbox |-> Watch],
     \* a Maildir that is no longer watched
     [maildir |-> [path |-> "/mail"], mailbox |-> [watch |-> "off"]],
     \* resolvers, which are tried at once
     [imap |-> ImapServer, mailbox |-> [watch |-> "on"],
      general |-> [nameservers |-> "ns"]],
     \* refused: a key missing, a value malformed, a mailer without host
     [imap |-> [host |-> "server", user |-> "me"], mailbox |-> Watch],
     [imap |-> ImapServer, general |-> [n_procs |-> Malformed]],
     [maildir |-> [path |-> "/mail"], smtp |-> [to |-> "you"]],
     \* no mailbox at all
     [general |-> LogTo("a.log")]}

MCDirect == (<<"general", "ipinfo_api_token">> :> "t1")
            @@ (<<"general", "offline">> :> "on")

MCSecrets == {<<>>, <<"general", "ipinfo_api_token">> :> "t2"}
=============================================================================
