---------------------------- MODULE ReportFiles ----------------------------
(***************************************************************************)
(* The files of a run of the command: report files given as arguments move *)
(* into the archive directory once parsed (cli.py), and at the end their   *)
(* reports are added to the JSON and CSV files and the message samples of  *)
(* the output directory (save_output of __init__.py).  Several runs share  *)
(* the directories, a write may fail, and a run may die between any two    *)
(* steps (MaxFaults bounds both).                                          *)
(*                                                                         *)
(* A path is <<directory, name, number>>: the number is the suffix that    *)
(* keeps an archived name free.  The content of a file is a record with    *)
(* its kind; a report has an id, and what the CSV rows are made of.        *)
(***************************************************************************)
EXTENDS Integers, Sequences, FiniteSets, Functions

CONSTANTS
    Runs,      \* runs of the command
    Inputs,    \* the files given: from paths to contents
    Subdir(_), \* the dated archive directory of a report, or None
    MaxFaults  \* bound on failing writes and deaths

None == "none"
Kinds == <<"aggregate", "failure", "smtp_tls">>
Sample == 4 \* the step after the last kind

IsReport(x) == x.kind \in Range(Kinds)
Empty == [kind |-> "empty"] \* a placeholder, or a file cut short

ArchiveDir(x) == IF IsReport(x) THEN Subdir(x) ELSE "Invalid"

IsSequence(s) == s \in Seq(Range(s))

\* The files given are not in the archive (_exclude_archived_paths).
ASSUME FilesAssumption ==
    /\ MaxFaults \in Nat
    /\ \A p \in DOMAIN Inputs : Inputs[p].kind \in Range(Kinds) \cup {"invalid"}
    /\ \A p, q \in DOMAIN Inputs : ArchiveDir(Inputs[p]) # q[1]
    /\ \A p \in DOMAIN Inputs :
          /\ Inputs[p].kind = "aggregate" => IsSequence(Inputs[p].records)
          /\ Inputs[p].kind = "smtp_tls" =>
                /\ IsSequence(Inputs[p].policies)
                /\ \A i \in DOMAIN Inputs[p].policies :
                      IsSequence(Inputs[p].policies[i].details)

VARIABLES
    disk,    \* from paths to contents: the inputs and the archive
    json,    \* kind -> [whole, reports]: a JSON file
    csv,     \* kind -> the lines of a CSV file
    samples, \* from names to [report, by]: message samples
    \* Of each run: where it is, the files it has yet to read, its reports by kind;
    \* the file it archives, the name claimed, what it copies; the kind whose output
    \* it writes (a place in Kinds), and what it will write.
    step, unread, parsed, from, to, content, kindNo, merged,
    faults,
    filed,   \* history: <<path, content>> moved into the archive for good
    savedBy, \* history: the runs that have saved their output
    mailed,  \* history: <<run, kind -> reports>>, the attachments sent
    torn     \* history: kinds whose JSON file was cut short or written by two at once

archive == <<disk, filed>>
output == <<json, csv, samples, savedBy, mailed, torn>>
reading == <<unread, parsed>>
moving == <<from, to, content>>
writing == <<kindNo, merged>>
filesVars == <<archive, output, faults, step, reading, moving, writing>>

FilesInit ==
    /\ disk = Inputs
    /\ json = [k \in Range(Kinds) |-> [whole |-> TRUE, reports |-> <<>>]]
    /\ csv = [k \in Range(Kinds) |-> <<>>]
    /\ samples = <<>>
    /\ step = [r \in Runs |-> "new"]
    /\ unread = [r \in Runs |-> {}]
    /\ parsed = [r \in Runs |-> [k \in Range(Kinds) |-> <<>>]]
    /\ from = [r \in Runs |-> <<>>] /\ to = [r \in Runs |-> <<>>]
    /\ content = [r \in Runs |-> Empty]
    /\ kindNo = [r \in Runs |-> 1] /\ merged = [r \in Runs |-> <<>>]
    /\ faults = 0
    /\ filed = {} /\ savedBy = {} /\ mailed = {} /\ torn = {}

At(r, s) == step[r] = s

Go(r, s) == step' = [step EXCEPT ![r] = s]

----------------------------------------------------------------------------
(***************************************************************************)
(* The arguments name directories, expanded to the files below them; what  *)
(* is in the archive, which may lie below an argument, is left out.        *)
(***************************************************************************)
InArchive(p) == p[1] \notin {q[1] : q \in DOMAIN Inputs}

ExpandArguments == DOMAIN disk

ExcludeArchived(paths) == {p \in paths : ~InArchive(p)}

Begin(r) ==
    /\ At(r, "new")
    /\ unread' = [unread EXCEPT ![r] = ExcludeArchived(ExpandArguments)]
    /\ Go(r, "parse")
    /\ UNCHANGED <<archive, output, faults, parsed, moving, writing>>

(***************************************************************************)
(* A file is parsed and then archived: under Invalid when it is no report, *)
(* by its date when it is.  One that cannot be read, because another run   *)
(* has moved it or for a passing reason, or that has no date, stays.       *)
(***************************************************************************)
\* An aggregate report that the run has read before is not collected again, unless
\* the deduplication cache has forgotten it.
Known(r, x) == x.kind = "aggregate" /\ \E y \in Range(parsed[r][x.kind]) : y.id = x.id

AddResult(r, x) ==
    LET added == [parsed EXCEPT ![r][x.kind] = Append(@, x)]
    IN  parsed' \in (IF IsReport(x) THEN {added} ELSE {})
                    \cup (IF IsReport(x) => Known(r, x) THEN {parsed} ELSE {})

ParseFile(r, p) ==
    /\ At(r, "parse") /\ p \in unread[r] /\ p \in DOMAIN disk
    /\ unread' = [unread EXCEPT ![r] = @ \ {p}]
    /\ AddResult(r, disk[p])
    /\ LET dir == ArchiveDir(disk[p])
       IN  /\ Go(r, IF dir = None THEN "parse" ELSE "claim")
           /\ from' = [from EXCEPT ![r] = p]
           /\ to' = [to EXCEPT ![r] = <<dir, p[2], 0>>]
    /\ UNCHANGED <<archive, output, faults, content, writing>>

LeaveFile(r, p) ==
    /\ At(r, "parse") /\ p \in unread[r]
    /\ p \in DOMAIN disk => faults < MaxFaults
    /\ faults' = IF p \in DOMAIN disk THEN faults + 1 ELSE faults
    /\ unread' = [unread EXCEPT ![r] = @ \ {p}]
    /\ UNCHANGED <<archive, output, step, parsed, moving, writing>>

(***************************************************************************)
(* The move.  A free name is claimed with an empty placeholder, created    *)
(* only if nothing has that name; then the file is renamed onto it, or,    *)
(* when the archive is on another file system, copied and removed.         *)
(***************************************************************************)
Put(p, x) == disk' = [q \in DOMAIN disk \cup {p} |-> IF q = p THEN x ELSE disk[q]]

NameTaken(r) ==
    /\ At(r, "claim") /\ to[r] \in DOMAIN disk
    /\ to' = [to EXCEPT ![r] = <<@[1], @[2], @[3] + 1>>]
    /\ UNCHANGED <<archive, output, faults, step, reading, from, content, writing>>

Mutant_ClaimAnyway(r) ==
    /\ At(r, "claim")
    /\ Put(to[r], Empty)
    /\ Go(r, "move")
    /\ UNCHANGED <<filed, output, faults, reading, moving, writing>>

ClaimName(r) ==
    /\ At(r, "claim") /\ to[r] \notin DOMAIN disk
    /\ Put(to[r], Empty)
    /\ Go(r, "move")
    /\ UNCHANGED <<filed, output, faults, reading, moving, writing>>

Archived(r, x) ==
    /\ filed' = filed \cup {<<to[r], x>>}
    /\ Go(r, "parse")
    /\ UNCHANGED <<output, faults, reading, moving, writing>>

Rename(r) ==
    /\ At(r, "move") /\ from[r] \in DOMAIN disk
    /\ disk' = [p \in DOMAIN disk \ {from[r]} |-> IF p = to[r] THEN disk[from[r]] ELSE disk[p]]
    /\ Archived(r, disk[from[r]])

StartCopy(r) ==
    /\ At(r, "move") /\ from[r] \in DOMAIN disk
    /\ content' = [content EXCEPT ![r] = disk[from[r]]]
    /\ Go(r, "copy")
    /\ UNCHANGED <<archive, output, faults, reading, from, to, writing>>

FinishCopy(r) ==
    /\ At(r, "copy")
    /\ Put(to[r], content[r])
    /\ Go(r, "unlink")
    /\ UNCHANGED <<filed, output, faults, reading, moving, writing>>

Unlink(r) ==
    /\ At(r, "unlink") /\ from[r] \in DOMAIN disk
    /\ disk' = [p \in DOMAIN disk \ {from[r]} |-> disk[p]]
    /\ Archived(r, content[r])

\* A failed move removes what is under the claimed name, and is only logged.
MoveFails(r) ==
    /\ \/ /\ step[r] \in {"move", "unlink"} /\ from[r] \notin DOMAIN disk
          /\ UNCHANGED faults
       \/ /\ step[r] \in {"move", "copy", "unlink"} /\ faults < MaxFaults
          /\ faults' = faults + 1
    /\ disk' = [p \in DOMAIN disk \ {to[r]} |-> disk[p]]
    /\ Go(r, "parse")
    /\ UNCHANGED <<filed, output, reading, moving, writing>>

ParsedAll(r) ==
    /\ At(r, "parse") /\ unread[r] = {}
    /\ Go(r, "json")
    /\ UNCHANGED <<archive, output, faults, reading, moving, writing>>

----------------------------------------------------------------------------
(***************************************************************************)
(* CSV.  A row of an aggregate report for each record, one for a failure   *)
(* report; of an SMTP TLS report one for each policy and one for each of   *)
(* its failure details.  All rows of an SMTP TLS report are copies of one  *)
(* record, so a policy without strings of its own gets those of the last   *)
(* policy before it that has some.                                         *)
(***************************************************************************)
AggregateRows(x) == [i \in 1 .. Len(x.records) |-> [id |-> x.id, record |-> x.records[i]]]

FailureRows(x) == <<[id |-> x.id]>>

StringsAt(policies, j) ==
    LET given == {i \in 1 .. j : policies[i].strings # None}
    IN  IF given = {} THEN None
        ELSE policies[CHOOSE i \in given : \A h \in given : h <= i].strings

PolicyRows(x, j) ==
    LET policy  == x.policies[j]
        strings == StringsAt(x.policies, j)
    IN  <<[id |-> x.id, strings |-> strings, policy |-> policy.domain]>>
        \o [i \in 1 .. Len(policy.details) |->
               [id |-> x.id, strings |-> strings, detail |-> policy.details[i]]]

\* The rows of several reports, or of several policies, one after the other.
Joined(blocks) ==
    LET upTo[n \in 0 .. Len(blocks)] == IF n = 0 THEN <<>> ELSE upTo[n - 1] \o blocks[n]
    IN  upTo[Len(blocks)]

TlsRows(x) == Joined([j \in 1 .. Len(x.policies) |-> PolicyRows(x, j)])

RowsOf(x) ==
    CASE x.kind = "aggregate" -> AggregateRows(x)
      [] x.kind = "failure"   -> FailureRows(x)
      [] x.kind = "smtp_tls"  -> TlsRows(x)

Header == [names |-> "fields"]

CsvRows(reports) == Joined([i \in 1 .. Len(reports) |-> RowsOf(reports[i])])

----------------------------------------------------------------------------
(***************************************************************************)
(* save_output: for each kind first the JSON file, then the CSV file, and  *)
(* at last the samples.                                                    *)
(***************************************************************************)
KindOf(r) == Kinds[kindNo[r]]

Mine(r) == parsed[r][KindOf(r)]

Writing(r, k) == step[r] \in {"open", "dump"} /\ KindOf(r) = k

NextKind(r) ==
    /\ kindNo' = [kindNo EXCEPT ![r] = @ + 1]
    /\ Go(r, IF kindNo[r] + 1 = Sample THEN "samples" ELSE "json")
    /\ UNCHANGED <<archive, json, samples, savedBy, mailed, torn, faults, reading, moving, merged>>

\* Without reports of a kind a JSON file is left alone, and a CSV file gets its header.
SkipKind(r) ==
    /\ At(r, "json") /\ Mine(r) = <<>>
    /\ csv' = [csv EXCEPT ![KindOf(r)] = IF @ = <<>> THEN <<Header>> ELSE @]
    /\ NextKind(r)

\* The file is read, to be written again with the reports of r after those found.
Merge(r, found) ==
    /\ merged' = [merged EXCEPT ![r] = found \o Mine(r)]
    /\ torn' = IF \E q \in Runs \ {r} : Writing(q, KindOf(r)) THEN torn \cup {KindOf(r)} ELSE torn
    /\ Go(r, "open")
    /\ UNCHANGED <<archive, json, csv, samples, savedBy, mailed, faults, reading, moving, kindNo>>

Mutant_NewReportsOnly(r) ==
    /\ At(r, "json") /\ Mine(r) # <<>>
    /\ Merge(r, <<>>)

\* A file that is no JSON array, as one cut short, counts as empty.
ReadJson(r) ==
    /\ At(r, "json") /\ Mine(r) # <<>>
    /\ Merge(r, IF json[KindOf(r)].whole THEN json[KindOf(r)].reports ELSE <<>>)

Replace(r, file) ==
    /\ json' = [json EXCEPT ![KindOf(r)] = file]
    /\ UNCHANGED <<archive, csv, samples, savedBy, mailed, torn, faults, reading, moving, writing>>

OpenJson(r) ==
    /\ At(r, "open") /\ Go(r, "dump")
    /\ Replace(r, [whole |-> FALSE, reports |-> <<>>])

DumpJson(r) ==
    /\ At(r, "dump") /\ Go(r, "csv")
    /\ Replace(r, [whole |-> TRUE, reports |-> merged[r]])

\* The header is written by whoever finds the file empty.
FindCsv(r) ==
    /\ At(r, "csv")
    /\ LET header == IF csv[KindOf(r)] = <<>> THEN <<Header>> ELSE <<>>
       IN  merged' = [merged EXCEPT ![r] = header \o CsvRows(Mine(r))]
    /\ Go(r, "rows")
    /\ UNCHANGED <<archive, output, faults, reading, moving, kindNo>>

AppendCsv(r) ==
    /\ At(r, "rows")
    /\ csv' = [csv EXCEPT ![KindOf(r)] = @ \o merged[r]]
    /\ NextKind(r)

(***************************************************************************)
(* Samples are named for their subject, with a number when this call has   *)
(* used the name before; a file of an earlier call is overwritten.  (No    *)
(* subject reads like the numbered form of another.)                       *)
(***************************************************************************)
Failures(r) == parsed[r]["failure"]

SampleName(reports, i) ==
    <<reports[i].subject,
      Cardinality({h \in 1 .. i - 1 : reports[h].subject = reports[i].subject})>>

\* The samples after r has written those of its first n failure reports.
WithSamples(r, n) ==
    LET names    == {SampleName(Failures(r), i) : i \in 1 .. n}
        index(s) == CHOOSE i \in 1 .. n : SampleName(Failures(r), i) = s
    IN  [s \in DOMAIN samples \cup names |->
           IF s \in names THEN [report |-> Failures(r)[index(s)], by |-> r] ELSE samples[s]]

WriteSamples(r) ==
    /\ At(r, "samples")
    /\ samples' = WithSamples(r, Len(Failures(r)))
    /\ savedBy' = savedBy \cup {r}
    /\ Go(r, "saved")
    /\ UNCHANGED <<archive, json, csv, mailed, torn, faults, reading, moving, writing>>

(***************************************************************************)
(* A write that fails (a full disk) ends save_output: process_reports      *)
(* records the error, and the run ends.  What was opened stays cut short.  *)
(***************************************************************************)
WriteFails(r) ==
    /\ step[r] \in {"open", "dump", "rows", "samples"} /\ faults < MaxFaults
    /\ faults' = faults + 1
    /\ torn' = IF At(r, "dump") THEN torn \cup {KindOf(r)} ELSE torn
    /\ \/ samples' = samples
       \/ /\ At(r, "samples")
          /\ \E n \in 1 .. Len(Failures(r)) - 1 : samples' = WithSamples(r, n)
    /\ Go(r, "failed")
    /\ UNCHANGED <<archive, json, csv, savedBy, mailed, reading, moving, writing>>

(***************************************************************************)
(* Whether its output was saved or not, the reports of a run are mailed,   *)
(* when it has any: as the files that save_output makes of them in a new   *)
(* directory.  (fail_on_output_error, which ends the run before, is off.)  *)
(***************************************************************************)
\* By SMTP or through the Microsoft Graph mailbox.
Send(r) == mailed' = mailed \cup {<<r, parsed[r]>>}

Mail(r) ==
    /\ step[r] \in {"saved", "failed"}
    /\ \E k \in Range(Kinds) : parsed[r][k] # <<>>
    /\ \/ Send(r) /\ Go(r, "mailed") /\ UNCHANGED faults
       \/ /\ faults < MaxFaults /\ faults' = faults + 1
          /\ Go(r, "unmailed") /\ UNCHANGED mailed
    /\ UNCHANGED <<archive, json, csv, samples, savedBy, torn, reading, moving, writing>>

\* The process is killed.
Die(r) ==
    /\ step[r] \notin {"new", "saved", "failed", "mailed", "unmailed", "dead"}
    /\ faults < MaxFaults
    /\ faults' = faults + 1
    /\ torn' = IF At(r, "dump") THEN torn \cup {KindOf(r)} ELSE torn
    /\ Go(r, "dead")
    /\ UNCHANGED <<archive, json, csv, samples, savedBy, mailed, reading, moving, writing>>

FilesNext ==
    \E r \in Runs :
        \/ Begin(r) \/ NameTaken(r) \/ ClaimName(r) \/ Rename(r)
        \/ \E p \in DOMAIN Inputs \cup DOMAIN disk : ParseFile(r, p) \/ LeaveFile(r, p)
        \/ StartCopy(r) \/ FinishCopy(r) \/ Unlink(r) \/ MoveFails(r) \/ ParsedAll(r)
        \/ SkipKind(r) \/ ReadJson(r) \/ OpenJson(r) \/ DumpJson(r)
        \/ FindCsv(r) \/ AppendCsv(r) \/ WriteSamples(r)
        \/ WriteFails(r) \/ Mail(r) \/ Die(r)

FilesSpec == FilesInit /\ [][FilesNext]_filesVars

----------------------------------------------------------------------------
(***************************************************************************)
(* Archiving loses nothing.  Whichever runs race for a file or for a name, *)
(* and wherever one of them dies, every file given is still whole          *)
(* somewhere, and a file that was archived stays where it was put.  Unless *)
(* the run that archived a report is under way, has died or could not mail *)
(* it, the report (of several aggregate reports with one id, one of them)  *)
(* was mailed, even if it could not be saved.                              *)
(***************************************************************************)
SameReport(x, y) ==
    \/ x = y
    \/ x.kind = "aggregate" /\ y.kind = "aggregate" /\ x.id = y.id

ArchiveKeepsAll ==
    /\ \A p \in DOMAIN Inputs : \E q \in DOMAIN disk : disk[q] = Inputs[p]
    /\ \A f \in filed : f[1] \in DOMAIN disk /\ disk[f[1]] = f[2]
    /\ \A f \in filed : IsReport(f[2]) => \E r \in Runs :
          \E x \in Range(parsed[r][f[2].kind]) :
             /\ SameReport(x, f[2])
             /\ At(r, "mailed") =>
                   \E m \in mailed : m[1] = r /\ x \in Range(m[2][f[2].kind])

(***************************************************************************)
(* A report whose run has saved its output is in the JSON file, however    *)
(* many runs add to it later, unless a write of that file is under way, or *)
(* was cut short, or two runs wrote it at once; its rows are in the CSV    *)
(* file, whole and in one piece; and a failure report has a sample of its  *)
(* own, unless another run has since used that name.                       *)
(***************************************************************************)
Within(rows, lines) ==
    \E i \in 0 .. Len(lines) - Len(rows) : SubSeq(lines, i + 1, i + Len(rows)) = rows

InJson(x) ==
    \/ x.kind \in torn
    \/ x \in Range(json[x.kind].reports)
    \/ \E r \in Runs : At(r, "dump") /\ KindOf(r) = x.kind

HasSample(r, x) ==
    \E s \in DOMAIN samples :
        \/ samples[s].report = x
        \/ s[1] = x.subject /\ samples[s].by # r

SavedIsOnDisk ==
    \A r \in savedBy :
        /\ \A k \in Range(Kinds) : \A x \in Range(parsed[r][k]) :
              InJson(x) /\ Within(RowsOf(x), csv[k])
        /\ \A x \in Range(Failures(r)) : HasSample(r, x)
=============================================================================
