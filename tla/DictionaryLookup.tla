--------------------------- MODULE DictionaryLookup ---------------------------
(***************************************************************************)
(* One dictionary package of dictionary_download.rs, and the lookups in it *)
(* of dictionary_lookup.rs.  A package is the release it is, or Torn.      *)
(*                                                                         *)
(* A download verifies the package of the latest release and puts it in    *)
(* the place of the installed one over a backup; the next start of the     *)
(* program cleans up what a crash has left.                                *)
(***************************************************************************)
EXTENDS Naturals, FiniteSets

CONSTANTS
    None,
    Torn,         \* a package that is not the one of any release
    Releases,     \* releases of the package, as increasing numbers
    MaxMishaps    \* bound: crashes, errors and corrupt downloads

VARIABLES
    package,      \* the installed file
    spare,        \* its .backup
    partial,      \* its .part
    version,      \* the .version file
    entry,        \* the states map: [status, version, path]
    fetcher,      \* where download is
    release,      \* the release that download has resolved
    latest,       \* the latest release
    ever,         \* whether a package has been installed
    mishaps

dictionaryVars == <<package, spare, partial, version, entry, fetcher, release, latest, ever,
                    mishaps>>
disk == <<package, spare, partial, version>>

NoEntry == [status |-> "none", version |-> None, path |-> FALSE]

DictionaryInit ==
    /\ package = None /\ spare = None /\ partial = None /\ version = None
    /\ entry = NoEntry
    /\ fetcher = "idle" /\ release = None /\ latest = CHOOSE r \in Releases : \A s \in Releases : r <= s
    /\ ever = FALSE /\ mishaps = MaxMishaps

Mishap == mishaps > 0 /\ mishaps' = mishaps - 1

Publish(r) ==
    /\ r > latest
    /\ latest' = r
    /\ UNCHANGED <<disk, entry, fetcher, release, ever, mishaps>>

StartDictionary ==
    /\ fetcher = "idle"
    /\ entry.status \notin {"queued", "resolving", "downloading"}
    /\ entry' = [NoEntry EXCEPT !.status = "queued"]
    /\ fetcher' = "resolve"
    /\ UNCHANGED <<disk, release, latest, ever, mishaps>>

ResolveDownload ==
    /\ fetcher = "resolve"
    /\ release' = latest
    /\ entry' = [entry EXCEPT !.status = "downloading", !.version = latest]
    /\ fetcher' = "fetch"
    /\ UNCHANGED <<disk, latest, ever, mishaps>>

\* The stream is written to a new .part.
FetchPackage ==
    /\ fetcher = "fetch"
    /\ \/ partial' = release /\ UNCHANGED mishaps
       \/ partial' = Torn /\ Mishap
    /\ fetcher' = "verify"
    /\ UNCHANGED <<package, spare, version, entry, release, latest, ever>>

VerifyPackage ==
    /\ fetcher = "verify"
    /\ fetcher' = IF partial = release THEN "install" ELSE "failed"
    /\ UNCHANGED <<disk, entry, release, latest, ever, mishaps>>

\* install_package: a first package is renamed into its place.
InstallFirst ==
    /\ fetcher = "install" /\ package = None
    /\ package' = partial /\ partial' = None /\ ever' = TRUE
    /\ fetcher' = "version"
    /\ UNCHANGED <<spare, version, entry, release, latest, mishaps>>

\* An update removes an old backup,
DropOldBackup ==
    /\ fetcher = "install" /\ package # None
    /\ spare' = None
    /\ fetcher' = "set aside"
    /\ UNCHANGED <<package, partial, version, entry, release, latest, ever, mishaps>>

\* renames the package to be the backup,
SetPackageAside ==
    /\ fetcher = "set aside"
    /\ spare' = package /\ package' = None
    /\ fetcher' = "replace"
    /\ UNCHANGED <<partial, version, entry, release, latest, ever, mishaps>>

\* and the part to be the package.  When that fails the backup is renamed back, and
\* an error of that is ignored.
ReplacePackage ==
    /\ fetcher = "replace"
    /\ \/ /\ package' = partial /\ partial' = None
          /\ fetcher' = "drop backup"
          /\ UNCHANGED <<spare, mishaps>>
       \/ /\ Mishap
          /\ \/ package' = spare /\ spare' = None
             \/ UNCHANGED <<package, spare>>
          /\ fetcher' = "failed"
          /\ UNCHANGED partial
    /\ UNCHANGED <<version, entry, release, latest, ever>>

DropBackup ==
    /\ fetcher = "drop backup"
    /\ spare' = None
    /\ fetcher' = "version"
    /\ UNCHANGED <<package, partial, version, entry, release, latest, ever, mishaps>>

WriteVersion ==
    /\ fetcher = "version"
    /\ version' = release
    /\ fetcher' = "listed"
    /\ UNCHANGED <<package, spare, partial, entry, release, latest, ever, mishaps>>

ListInstalled ==
    /\ fetcher = "listed"
    /\ entry' = [entry EXCEPT !.status = "done", !.path = TRUE]
    /\ fetcher' = "idle" /\ release' = None
    /\ UNCHANGED <<disk, latest, ever, mishaps>>

\* An error of the network or of the files, at any of the steps above.
DownloadErrs ==
    /\ fetcher \in {"resolve", "fetch", "verify", "install", "set aside", "drop backup",
                    "version"}
    /\ Mishap
    /\ fetcher' = "failed"
    /\ UNCHANGED <<disk, entry, release, latest, ever>>

DropPart ==
    /\ fetcher = "failed"
    /\ partial' = None
    /\ entry' = [entry EXCEPT !.status = "failed"]
    /\ fetcher' = "idle" /\ release' = None
    /\ UNCHANGED <<package, spare, version, latest, ever, mishaps>>

\* A crash, also one of the start itself.
CrashDictionary ==
    /\ Mishap
    /\ fetcher' = "starting" /\ entry' = NoEntry /\ release' = None
    /\ UNCHANGED <<disk, latest, ever>>

(***************************************************************************)
(* cleanup_partial_downloads, one file at a time, and new.                 *)
(***************************************************************************)
CleanPart ==
    /\ fetcher = "starting" /\ partial # None
    /\ partial' = None
    /\ UNCHANGED <<package, spare, version, entry, fetcher, release, latest, ever, mishaps>>

\* Mutant of CleanBackup: a backup is always left-over.
CleanBackupAlways ==
    /\ fetcher = "starting" /\ spare # None
    /\ spare' = None
    /\ UNCHANGED <<package, partial, version, entry, fetcher, release, latest, ever, mishaps>>

CleanBackup ==
    /\ fetcher = "starting" /\ spare # None
    /\ spare' = None
    /\ package' = IF package = None THEN spare ELSE package
    /\ UNCHANGED <<partial, version, entry, fetcher, release, latest, ever, mishaps>>

ListAtStart ==
    /\ fetcher = "starting" /\ partial = None /\ spare = None
    /\ entry' = IF package = None THEN NoEntry
                ELSE [status |-> "done", version |-> version, path |-> TRUE]
    /\ fetcher' = "idle"
    /\ UNCHANGED <<disk, release, latest, ever, mishaps>>

Downloads ==
    \/ \E r \in Releases : Publish(r)
    \/ StartDictionary \/ ResolveDownload \/ FetchPackage \/ VerifyPackage
    \/ InstallFirst \/ DropOldBackup \/ SetPackageAside \/ ReplacePackage \/ DropBackup
    \/ WriteVersion \/ ListInstalled \/ DownloadErrs \/ DropPart
Cleans == CleanPart \/ CleanBackup

DictionaryNext == Downloads \/ CrashDictionary \/ Cleans \/ ListAtStart

DictionarySpec == DictionaryInit /\ [][DictionaryNext]_dictionaryVars

DictionaryTypeOK ==
    /\ {package, spare, version, release} \subseteq Releases \cup {None}
    /\ partial \in Releases \cup {None, Torn}
    /\ entry.status \in {"none", "queued", "downloading", "failed", "done"}

\* Once a package is installed, a verified one stays on the disk through every
\* failed update and every crash, and a dictionary that is listed as installed
\* lies in its place.
DictionarySurvives ==
    /\ ever => {package, spare} # {None}
    /\ entry.status = "done" => package # None

(***************************************************************************)
(* A lookup, meanwhile, reads the .version file, builds an index of the    *)
(* package (JMdict, ECDICT) or unpacks a database from it (Tomoshi) when   *)
(* that is of another version, and queries it.                             *)
(*                                                                         *)
(* Two lookups that unpack at the same time write into one file, and a     *)
(* database without version file is given the version of the package: the  *)
(* lookups are not followed any further then.                              *)
(***************************************************************************)
CONSTANTS
    Local,        \* the version of a package without version file
    Lookups,      \* lookups that may run at the same time
    Kinds         \* subset of {"indexed", "unpacked"}: how packages are read

VARIABLES
    kind,         \* how this package is read
    lookup,       \* of each lookup: [pc, seen, held]
    indexLock,    \* the lookup in ensure_index, or None
    index,        \* the index: [label, text], label is its source_version
    unpacked,     \* the files .part, .db and .backup: None, a release or Torn
    dbVersion,    \* the .db.version file
    lapses        \* "doubled": two lookups unpacked at once; "adopted": a database
                  \* without version file was given the version of the package

lookupVars == <<kind, lookup, indexLock, index, unpacked, dbVersion, lapses>>
lookupAndDictionary == <<dictionaryVars, lookupVars>>
tables == <<indexLock, index>>
database == <<unpacked, dbVersion, lapses>>

NoLookup == [pc |-> "idle", seen |-> None, held |-> None]

LookupInit ==
    /\ DictionaryInit
    /\ kind \in Kinds
    /\ lookup = [l \in Lookups |-> NoLookup]
    /\ indexLock = None /\ index = [label |-> None, text |-> None]
    /\ unpacked = [part |-> None, db |-> None, backup |-> None]
    /\ dbVersion = None /\ lapses = {}

LooksOn(l, pc) == lookup' = [lookup EXCEPT ![l].pc = pc]
\* The lookup queries what it has ensured, or fails.
Ends(l) == lookup' = [lookup EXCEPT ![l] = NoLookup]
Unpacking(l) == lookup[l].pc \in {"copy", "swap", "replace", "label"}

\* require_file and package_version.
BeginLookup(l) ==
    /\ lookup[l].pc = "idle" /\ fetcher # "starting" /\ package # None
    /\ lookup' = [lookup EXCEPT ![l] = [pc |-> kind, held |-> None,
                         seen |-> IF version = None THEN Local ELSE version]]
    /\ UNCHANGED <<dictionaryVars, kind, tables, database>>

(***************************************************************************)
(* ensure_index, under its lock.                                           *)
(***************************************************************************)
\* The index is of the version that was read, or the package is opened and parsed.
OpenPackage(l) ==
    /\ lookup[l].pc = "indexed" /\ indexLock = None
    /\ IF index.label = lookup[l].seen \/ package = None
       THEN Ends(l) /\ UNCHANGED indexLock
       ELSE /\ lookup' = [lookup EXCEPT ![l].pc = "index", ![l].held = package]
            /\ indexLock' = l
    /\ UNCHANGED <<dictionaryVars, kind, index, database>>

\* Mutant of ReplaceIndex: the version is read again when the index is written.
LabelsLate(l) ==
    /\ lookup[l].pc = "index"
    /\ index' = [label |-> version, text |-> lookup[l].held]
    /\ indexLock' = None /\ Ends(l)
    /\ UNCHANGED <<dictionaryVars, kind, database>>

\* replace_index and replace_ecdict_index: entries, forms and version in one
\* transaction.
ReplaceIndex(l) ==
    /\ lookup[l].pc = "index"
    /\ index' = [label |-> lookup[l].seen, text |-> lookup[l].held]
    /\ indexLock' = None /\ Ends(l)
    /\ UNCHANGED <<dictionaryVars, kind, database>>

\* A package that cannot be parsed, or an error of the transaction, leaves the index.
IndexFails(l) ==
    /\ lookup[l].pc = "index" /\ Mishap
    /\ indexLock' = None /\ Ends(l)
    /\ UNCHANGED <<disk, entry, fetcher, release, latest, ever, kind, index, database>>

(***************************************************************************)
(* ensure_tomoshi_database, without a lock.                                *)
(***************************************************************************)
UseDatabase(l) ==
    /\ lookup[l].pc = "unpacked"
    /\ LET present == unpacked.db # None IN
       IF present /\ dbVersion = lookup[l].seen
       THEN Ends(l) /\ UNCHANGED <<dbVersion, lapses>>
       ELSE IF present /\ dbVersion = None
       THEN /\ dbVersion' = lookup[l].seen /\ lapses' = lapses \cup {"adopted"}
            /\ Ends(l)
       ELSE LooksOn(l, "unpack") /\ UNCHANGED <<dbVersion, lapses>>
    /\ UNCHANGED <<dictionaryVars, kind, tables, unpacked>>

\* The package is opened and a .part created, over one that is still being written.
CreateDatabase(l) ==
    /\ lookup[l].pc = "unpack"
    /\ IF package = None THEN Ends(l) /\ UNCHANGED <<unpacked, lapses>>
       ELSE IF \E k \in Lookups : Unpacking(k)
       THEN /\ lapses' = lapses \cup {"doubled"}
            /\ lookup' = [k \in Lookups |-> NoLookup]
            /\ UNCHANGED unpacked
       ELSE /\ lookup' = [lookup EXCEPT ![l].pc = "copy", ![l].held = package]
            /\ unpacked' = [unpacked EXCEPT !.part = Torn]
            /\ UNCHANGED lapses
    /\ UNCHANGED <<dictionaryVars, kind, tables, dbVersion>>

CopyEnds(l) ==
    /\ lookup[l].pc = "copy"
    /\ unpacked' = [unpacked EXCEPT !.part = lookup[l].held]
    /\ lookup' = [lookup EXCEPT ![l].pc = "swap", ![l].held = None]
    /\ UNCHANGED <<dictionaryVars, kind, tables, dbVersion, lapses>>

SetDatabaseAside(l) ==
    /\ lookup[l].pc = "swap"
    /\ unpacked' = [unpacked EXCEPT !.backup = unpacked.db, !.db = None]
    /\ LooksOn(l, "replace")
    /\ UNCHANGED <<dictionaryVars, kind, tables, dbVersion, lapses>>

\* When the .part cannot be renamed the backup is renamed back.
ReplaceDatabase(l) ==
    /\ lookup[l].pc = "replace"
    /\ \/ /\ unpacked' = [unpacked EXCEPT !.db = unpacked.part, !.part = None]
          /\ LooksOn(l, "label")
          /\ UNCHANGED mishaps
       \/ /\ Mishap
          /\ unpacked' = [unpacked EXCEPT !.db = unpacked.backup, !.backup = None]
          /\ Ends(l)
    /\ UNCHANGED <<disk, entry, fetcher, release, latest, ever, kind, tables, dbVersion,
                   lapses>>

\* The backup is removed and the version written.
LabelDatabase(l) ==
    /\ lookup[l].pc = "label"
    /\ unpacked' = [unpacked EXCEPT !.backup = None]
    /\ dbVersion' = lookup[l].seen
    /\ Ends(l)
    /\ UNCHANGED <<dictionaryVars, kind, tables, lapses>>

(***************************************************************************)
(* A crash and the start after it.                                         *)
(***************************************************************************)
CrashLookups ==
    /\ CrashDictionary
    /\ lookup' = [l \in Lookups |-> NoLookup] /\ indexLock' = None
    /\ UNCHANGED <<kind, index, database>>

\* cleanup_partial_downloads goes through the files of the database as well.
CleanDatabase ==
    /\ fetcher = "starting"
    /\ unpacked.part # None \/ unpacked.backup # None
    /\ unpacked' = [part |-> None, backup |-> None,
                    db |-> IF unpacked.db # None THEN unpacked.db ELSE unpacked.backup]
    /\ UNCHANGED <<dictionaryVars, kind, lookup, tables, dbVersion, lapses>>

StartListed ==
    /\ ListAtStart
    /\ unpacked.part = None /\ unpacked.backup = None
    /\ UNCHANGED lookupVars

LookupStep(l) ==
    \/ OpenPackage(l) \/ ReplaceIndex(l) \/ IndexFails(l)
    \/ UseDatabase(l) \/ CreateDatabase(l) \/ CopyEnds(l) \/ SetDatabaseAside(l)
    \/ ReplaceDatabase(l) \/ LabelDatabase(l)
LookupNext ==
    \/ (Downloads \/ Cleans) /\ UNCHANGED lookupVars
    \/ \E l \in Lookups : lapses = {} /\ (BeginLookup(l) \/ LookupStep(l))
    \/ CrashLookups \/ CleanDatabase \/ StartListed

LookupSpec == LookupInit /\ [][LookupNext]_lookupAndDictionary

LookupTypeOK ==
    /\ DictionaryTypeOK
    /\ {index.label, index.text, dbVersion} \subseteq Releases \cup {None, Local}
    /\ {unpacked.part, unpacked.db, unpacked.backup} \subseteq Releases \cup {None, Torn}
    /\ indexLock \in Lookups \cup {None}

\* What a lookup takes as current is what is installed: while the version file names
\* the installed package, an index or a database of that version holds that release
\* whole, whatever updates, lookups and crashes came together.  Set apart
\* are databases that two lookups unpacked at once and those without a version file.
LookupIsCurrent ==
    version = package /\ package # None =>
        /\ index.label = version => index.text = package
        /\ dbVersion = version /\ lapses = {} => unpacked.db \in {package, None}

\* Once a dictionary is installed, a verified package stays on the disk, and what is
\* looked up in it is of the installed version.
DictionaryHonest == DictionarySurvives /\ LookupIsCurrent
=============================================================================
