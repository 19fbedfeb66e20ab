---------------------------- MODULE DesktopSettings ----------------------------
(***************************************************************************)
(* The configuration of one cloud translation provider, its credential in  *)
(* the system's store with the cache before it, the provider in use, and   *)
(* the result of the connection test: desktop_settings.rs with             *)
(* test_translation_connection of main.rs.                                 *)
(*                                                                         *)
(* A profile stands for the rows of a provider: model, address, style and  *)
(* proxy.  They are written and read one by one; here in one step.         *)
(***************************************************************************)
EXTENDS Naturals

CONSTANTS
    None,
    Profiles,      \* configurations a user saves
    Keys,          \* API keys a user types
    Environment,   \* the key of the environment, or None
    MaxChanges     \* bound: saves, tests, checks and crashes

VARIABLES
    saved,         \* the rows of the provider
    keychain,      \* the secret in the system's credential store, or None
    cached,        \* credential_cache: [loaded, secret]
    marker,        \* the row that says that a key is saved
    revision,      \* credential_revision, a fresh value each time
    active,        \* the profile of the provider installed by replace_provider
    saving,        \* save and save_translation_credential: [pc, profile, key]
    checking,      \* check_translation_api_key: [pc, secret]
    testing,       \* the connection test: [pc, print, profile, key, ok]
    refreshing,    \* refresh_active_provider: [pc, profile]
    validation,    \* the row of the last test: [print, ok, profile, key]
    lapses,        \* how the stored key got away from its revision
    changes

settingsVars == <<saved, keychain, cached, marker, revision, active, saving, checking,
                  testing, refreshing, validation, lapses, changes>>

First == CHOOSE p \in Profiles : TRUE
Unloaded == [loaded |-> FALSE, secret |-> None]
Loaded(secret) == [loaded |-> TRUE, secret |-> secret]
NoSave == [pc |-> "idle", profile |-> None, key |-> None]
NoCheck == [pc |-> "idle", secret |-> None]
NoTest == [pc |-> "idle", print |-> None, profile |-> None, key |-> None, ok |-> FALSE]
NoRefresh == [pc |-> "idle", profile |-> None]

SettingsInit ==
    /\ saved = First /\ keychain = None /\ cached = Unloaded /\ marker = FALSE
    /\ revision = 0 /\ active = First
    /\ saving = NoSave /\ checking = NoCheck /\ testing = NoTest /\ refreshing = NoRefresh
    /\ validation = None /\ lapses = {} /\ changes = MaxChanges

Change == changes > 0 /\ changes' = changes - 1

\* translation_validation_fingerprint: the rows and the revision of the credential.
Fingerprint == [profile |-> saved, revision |-> revision]
\* The key a process that reads the store anew translates with.
StoredKey == IF keychain # None THEN keychain ELSE Environment

(***************************************************************************)
(* Saving.                                                                 *)
(***************************************************************************)
\* save with a new profile, a new key, neither or both; "clear" removes the key.
Save(profile, key) ==
    /\ saving.pc = "idle" /\ Change
    /\ saving' = [pc |-> "profile", profile |-> profile, key |-> key]
    /\ UNCHANGED <<saved, keychain, cached, marker, revision, active, checking, testing,
                   refreshing, validation, lapses>>

SaveProfile ==
    /\ saving.pc = "profile"
    /\ saved' = saving.profile
    /\ saving' = [saving EXCEPT !.pc = IF saving.key = None THEN "provider" ELSE "keychain"]
    /\ UNCHANGED <<keychain, cached, marker, revision, active, checking, testing,
                   refreshing, validation, lapses, changes>>

\* The store is set or cleared, or refuses.
SetKeychain ==
    /\ saving.pc = "keychain"
    /\ \/ /\ keychain' = IF saving.key = "clear" THEN None ELSE saving.key
          /\ saving' = [saving EXCEPT !.pc = "cache"]
          /\ UNCHANGED changes
       \/ saving' = NoSave /\ Change /\ UNCHANGED keychain
    /\ UNCHANGED <<saved, cached, marker, revision, active, checking, testing, refreshing,
                   validation, lapses>>

SetCache ==
    /\ saving.pc = "cache"
    /\ cached' = Loaded(keychain)
    /\ saving' = [saving EXCEPT !.pc = "marker"]
    /\ UNCHANGED <<saved, keychain, marker, revision, active, checking, testing,
                   refreshing, validation, lapses, changes>>

SetMarker ==
    /\ saving.pc = "marker"
    /\ marker' = (saving.key # "clear")
    /\ saving' = [saving EXCEPT !.pc = "revision"]
    /\ UNCHANGED <<saved, keychain, cached, revision, active, checking, testing,
                   refreshing, validation, lapses, changes>>

SetRevision ==
    /\ saving.pc = "revision"
    /\ revision' = revision + 1
    /\ saving' = [saving EXCEPT !.pc = "provider"]
    /\ lapses' = lapses \ {"cut"}
    /\ UNCHANGED <<saved, keychain, cached, marker, active, checking, testing, refreshing,
                   validation, changes>>

\* replace_provider, with the profile of the request.
SaveReturns ==
    /\ saving.pc = "provider"
    /\ active' = saving.profile
    /\ saving' = NoSave
    /\ UNCHANGED <<saved, keychain, cached, marker, revision, checking, testing,
                   refreshing, validation, lapses, changes>>

\* An error of the database: the rest of the save is left out.
Unrevised == saving.pc \in {"cache", "marker", "revision"}
SaveErrs ==
    /\ saving.pc \in {"profile", "marker", "revision"} /\ Change
    /\ saving' = NoSave
    /\ lapses' = lapses \cup IF Unrevised THEN {"cut"} ELSE {}
    /\ UNCHANGED <<saved, keychain, cached, marker, revision, active, checking, testing,
                   refreshing, validation>>

(***************************************************************************)
(* The explicit check of a key, and the provider that a model brings.      *)
(***************************************************************************)
CheckKey ==
    /\ checking.pc = "idle" /\ Change
    /\ checking' = [pc |-> "cache", secret |-> keychain]
    /\ UNCHANGED <<saved, keychain, cached, marker, revision, active, saving, testing,
                   refreshing, validation, lapses>>

\* The user may refuse the access: nothing is known of the key then.
CheckCaches(granted) ==
    /\ checking.pc = "cache"
    /\ cached' = Loaded(IF granted THEN checking.secret ELSE None)
    /\ checking' = IF granted THEN [checking EXCEPT !.pc = "marker"] ELSE NoCheck
    /\ lapses' = lapses \cup IF cached'.secret # keychain THEN {"stale"} ELSE {}
    /\ UNCHANGED <<saved, keychain, marker, revision, active, saving, testing, refreshing,
                   validation, changes>>

CheckMarks ==
    /\ checking.pc = "marker"
    /\ marker' = (checking.secret # None)
    /\ checking' = NoCheck
    /\ UNCHANGED <<saved, keychain, cached, revision, active, saving, testing, refreshing,
                   validation, lapses, changes>>

\* A local model was installed or removed: the provider in use is made again from
\* the rows.
Refresh ==
    /\ refreshing.pc = "idle" /\ Change
    /\ refreshing' = [pc |-> "replace", profile |-> saved]
    /\ UNCHANGED <<saved, keychain, cached, marker, revision, active, saving, checking,
                   testing, validation, lapses>>

RefreshReplaces ==
    /\ refreshing.pc = "replace"
    /\ active' = refreshing.profile
    /\ refreshing' = NoRefresh
    /\ UNCHANGED <<saved, keychain, cached, marker, revision, saving, checking, testing,
                   validation, lapses, changes>>

(***************************************************************************)
(* The connection test.                                                    *)
(***************************************************************************)
TestConnection ==
    /\ testing.pc = "idle" /\ Change
    /\ testing' = [NoTest EXCEPT !.pc = "profile", !.print = Fingerprint]
    /\ UNCHANGED <<saved, keychain, cached, marker, revision, active, saving, checking,
                   refreshing, validation, lapses>>

TestBuilds ==
    /\ testing.pc = "profile"
    /\ testing' = [testing EXCEPT !.pc = "key", !.profile = saved]
    /\ UNCHANGED <<saved, keychain, cached, marker, revision, active, saving, checking,
                   refreshing, validation, lapses, changes>>

\* cached_provider_key: the first use in a process reads the store, which may
\* refuse; the environment stands in for a key that is not there.
TestResolves(granted) ==
    /\ testing.pc = "key"
    /\ cached' = IF cached.loaded THEN cached ELSE Loaded(IF granted THEN keychain ELSE None)
    /\ lapses' = lapses \cup
          IF ~cached.loaded /\ cached'.secret # keychain THEN {"stale"} ELSE {}
    /\ testing' = [testing EXCEPT !.pc = "answer",
                      !.key = IF cached'.secret # None THEN cached'.secret ELSE Environment]
    /\ UNCHANGED <<saved, keychain, marker, revision, active, saving, checking, refreshing,
                   validation, changes>>

TestAnswered(ok) ==
    /\ testing.pc = "answer"
    /\ ok => testing.key # None
    /\ testing' = [testing EXCEPT !.pc = "record", !.ok = ok]
    /\ UNCHANGED <<saved, keychain, cached, marker, revision, active, saving, checking,
                   refreshing, validation, lapses, changes>>

Recorded(print) == [print |-> print, ok |-> testing.ok, profile |-> testing.profile,
                    key |-> testing.key]

\* Mutant of TestRecords: the fingerprint is taken when the test is over.
FingerprintAtRecord ==
    /\ testing.pc = "record"
    /\ validation' = Recorded(Fingerprint)
    /\ testing' = NoTest
    /\ UNCHANGED <<saved, keychain, cached, marker, revision, active, saving, checking,
                   refreshing, lapses, changes>>

TestRecords ==
    /\ testing.pc = "record"
    /\ validation' = Recorded(testing.print)
    /\ testing' = NoTest
    /\ UNCHANGED <<saved, keychain, cached, marker, revision, active, saving, checking,
                   refreshing, lapses, changes>>

CrashSettings ==
    /\ Change
    /\ lapses' = lapses \cup IF Unrevised THEN {"cut"} ELSE {}
    /\ cached' = Unloaded /\ active' = saved
    /\ saving' = NoSave /\ checking' = NoCheck /\ testing' = NoTest
    /\ refreshing' = NoRefresh
    /\ UNCHANGED <<saved, keychain, marker, revision, validation>>

SettingsNext ==
    \/ \E p \in Profiles, k \in Keys \cup {None, "clear"} : Save(p, k)
    \/ SaveProfile \/ SetKeychain \/ SetCache \/ SetMarker \/ SetRevision \/ SaveReturns
    \/ SaveErrs
    \/ CheckKey \/ CheckMarks \/ Refresh \/ RefreshReplaces
    \/ \E yes \in BOOLEAN : CheckCaches(yes) \/ TestResolves(yes) \/ TestAnswered(yes)
    \/ TestConnection \/ TestBuilds \/ TestRecords
    \/ CrashSettings

SettingsSpec == SettingsInit /\ [][SettingsNext]_settingsVars

(***************************************************************************)
(* Properties.                                                             *)
(***************************************************************************)
\* translation_readiness, read from the rows alone.
Readiness ==
    IF ~marker /\ Environment = None THEN "unconfigured"
    ELSE IF validation = None THEN "unverified"
    ELSE IF validation.print # Fingerprint THEN "unverified"
    ELSE IF validation.ok THEN "verified" ELSE "validation_failed"

SettingsTypeOK ==
    /\ {saved, active} \subseteq Profiles /\ {keychain, cached.secret} \subseteq Keys \cup {None}
    /\ lapses \subseteq {"cut", "stale"}
    /\ revision <= MaxChanges

\* A provider is shown as verified only while the store holds the key that a
\* successful test has translated with, however the test, saves, checks and crashes
\* fall.  Set apart are the moments of a key change itself and two lapses: a key
\* change cut off before its revision, and a cache that a late or refused reading
\* of the store has left with another key than the store's.
VerifiedWasTested ==
    Readiness = "verified" /\ ~Unrevised /\ lapses = {} => validation.key = StoredKey
=============================================================================
