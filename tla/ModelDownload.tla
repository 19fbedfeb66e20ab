---------------------------- MODULE ModelDownload ----------------------------
(***************************************************************************)
(* The managed models of model_download.rs: one download at a time, which  *)
(* may be cancelled, resumed from its .part file, taken from a mirror or   *)
(* from the official source, and installed, selected and uninstalled.      *)
(*                                                                         *)
(* A file is a pair [len, good]: how many of Size pieces it has and        *)
(* whether they are the pieces of the model.  Only good files of full      *)
(* length have the SHA-256 of the catalog.                                 *)
(***************************************************************************)
EXTENDS Naturals, Sequences

CONSTANTS
    None,
    Models,         \* models of one kind, which share one setting
    Size,           \* pieces of a model
    Mirror,         \* whether a mirror is configured, asked before the official source
    MaxSetbacks     \* bound: crashes, cancellations, errors and wrong answers

VARIABLES
    installed,      \* the file in the models directory, or None
    part,           \* the .part file, or None
    chosen,         \* the setting with the path of the model in use, or None
    listed,         \* status in the states map
    cancellation,   \* the cancellations map: "none", "set" or "clear"
    fetch,          \* the download of a model: [pc, source, hash]
    removing,       \* where uninstall is with a model
    selecting,      \* where select is with a model
    doubled,        \* models a second download of which was let in: see Reserve
    setbacks

modelVars == <<installed, part, chosen, listed, cancellation, fetch, removing, selecting,
               doubled, setbacks>>

Statuses == {"none", "queued", "downloading", "cancelling", "cancelled", "failed", "done"}
Busy == {"queued", "downloading", "cancelling"}
Empty == [len |-> 0, good |-> TRUE]
Whole(file) == file.len = Size /\ file.good
Sources == IF Mirror THEN <<"mirror", "official">> ELSE <<"official">>
Resting == [pc |-> "idle", source |-> 1, hash |-> Empty]

ModelInit ==
    /\ installed = [m \in Models |-> None] /\ part = [m \in Models |-> None]
    /\ chosen = None
    /\ listed = [m \in Models |-> "none"]
    /\ cancellation = [m \in Models |-> "none"]
    /\ fetch = [m \in Models |-> Resting]
    /\ removing = [m \in Models |-> "idle"] /\ selecting = [m \in Models |-> "idle"]
    /\ doubled = {} /\ setbacks = MaxSetbacks

Setback == setbacks > 0 /\ setbacks' = setbacks - 1
Lists(m, status) == IF listed[m] = "none" THEN UNCHANGED listed
                    ELSE listed' = [listed EXCEPT ![m] = status]
Fetches(m, pc) == fetch' = [fetch EXCEPT ![m].pc = pc]
Cancelled(m) == cancellation[m] = "set"

\* A file the user puts into the directory by hand, while nothing runs for its model.
PlaceFile(m) ==
    /\ Setback
    /\ installed[m] = None /\ chosen # m /\ fetch[m].pc = "idle"
    /\ removing[m] = "idle" /\ selecting[m] = "idle"
    /\ installed' = [installed EXCEPT ![m] = [len |-> Size, good |-> FALSE]]
    /\ UNCHANGED <<part, chosen, listed, cancellation, fetch, removing, selecting, doubled>>

(***************************************************************************)
(* Start and the spawned download.                                         *)
(***************************************************************************)
\* The states map admits one active download.  A second one of the same model gets
\* in before the first has left the cancellations map, or when an uninstall that
\* checked that map before removes its entry: the two then share a part, and the
\* model is not followed any further.
Reserve(m) ==
    /\ \A n \in Models : listed[n] \notin Busy
    /\ m \notin doubled
    /\ IF fetch[m].pc = "idle"
       THEN /\ listed' = [listed EXCEPT ![m] = "queued"]
            /\ Fetches(m, "reserved")
            /\ UNCHANGED doubled
       ELSE doubled' = doubled \cup {m} /\ UNCHANGED <<listed, fetch>>
    /\ UNCHANGED <<installed, part, chosen, cancellation, removing, selecting, setbacks>>

Spawn(m) ==
    /\ fetch[m].pc = "reserved"
    /\ cancellation' = [cancellation EXCEPT ![m] = "clear"]
    /\ fetch' = [fetch EXCEPT ![m] = [Resting EXCEPT !.pc = "present"]]
    /\ UNCHANGED <<installed, part, chosen, listed, removing, selecting, doubled, setbacks>>

\* A file that is there already is verified and used, or removed.
UsePresent(m) ==
    /\ fetch[m].pc = "present"
    /\ IF installed[m] # None /\ Whole(installed[m])
       THEN Fetches(m, "choose") /\ UNCHANGED <<installed, listed>>
       ELSE /\ Fetches(m, "source")
            /\ installed' = [installed EXCEPT ![m] = None]
            /\ Lists(m, "downloading")
    /\ UNCHANGED <<part, chosen, cancellation, removing, selecting, doubled, setbacks>>

\* A source failed: the next one is asked, and after the last one the download fails.
NextSource(m) ==
    LET f == fetch[m] IN
    fetch' = [fetch EXCEPT ![m] =
        IF f.source < Len(Sources) THEN [f EXCEPT !.source = f.source + 1, !.pc = "source"]
                                   ELSE [f EXCEPT !.pc = "failed"]]

TrySource(m) ==
    /\ fetch[m].pc = "source"
    /\ Fetches(m, IF Cancelled(m) THEN "failed" ELSE "request")
    /\ UNCHANGED <<installed, part, chosen, listed, cancellation, removing, selecting,
                   doubled, setbacks>>

\* 206 resumes the part, and the hash starts from what it holds.
Resumes(m) ==
    /\ fetch[m].pc = "request" /\ part[m] # None /\ part[m].len \in 1..(Size - 1)
    /\ fetch' = [fetch EXCEPT ![m].pc = "stream", ![m].hash = part[m]]
    /\ UNCHANGED <<installed, part, chosen, listed, cancellation, removing, selecting,
                   doubled, setbacks>>

\* 200 writes it from the start, also where a part exists.
Restarts(m) ==
    /\ fetch[m].pc = "request"
    /\ IF part[m] # None /\ part[m].len > 0 THEN Setback ELSE UNCHANGED setbacks
    /\ part' = [part EXCEPT ![m] = Empty]
    /\ fetch' = [fetch EXCEPT ![m].pc = "stream", ![m].hash = Empty]
    /\ UNCHANGED <<installed, chosen, listed, cancellation, removing, selecting, doubled>>

\* Mutant of RangeRefused: a part that cannot be resumed counts as complete.
RangeRefusedInstalls(m) ==
    /\ fetch[m].pc = "request" /\ part[m] # None /\ part[m].len > 0
    /\ Fetches(m, "install")
    /\ UNCHANGED <<installed, part, chosen, listed, cancellation, removing, selecting,
                   doubled, setbacks>>

\* 416: a part that is the whole model is installed, any other one discarded.
RangeRefused(m) ==
    /\ fetch[m].pc = "request" /\ part[m] # None /\ part[m].len > 0
    /\ IF Whole(part[m])
       THEN Fetches(m, "install") /\ UNCHANGED part
       ELSE part' = [part EXCEPT ![m] = None] /\ NextSource(m)
    /\ UNCHANGED <<installed, chosen, listed, cancellation, removing, selecting, doubled,
                   setbacks>>

\* No connection, an error status, or a Content-Range that does not fit the part.
RequestFails(m) ==
    /\ fetch[m].pc = "request" /\ Setback
    /\ NextSource(m)
    /\ UNCHANGED <<installed, part, chosen, listed, cancellation, removing, selecting,
                   doubled>>

\* One piece; a mirror may serve another file.  A part removed meanwhile by an
\* uninstall is written without a name.
Receive(m, good) ==
    /\ fetch[m].pc = "stream" /\ fetch[m].hash.len < Size
    /\ \/ good
       \/ Sources[fetch[m].source] = "mirror" /\ setbacks > 0
    /\ setbacks' = IF good THEN setbacks ELSE setbacks - 1
    /\ IF Cancelled(m) THEN NextSource(m) /\ UNCHANGED part
       ELSE /\ fetch' = [fetch EXCEPT ![m].hash =
                            [len |-> @.len + 1, good |-> @.good /\ good]]
            /\ part' = [part EXCEPT ![m] = IF @ = None THEN None ELSE
                            [len |-> @.len + 1, good |-> @.good /\ good]]
    /\ UNCHANGED <<installed, chosen, listed, cancellation, removing, selecting, doubled>>

\* The stream ends, with the digest of the model or not.
StreamEnds(m) ==
    /\ fetch[m].pc = "stream" /\ fetch[m].hash.len > 0
    /\ IF fetch[m].hash.len = Size THEN UNCHANGED setbacks ELSE Setback
    /\ Fetches(m, IF Whole(fetch[m].hash) THEN "verified" ELSE "corrupt")
    /\ UNCHANGED <<installed, part, chosen, listed, cancellation, removing, selecting,
                   doubled>>

\* The connection breaks, or the answer is empty: the part stays.
StreamBreaks(m) ==
    /\ fetch[m].pc = "stream" /\ Setback
    /\ NextSource(m)
    /\ UNCHANGED <<installed, part, chosen, listed, cancellation, removing, selecting,
                   doubled>>

DiscardCorrupt(m) ==
    /\ fetch[m].pc = "corrupt"
    /\ part' = [part EXCEPT ![m] = None]
    /\ NextSource(m)
    /\ UNCHANGED <<installed, chosen, listed, cancellation, removing, selecting, doubled,
                   setbacks>>

LastCancelCheck(m) ==
    /\ fetch[m].pc = "verified"
    /\ IF Cancelled(m) THEN NextSource(m) ELSE Fetches(m, "install")
    /\ UNCHANGED <<installed, part, chosen, listed, cancellation, removing, selecting,
                   doubled, setbacks>>

\* The rename fails where an uninstall has removed the part.
InstallPart(m) ==
    /\ fetch[m].pc = "install"
    /\ IF part[m] = None THEN NextSource(m) /\ UNCHANGED <<installed, part>>
       ELSE /\ installed' = [installed EXCEPT ![m] = part[m]]
            /\ part' = [part EXCEPT ![m] = None]
            /\ Fetches(m, "choose")
    /\ UNCHANGED <<chosen, listed, cancellation, removing, selecting, doubled, setbacks>>

ChooseInstalled(m) ==
    /\ fetch[m].pc = "choose"
    /\ chosen' = m
    /\ Fetches(m, "done")
    /\ UNCHANGED <<installed, part, listed, cancellation, removing, selecting, doubled,
                   setbacks>>

ListDone(m) ==
    /\ fetch[m].pc = "done"
    /\ Lists(m, "done") /\ Fetches(m, "leaving")
    /\ UNCHANGED <<installed, part, chosen, cancellation, removing, selecting, doubled,
                   setbacks>>

ListFailed(m) ==
    /\ fetch[m].pc = "failed"
    /\ Lists(m, IF Cancelled(m) THEN "cancelled" ELSE "failed")
    /\ Fetches(m, "leaving")
    /\ UNCHANGED <<installed, part, chosen, cancellation, removing, selecting, doubled,
                   setbacks>>

Leave(m) ==
    /\ fetch[m].pc = "leaving"
    /\ cancellation' = [cancellation EXCEPT ![m] = "none"]
    /\ fetch' = [fetch EXCEPT ![m] = Resting]
    /\ UNCHANGED <<installed, part, chosen, listed, removing, selecting, doubled, setbacks>>

(***************************************************************************)
(* Commands that come meanwhile.                                           *)
(***************************************************************************)
CancelDownload(m) ==
    /\ cancellation[m] # "none" /\ Setback
    /\ cancellation' = [cancellation EXCEPT ![m] = "set"]
    /\ Lists(m, "cancelling")
    /\ UNCHANGED <<installed, part, chosen, fetch, removing, selecting, doubled>>

Uninstall(m) ==
    /\ removing[m] = "idle" /\ cancellation[m] = "none"
    /\ installed[m] # None \/ part[m] # None
    /\ removing' = [removing EXCEPT ![m] = "file"]
    /\ UNCHANGED <<installed, part, chosen, listed, cancellation, fetch, selecting, doubled,
                   setbacks>>

RemoveFile(m) ==
    /\ removing[m] = "file"
    /\ installed' = [installed EXCEPT ![m] = None]
    /\ removing' = [removing EXCEPT ![m] = "part"]
    /\ UNCHANGED <<part, chosen, listed, cancellation, fetch, selecting, doubled, setbacks>>

RemovePart(m) ==
    /\ removing[m] = "part"
    /\ part' = [part EXCEPT ![m] = None]
    /\ removing' = [removing EXCEPT ![m] = "setting"]
    /\ UNCHANGED <<installed, chosen, listed, cancellation, fetch, selecting, doubled,
                   setbacks>>

ClearSetting(m) ==
    /\ removing[m] = "setting"
    /\ chosen' = IF chosen = m THEN None ELSE chosen
    /\ removing' = [removing EXCEPT ![m] = "entry"]
    /\ UNCHANGED <<installed, part, listed, cancellation, fetch, selecting, doubled,
                   setbacks>>

RemoveEntry(m) ==
    /\ removing[m] = "entry"
    /\ listed' = [listed EXCEPT ![m] = "none"]
    /\ removing' = [removing EXCEPT ![m] = "idle"]
    /\ UNCHANGED <<installed, part, chosen, cancellation, fetch, selecting, doubled,
                   setbacks>>

SelectModel(m) ==
    /\ selecting[m] = "idle" /\ installed[m] # None /\ Whole(installed[m])
    /\ selecting' = [selecting EXCEPT ![m] = "verified"]
    /\ UNCHANGED <<installed, part, chosen, listed, cancellation, fetch, removing, doubled,
                   setbacks>>

SaveSelection(m) ==
    /\ selecting[m] = "verified"
    /\ chosen' = m
    /\ selecting' = [selecting EXCEPT ![m] = "idle"]
    /\ UNCHANGED <<installed, part, listed, cancellation, fetch, removing, doubled, setbacks>>

\* The maps are lost; the files and the setting stay.
CrashDownloads ==
    /\ Setback
    /\ listed' = [m \in Models |-> "none"]
    /\ cancellation' = [m \in Models |-> "none"]
    /\ fetch' = [m \in Models |-> Resting]
    /\ removing' = [m \in Models |-> "idle"] /\ selecting' = [m \in Models |-> "idle"]
    /\ UNCHANGED <<installed, part, chosen, doubled>>

DownloadStep(m) ==
    \/ Spawn(m) \/ UsePresent(m) \/ TrySource(m) \/ Resumes(m) \/ Restarts(m)
    \/ RangeRefused(m) \/ RequestFails(m) \/ StreamEnds(m) \/ StreamBreaks(m)
    \/ DiscardCorrupt(m) \/ LastCancelCheck(m) \/ InstallPart(m) \/ ChooseInstalled(m) \/ ListDone(m)
    \/ ListFailed(m) \/ Leave(m)
    \/ \E good \in BOOLEAN : Receive(m, good)
UninstallStep(m) ==
    RemoveFile(m) \/ RemovePart(m) \/ ClearSetting(m) \/ RemoveEntry(m)

ModelNext ==
    \/ \E m \in Models \ doubled :
         \/ Reserve(m) \/ DownloadStep(m) \/ CancelDownload(m) \/ PlaceFile(m)
         \/ Uninstall(m) \/ UninstallStep(m) \/ SelectModel(m) \/ SaveSelection(m)
    \/ CrashDownloads

ModelSpec == ModelInit /\ [][ModelNext]_modelVars

ModelTypeOK ==
    /\ \A m \in Models : listed[m] \in Statuses /\ cancellation[m] \in {"none", "set", "clear"}
    /\ chosen \in Models \cup {None}
    /\ \A m \in Models : fetch[m].source \in DOMAIN Sources /\ fetch[m].hash.len \in 0..Size
    /\ doubled \subseteq Models

\* The model in use, where its file exists, is the file the catalog names:
\* through every source, resumption, cancellation, crash and uninstall.
ChosenIsVerified ==
    \A m \in Models \ doubled :
        chosen = m /\ installed[m] # None => Whole(installed[m])
=============================================================================
