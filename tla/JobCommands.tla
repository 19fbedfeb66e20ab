----------------------------- MODULE JobCommands -----------------------------
(***************************************************************************)
(* The commands of the command line on one job directory: each is a        *)
(* sequence of steps of JobRunner, that reads or makes the segments, marks *)
(* the manifest and writes the subtitle files, and that may fail or be     *)
(* killed at any of them.  Commands come one after the other, and between  *)
(* them the desktop may recover a job that was left unfinished.            *)
(*                                                                         *)
(* Segments are [text, translation]: numbers of what a recognition, a      *)
(* correction or a translation made, translation 0 for none.  A file holds *)
(* the segments it was written from, or Torn when its writing was cut.     *)
(***************************************************************************)
EXTENDS Naturals, Sequences, Functions

CONSTANTS
    None, Torn,
    CommandNames, \* the commands given
    MaxTime,      \* bound of the clock
    MaxCommands   \* bound of the commands

VARIABLES
    segments,     \* segments.json, or None
    files,        \* the subtitle files and the rendered video
    manifest,     \* status.json, or None
    command,      \* [name, todo, held, manifest] of the running command, or None
    now,          \* the clock
    made,         \* number of the last text or translation
    commands,     \* commands so far
    worked,       \* ghost: time spent in a processing status of a running command
    lastSeen,     \* ghost: when a command was last running
    lapses        \* ghost: "idle": a command went on with the clock of a killed one;
                  \* "stale": a command left files as they were that disagree with its
                  \* segments

jobVars == <<segments, files, manifest, command, now, made, commands, worked, lastSeen,
             lapses>>
ghosts == <<worked, lastSeen, lapses>>

Outputs == {"source", "translated", "bilingual", "ass"}
Statuses == {"created", "extracting_audio", "transcribing", "refining_segments",
             "translating", "exporting_subtitles", "rendering_video", "done"}
Processing == Statuses \ {"created", "done"}

NewManifest == [status |-> "created", stage |-> None, elapsed |-> 0, active |-> None,
                started |-> None, completed |-> None, output |-> FALSE]

\* A new directory, or one of a translated job.
Translated1 == [text |-> 1, translation |-> 1]
JobInit ==
    /\ \/ /\ segments = None /\ manifest = None /\ made = 0
          /\ files = [f \in Outputs \cup {"video"} |-> None]
       \/ /\ segments = Translated1 /\ made = 1
          /\ files = [f \in Outputs \cup {"video"} |->
                        IF f = "video" THEN None ELSE Translated1]
          /\ manifest = [NewManifest EXCEPT !.status = "done", !.started = 0, !.completed = 0]
    /\ command = None /\ now = 0 /\ commands = 0
    /\ worked = 0 /\ lastSeen = 0 /\ lapses = {}

(***************************************************************************)
(* The steps of each command.                                              *)
(***************************************************************************)
Recognition == <<"created", "extracting_audio", "audio", "transcribing", "recognise",
                 "refining_segments">>
Translated == <<"translated", "bilingual", "ass">>
Rendering == <<"rendering_video", "burn">>
ProcessEnd == <<"segments", "done">>
Processed == Recognition \o <<"exporting_subtitles", "source">>
WithKey == Processed \o <<"translating", "translate", "exporting_subtitles">> \o Translated

Steps(name) ==
    CASE name = "transcribe" ->
            Recognition \o <<"segments", "exporting_subtitles", "source", "done">>
      [] name = "process without a key" -> Processed \o ProcessEnd
      [] name = "process" -> WithKey \o ProcessEnd
      [] name = "process and render" -> WithKey \o Rendering \o ProcessEnd
      [] name = "translate" -> <<"read", "translating", "translate", "segments",
                                 "exporting_subtitles">> \o Translated \o <<"done">>
      [] name = "apply glossary" -> <<"read", "refining_segments", "correct", "segments",
                                 "exporting_subtitles", "source">> \o Translated \o <<"done">>
      [] name = "export" -> <<"read", "exporting_subtitles", "source">> \o Translated
                                 \o <<"done">>
      [] name \in {"render", "rerender"} -> Rendering \o <<"done">>
Recognises(name) == Head(Steps(name)) = "created"

(***************************************************************************)
(* The manifest and its clock.                                             *)
(***************************************************************************)
\* Mutant of Settled: the start of the interval is not taken out.
SettledTwice(m) ==
    [m EXCEPT !.elapsed = m.elapsed + (IF m.started = None THEN 0 ELSE now - m.started),
              !.active = None]

\* settle_processing_time.
Settled(m) ==
    [m EXCEPT !.elapsed = m.elapsed + (IF m.active = None THEN 0 ELSE now - m.active),
              !.active = None]

Marked(m, status) ==
    LET processing == status \in Processing IN
    [Settled(m) EXCEPT
        !.active = IF processing THEN now ELSE None,
        !.started = IF processing /\ m.started = None THEN now ELSE m.started,
        !.completed = IF status = "done" THEN now ELSE None,
        !.status = status, !.stage = None]

FailedAt(m, time) ==
    [m EXCEPT
        !.elapsed = m.elapsed + (IF m.active # None /\ time > m.active
                                 THEN time - m.active ELSE 0),
        !.active = None, !.completed = time,
        !.stage = IF m.status = "failed" THEN m.stage ELSE m.status,
        !.status = "failed"]

\* The segments that a file was written from, as far as the file shows them.
Shows(f, s, written) ==
    /\ written \notin {None, Torn} /\ s # None
    /\ f \in {"source", "bilingual", "ass"} => written.text = s.text
    /\ f \in Outputs \ {"source"} => written.translation = s.translation
Agree == \A f \in Outputs : Shows(f, segments, files[f])

\* Files that the command does not write, and that do not show what it will mark as done.
LeavesStale(name) ==
    \E f \in Outputs \ Range(Steps(name)) :
        IF Recognises(name) THEN files[f] # None ELSE ~Shows(f, segments, files[f])

\* A new transcript may come into the directory of an old one.
StartCommand(name) ==
    /\ command = None /\ commands < MaxCommands
    /\ name = "rerender" => manifest # None /\ manifest.output
    /\ LET m == IF manifest = None THEN NewManifest ELSE manifest
           output == CASE name = "process and render" -> TRUE
                       [] name \in {"render", "rerender"} -> TRUE
                       [] Recognises(name) /\ name # "process and render" -> FALSE
                       [] OTHER -> m.output IN
       command' = [name |-> name, todo |-> Steps(name), held |-> None,
                   manifest |-> [m EXCEPT !.output = output]]
    /\ commands' = commands + 1
    /\ lapses' = lapses
         \cup (IF manifest # None /\ manifest.active # None THEN {"idle"} ELSE {})
         \cup (IF LeavesStale(name) THEN {"stale"} ELSE {})
    /\ UNCHANGED <<segments, files, manifest, now, made, worked, lastSeen>>

Doing(steps) == command # None /\ command.todo # <<>> /\ Head(command.todo) \in steps
GoesOn(change) == command' = [change EXCEPT !.todo = Tail(change.todo)]

Mark ==
    /\ Doing(Statuses)
    /\ LET m == Marked(command.manifest, Head(command.todo)) IN
       /\ manifest' = m
       /\ GoesOn([command EXCEPT !.manifest = m])
       /\ lapses' = IF m.status = "done" /\ Outputs \subseteq Range(Steps(command.name))
                    THEN lapses \ {"stale"} ELSE lapses
    /\ UNCHANGED <<segments, files, now, made, commands, worked, lastSeen>>

ReadSegments ==
    /\ Doing({"read"}) /\ segments # None
    /\ GoesOn([command EXCEPT !.held = segments])
    /\ UNCHANGED <<segments, files, manifest, now, made, commands, ghosts>>

PrepareAudio ==
    /\ Doing({"audio"}) /\ GoesOn(command)
    /\ UNCHANGED <<segments, files, manifest, now, made, commands, ghosts>>

\* A correction clears the translation of the texts it changes, or keeps it when told to.
MakeText ==
    /\ Doing({"recognise", "correct", "translate"})
    /\ made' = made + 1
    /\ LET step == Head(command.todo)
           new == [text |-> made', translation |-> 0] IN
       \E s \in CASE step = "recognise" -> {new}
                  [] step = "translate" -> {[command.held EXCEPT !.translation = made']}
                  [] step = "correct" ->
                        {command.held, [command.held EXCEPT !.text = made'], new} :
          GoesOn([command EXCEPT !.held = s])
    /\ UNCHANGED <<segments, files, manifest, now, commands, ghosts>>

WriteSegments ==
    /\ Doing({"segments"})
    /\ segments' = command.held /\ GoesOn(command)
    /\ UNCHANGED <<files, manifest, now, made, commands, ghosts>>

WriteFile ==
    /\ Doing(Outputs)
    /\ files' = [files EXCEPT ![Head(command.todo)] = command.held] /\ GoesOn(command)
    /\ UNCHANGED <<segments, manifest, now, made, commands, ghosts>>

Burn ==
    /\ Doing({"burn"}) /\ files["ass"] # None
    /\ files' = [files EXCEPT !["video"] = files["ass"]] /\ GoesOn(command)
    /\ UNCHANGED <<segments, manifest, now, made, commands, ghosts>>

Returns ==
    /\ command # None /\ command.todo = <<>>
    /\ command' = None
    /\ UNCHANGED <<segments, files, manifest, now, made, commands, ghosts>>

\* A file may be cut when its writing fails or is killed.
MayTear ==
    files' \in {files} \cup
        (IF Doing(Outputs) THEN {[files EXCEPT ![Head(command.todo)] = Torn]} ELSE {})

\* finish: the manifest is marked as failed, as far as it can be written.
Fails ==
    /\ command # None /\ command.todo # <<>>
    /\ LET failing == IF Doing(Statuses) THEN Marked(command.manifest, Head(command.todo))
                                         ELSE command.manifest IN
       manifest' \in {manifest, FailedAt(failing, now)}
    /\ command' = None /\ MayTear
    /\ lapses' = IF manifest' # None /\ manifest'.active # None
                 THEN lapses \cup {"idle"} ELSE lapses
    /\ UNCHANGED <<segments, now, made, commands, worked, lastSeen>>

Killed ==
    /\ command # None
    /\ command' = None /\ MayTear
    /\ UNCHANGED <<segments, manifest, now, made, commands, ghosts>>

\* The desktop's start: the job failed when its process was last seen.
FailInterrupted ==
    /\ command = None /\ manifest # None /\ manifest.status \in Processing
    /\ manifest' = FailedAt(manifest, lastSeen)
    /\ UNCHANGED <<segments, files, command, now, made, commands, ghosts>>

Tick ==
    /\ now < MaxTime
    /\ now' = now + 1
    /\ worked' = IF command # None /\ command.manifest.active # None THEN worked + 1 ELSE worked
    /\ lastSeen' = IF command # None THEN now' ELSE lastSeen
    /\ UNCHANGED <<segments, files, manifest, command, made, commands, lapses>>

JobNext ==
    \/ \E name \in CommandNames : StartCommand(name)
    \/ Mark \/ ReadSegments \/ PrepareAudio \/ MakeText \/ WriteSegments \/ WriteFile \/ Burn
    \/ Returns \/ Fails \/ Killed \/ FailInterrupted \/ Tick

JobSpec == JobInit /\ [][JobNext]_jobVars

JobTypeOK ==
    /\ manifest # None => manifest.status \in Statuses \cup {"failed"}
    /\ {segments, files["source"], files["ass"], files["video"]} \ {None, Torn}
           \subseteq [text : 0..made, translation : 0..made]

\* What status.json says of a job is true of its directory and of its time.  A job that is
\* done has its subtitle files from its segments, whichever commands failed or
\* were killed before, unless the last one said so of files it does not write (render
\* after a failed correction, a transcript over an old directory); its elapsed time
\* is the time that commands were at work on it, unless a killed command was never
\* recovered (job_manifest.rs:14).
ManifestHonest ==
    /\ manifest # None /\ manifest.status = "done" /\ "stale" \notin lapses =>
          \A f \in Outputs : f = "source" \/ files[f] # None =>
                Shows(f, segments, files[f])
    /\ manifest # None /\ "idle" \notin lapses =>
          /\ manifest.elapsed <= worked
          /\ command = None /\ manifest.active = None => manifest.elapsed = worked
    /\ manifest # None => /\ manifest.status = "failed" <=> manifest.stage # None
                          /\ manifest.completed # None <=> manifest.status \in {"done", "failed"}
=============================================================================
