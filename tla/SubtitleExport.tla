---------------------------- MODULE SubtitleExport ----------------------------
(***************************************************************************)
(* The export of a task's subtitles into a directory of the user:          *)
(* export_subtitles_to writes each selected file into the task's directory *)
(* and copies it from there, while cues are edited, other programs write   *)
(* into the directory, and the export at the end of a translation          *)
(* (export_subtitles) rewrites the files of the task.                      *)
(*                                                                         *)
(* A file holds the revision of the cues it shows, Torn while it is        *)
(* written, or Foreign when it is the user's own.  The names of the files  *)
(* differ, as the two languages of a task do.                              *)
(***************************************************************************)
EXTENDS Naturals

CONSTANTS
    None, Torn, Foreign,
    Artifacts,     \* files that can be selected, "source" among them
    MaxEdits,      \* bound of the edits of cues
    MaxTroubles    \* bound of failures, automatic exports and foreign writes

VARIABLES
    cues,          \* [revision, ready]: ready when every translation is there and current
    generated,     \* the files in the task's directory
    directory,     \* the files in the user's directory
    export,        \* [pc, overwrite, selected, left, current, read], or None
    automatic,     \* the revision that the automatic export writes and what is left, or None
    outcome,       \* [selected, read] of the last export that ended well
    owned,         \* ghost: <<file, content>> that this export may not overwrite
    shared,        \* ghost: an automatic export ran beside this one
    troubles

exportVars == <<cues, generated, directory, export, automatic, outcome, owned, shared,
                troubles>>

ExportInit ==
    /\ cues \in [revision : {0}, ready : BOOLEAN]
    /\ generated = [a \in Artifacts |-> None]
    /\ directory \in [Artifacts -> {None, Foreign}]
    /\ export = None /\ automatic = None /\ outcome = None
    /\ owned = {} /\ shared = FALSE /\ troubles = 0

Trouble == troubles < MaxTroubles /\ troubles' = troubles + 1
Existing == {a \in Artifacts : directory[a] # None}

\* planned_subtitle_export: the files that are there are only looked for once.
PlanExport(selected, overwrite) ==
    /\ export = None /\ selected # {}
    /\ overwrite \/ selected \cap Existing = {}
    /\ export' = [pc |-> "read", overwrite |-> overwrite, selected |-> selected,
                  left |-> selected, current |-> None, read |-> None]
    /\ owned' = {<<a, directory[a]>> :
                    a \in IF overwrite THEN Existing \ selected ELSE Existing}
    /\ shared' = (automatic # None) /\ outcome' = None
    /\ UNCHANGED <<cues, generated, directory, automatic, troubles>>

\* Translated files are only written when no translation is missing or stale.
ReadWorkspace ==
    /\ export # None /\ export.pc = "read"
    /\ export' = IF export.selected \subseteq {"source"} \/ cues.ready
                 THEN [export EXCEPT !.pc = "next", !.read = cues.revision] ELSE None
    /\ UNCHANGED <<cues, generated, directory, automatic, outcome, owned, shared, troubles>>

\* The selected files come in any order; writing truncates first.
OpenGenerated(a) ==
    /\ export # None /\ export.pc = "next" /\ a \in export.left
    /\ export' = [export EXCEPT !.pc = "write", !.current = a, !.left = @ \ {a}]
    /\ generated' = [generated EXCEPT ![a] = Torn]
    /\ UNCHANGED <<cues, directory, automatic, outcome, owned, shared, troubles>>

WriteGenerated ==
    /\ export # None /\ export.pc = "write"
    /\ export' = [export EXCEPT !.pc = "open"]
    /\ generated' = [generated EXCEPT ![export.current] = export.read]
    /\ UNCHANGED <<cues, directory, automatic, outcome, owned, shared, troubles>>

\* Mutant of OpenDestination: a file that is there is opened as well.
OpenAnyDestination ==
    /\ export # None /\ export.pc = "open"
    /\ directory' = [directory EXCEPT ![export.current] = Torn]
    /\ export' = [export EXCEPT !.pc = "copy"]
    /\ UNCHANGED <<cues, generated, automatic, outcome, owned, shared, troubles>>

\* copy_export_file: without consent the file must be a new one.
OpenDestination ==
    /\ export # None /\ export.pc = "open"
    /\ IF ~export.overwrite /\ directory[export.current] # None
       THEN export' = None /\ UNCHANGED directory
       ELSE /\ directory' = [directory EXCEPT ![export.current] = Torn]
            /\ export' = [export EXCEPT !.pc = "copy"]
    /\ UNCHANGED <<cues, generated, automatic, outcome, owned, shared, troubles>>

CopyFile ==
    /\ export # None /\ export.pc = "copy"
    /\ directory' = [directory EXCEPT ![export.current] = generated[export.current]]
    /\ export' = [export EXCEPT !.pc = "next"]
    /\ UNCHANGED <<cues, generated, automatic, outcome, owned, shared, troubles>>

ExportEnds ==
    /\ export # None /\ export.pc = "next" /\ export.left = {}
    /\ outcome' = [selected |-> export.selected, read |-> export.read]
    /\ export' = None
    /\ UNCHANGED <<cues, generated, directory, automatic, owned, shared, troubles>>

\* What was copied so far stays; the file in question may stay cut.
ExportFails ==
    /\ export # None /\ Trouble
    /\ export' = None
    /\ UNCHANGED <<cues, generated, directory, automatic, outcome, owned, shared>>

(***************************************************************************)
(* The rest of the world.                                                  *)
(***************************************************************************)
EditCues ==
    /\ cues.revision < MaxEdits
    /\ \E ready \in BOOLEAN : cues' = [revision |-> cues.revision + 1, ready |-> ready]
    /\ UNCHANGED <<generated, directory, export, automatic, outcome, owned, shared, troubles>>

\* export_subtitles: every file of the task, when no translation is stale.
BeginAutomatic ==
    /\ automatic = None /\ cues.ready /\ Trouble
    /\ automatic' = [read |-> cues.revision, left |-> Artifacts]
    /\ shared' = TRUE
    /\ UNCHANGED <<cues, generated, directory, export, outcome, owned>>

AutomaticStep ==
    /\ automatic # None
    /\ IF automatic.left = {} THEN automatic' = None /\ UNCHANGED generated
       ELSE \E a \in automatic.left :
               \/ /\ generated[a] # Torn
                  /\ generated' = [generated EXCEPT ![a] = Torn] /\ UNCHANGED automatic
               \/ /\ generated' = [generated EXCEPT ![a] = automatic.read]
                  /\ automatic' = [automatic EXCEPT !.left = @ \ {a}]
    /\ UNCHANGED <<cues, directory, export, outcome, owned, shared, troubles>>

\* Another program writes a file; writes between the opening and the copy are left out.
ForeignWrite(a) ==
    /\ directory[a] # Foreign /\ Trouble
    /\ export # None => <<export.pc, export.current>> # <<"copy", a>>
    /\ directory' = [directory EXCEPT ![a] = Foreign]
    /\ owned' = {o \in owned : o[1] # a}
                  \cup (IF export # None /\ export.overwrite /\ a \in export.selected
                        THEN {} ELSE {<<a, Foreign>>})
    /\ UNCHANGED <<cues, generated, export, automatic, outcome, shared>>

ExportNext ==
    \/ \E selected \in SUBSET Artifacts, overwrite \in BOOLEAN : PlanExport(selected, overwrite)
    \/ ReadWorkspace \/ \E a \in Artifacts : OpenGenerated(a) \/ ForeignWrite(a)
    \/ WriteGenerated \/ OpenDestination \/ CopyFile \/ ExportEnds \/ ExportFails
    \/ EditCues \/ BeginAutomatic \/ AutomaticStep

ExportSpec == ExportInit /\ [][ExportNext]_exportVars

ExportTypeOK ==
    /\ cues.revision \in 0..MaxEdits
    /\ \A a \in Artifacts : /\ generated[a] \in 0..MaxEdits \cup {None, Torn}
                            /\ directory[a] \in 0..MaxEdits \cup {None, Torn, Foreign}

\* A file that the user has and did not allow to overwrite is never touched, also one that
\* comes up after the export has looked; and an export that ends well has written
\* every selected file from one reading of the cues, unless another export wrote the
\* files of the task beside it (local_workspace_service.rs:1253).
ExportSafe ==
    /\ \A o \in owned : directory[o[1]] = o[2]
    /\ outcome # None /\ ~shared =>
          \A a \in outcome.selected : directory[a] \in {outcome.read, Foreign}
=============================================================================
