----------------------------- MODULE VideoRender -----------------------------
(***************************************************************************)
(* The render queue of local_render_service.rs, its rows in                *)
(* local_render_jobs, and the encoder attempts of media.rs.  One worker    *)
(* renders into a hidden file beside the output and puts the finished      *)
(* video in its place.                                                     *)
(***************************************************************************)
EXTENDS Naturals, Sequences, FiniteSets

CONSTANTS
    None,
    Renders,       \* renders the user may submit
    Outputs,       \* output paths
    TargetOf,      \* the path of each render
    Consenting,    \* renders that may replace an existing file
    Present,       \* outputs where a file of the user lies
    Capacity,      \* RENDER_QUEUE_CAPACITY
    Hardware,      \* whether ffmpeg has h264_videotoolbox
    MaxUpsets      \* bound: crashes, errors of the files or the database, files written

VARIABLES
    renderRow,     \* status in local_render_jobs, "none" without a row
    queue,         \* the channel
    submitting,    \* where submit is with a render
    flag,          \* the cancellations map: "none", "clear" or "set"
    stopping,      \* the status cancel has read, None when it does not run
    engine,        \* the worker: [pc, render, attempt]
    hidden,        \* the .partial.mp4 of a render: None, "piece" or "video"
    previous,      \* the .previous.mp4 of a render: what lay at its output
    output,        \* at each output None, "user", or the render whose video it is
    owned,         \* ghost: outputs where a file of the user has been that no render with
                   \* consent has replaced; see Unseen
    unwritten,     \* renders whose row could not be written
    upsets

renderVars == <<renderRow, queue, submitting, flag, stopping, engine, hidden, previous,
                output, owned, unwritten, upsets>>

Finished == {"done", "failed", "cancelled"}
\* burn_ass_with_encoder: hardware first, each with the audio copied first.
Attempts == <<[video |-> "videotoolbox", audio |-> "copy"],
              [video |-> "videotoolbox", audio |-> "aac"],
              [video |-> "mpeg4", audio |-> "copy"],
              [video |-> "mpeg4", audio |-> "aac"]>>
FirstAttempt == IF Hardware THEN 1 ELSE 3
Waiting == [pc |-> "waiting", render |-> None, attempt |-> FirstAttempt]

RenderInit ==
    /\ renderRow = [r \in Renders |-> "none"]
    /\ queue = <<>>
    /\ submitting = [r \in Renders |-> "idle"]
    /\ flag = [r \in Renders |-> "none"]
    /\ stopping = [r \in Renders |-> None]
    /\ engine = Waiting
    /\ hidden = [r \in Renders |-> None] /\ previous = [r \in Renders |-> None]
    /\ output = [p \in Outputs |-> IF p \in Present THEN "user" ELSE None]
    /\ owned = Present /\ unwritten = {} /\ upsets = MaxUpsets

Upset == upsets > 0 /\ upsets' = upsets - 1
Files == <<hidden, previous, output, owned>>
\* A row that cannot be written is only logged.
Writes(r, status) ==
    \/ renderRow' = [renderRow EXCEPT ![r] = status] /\ UNCHANGED <<unwritten, upsets>>
    \/ unwritten' = unwritten \cup {r} /\ Upset /\ UNCHANGED renderRow

(***************************************************************************)
(* submit and cancel.                                                      *)
(***************************************************************************)
\* The checks, the snapshot of the subtitles and the row.
Submit(r) ==
    /\ renderRow[r] = "none"
    /\ output[TargetOf[r]] # None => r \in Consenting
    /\ renderRow' = [renderRow EXCEPT ![r] = "queued"]
    /\ submitting' = [submitting EXCEPT ![r] = "flag"]
    /\ UNCHANGED <<queue, flag, stopping, engine, Files, unwritten, upsets>>

AttachFlag(r) ==
    /\ submitting[r] = "flag"
    /\ flag' = [flag EXCEPT ![r] = "clear"]
    /\ submitting' = [submitting EXCEPT ![r] = "send"]
    /\ UNCHANGED <<renderRow, queue, stopping, engine, Files, unwritten, upsets>>

\* Mutant of Send: the channel is not bounded.
SendAtOnce(r) ==
    /\ submitting[r] = "send"
    /\ queue' = Append(queue, r)
    /\ submitting' = [submitting EXCEPT ![r] = "idle"]
    /\ UNCHANGED <<renderRow, flag, stopping, engine, Files, unwritten, upsets>>

\* send waits for room in the channel.
Send(r) ==
    /\ submitting[r] = "send" /\ Len(queue) < Capacity
    /\ queue' = Append(queue, r)
    /\ submitting' = [submitting EXCEPT ![r] = "idle"]
    /\ UNCHANGED <<renderRow, flag, stopping, engine, Files, unwritten, upsets>>

CancelRender(r) ==
    /\ stopping[r] = None /\ renderRow[r] \in {"queued", "running"}
    /\ flag[r] # "none"
    /\ flag' = [flag EXCEPT ![r] = "set"]
    /\ stopping' = [stopping EXCEPT ![r] = renderRow[r]]
    /\ UNCHANGED <<renderRow, queue, submitting, engine, Files, unwritten, upsets>>

\* By the status read before: a render it saw in the queue is marked at once.
CancelMarks(r) ==
    /\ stopping[r] # None
    /\ renderRow' = [renderRow EXCEPT ![r] = IF stopping[r] = "queued" THEN "cancelled" ELSE @]
    /\ stopping' = [stopping EXCEPT ![r] = None]
    /\ UNCHANGED <<queue, submitting, flag, engine, Files, unwritten, upsets>>

(***************************************************************************)
(* The worker.                                                             *)
(***************************************************************************)
At(pc) == engine.pc = pc
GoesTo(pc) == engine' = [engine EXCEPT !.pc = pc]

Receive ==
    /\ At("waiting") /\ queue # <<>>
    /\ queue' = Tail(queue)
    /\ engine' = [Waiting EXCEPT !.render = Head(queue),
                  !.pc = IF flag[Head(queue)] = "set" THEN "cancelled" ELSE "taken"]
    /\ UNCHANGED <<renderRow, submitting, flag, stopping, Files, unwritten, upsets>>

\* A render whose row cannot be marked is dropped.
MarkRunning ==
    /\ At("taken")
    /\ Writes(engine.render, "running")
    /\ IF engine.render \in unwritten' THEN GoesTo("leaving") /\ UNCHANGED hidden
       ELSE GoesTo("encode") /\ hidden' = [hidden EXCEPT ![engine.render] = None]
    /\ UNCHANGED <<queue, submitting, flag, stopping, previous, output, owned>>

\* run_render_command looks at the flag before it starts ffmpeg and while it runs.
EncodeStopped ==
    /\ At("encode") /\ flag[engine.render] = "set"
    /\ \E left \in {hidden[engine.render], "piece"} :
          hidden' = [hidden EXCEPT ![engine.render] = left]
    /\ GoesTo("cancelled")
    /\ UNCHANGED <<renderRow, queue, submitting, flag, stopping, previous, output, owned,
                   unwritten, upsets>>

Encoded ==
    /\ At("encode")
    /\ hidden' = [hidden EXCEPT ![engine.render] = "video"]
    /\ GoesTo("install")
    /\ UNCHANGED <<renderRow, queue, submitting, flag, stopping, previous, output, owned,
                   unwritten, upsets>>

\* An audio track that cannot be copied is encoded; a hardware encoder that fails
\* gives way to the software encoder.
Fallback(audioFailed) ==
    LET tried == Attempts[engine.attempt] IN
    IF audioFailed /\ tried.audio = "copy" THEN engine.attempt + 1
    ELSE IF tried.video = "videotoolbox" THEN 3 ELSE 0

EncodeFails ==
    /\ At("encode")
    /\ hidden' = [hidden EXCEPT ![engine.render] = "piece"]
    /\ \E audioFailed \in BOOLEAN :
         engine' = IF Fallback(audioFailed) = 0 THEN [engine EXCEPT !.pc = "failed"]
                   ELSE [engine EXCEPT !.attempt = Fallback(audioFailed)]
    /\ UNCHANGED <<renderRow, queue, submitting, flag, stopping, previous, output, owned,
                   unwritten, upsets>>

\* What the hidden file of a render becomes at its output.
Made(r) == IF hidden[r] = "video" THEN r ELSE hidden[r]

\* Mutant of Install: the output is not looked at again after the rendering.
InstallsOver ==
    /\ At("install")
    /\ output' = [output EXCEPT ![TargetOf[engine.render]] = Made(engine.render)]
    /\ hidden' = [hidden EXCEPT ![engine.render] = None]
    /\ GoesTo("done")
    /\ UNCHANGED <<renderRow, queue, submitting, flag, stopping, previous, owned, unwritten,
                   upsets>>

\* install_rendered_output looks at the output and acts on what it saw in steps of
\* its own: the look, and one step per rename.  A rename may fail.
Install ==
    /\ At("install")
    /\ LET r == engine.render IN
       GoesTo(IF output[TargetOf[r]] = None THEN "move"
              ELSE IF r \in Consenting THEN "set aside" ELSE "failed")
    /\ UNCHANGED <<renderRow, queue, submitting, flag, stopping, Files, unwritten, upsets>>

\* Between the look and the rename, and between the two renames, a file that appears
\* at the output is not seen: the rename goes over it, also without consent.  The
\* ghost does not count such a file until the renames are over, and then only if it
\* is still there (Lying).
Unseen(p) == engine.pc \in {"move", "replace"} /\ TargetOf[engine.render] = p
Lying(at) == {p \in Outputs : at[p] = "user"}

MoveIn ==
    /\ At("move")
    /\ \/ /\ output' = [output EXCEPT ![TargetOf[engine.render]] = Made(engine.render)]
          /\ hidden' = [hidden EXCEPT ![engine.render] = None]
          /\ GoesTo("done") /\ UNCHANGED <<owned, upsets>>
       \/ /\ Upset /\ GoesTo("failed")
          /\ owned' = owned \cup Lying(output) /\ UNCHANGED <<output, hidden>>
    /\ UNCHANGED <<renderRow, queue, submitting, flag, stopping, previous, unwritten>>

SetAside ==
    /\ At("set aside")
    /\ LET r == engine.render  p == TargetOf[r] IN
       \/ /\ previous' = [previous EXCEPT ![r] = output[p]]
          /\ output' = [output EXCEPT ![p] = None]
          /\ GoesTo("replace") /\ UNCHANGED upsets
       \/ Upset /\ GoesTo("failed") /\ UNCHANGED <<output, previous>>
    /\ UNCHANGED <<renderRow, queue, submitting, flag, stopping, hidden, owned, unwritten>>

\* What was set aside is put back when the video cannot be moved in; that may fail too.
Replace ==
    /\ At("replace")
    /\ LET r == engine.render  p == TargetOf[r] IN
       \/ /\ output' = [output EXCEPT ![p] = Made(r)]
          /\ hidden' = [hidden EXCEPT ![r] = None]
          /\ owned' = IF previous[r] = "user" /\ r \in Consenting THEN owned \ {p}
                                                               ELSE owned
          /\ GoesTo("drop previous") /\ UNCHANGED <<previous, upsets>>
       \/ /\ Upset
          /\ \/ /\ output' = [output EXCEPT ![p] = previous[r]]
                /\ previous' = [previous EXCEPT ![r] = None]
             \/ UNCHANGED <<output, previous>>
          /\ owned' = owned \cup Lying(output')
          /\ GoesTo("failed") /\ UNCHANGED hidden
    /\ UNCHANGED <<renderRow, queue, submitting, flag, stopping, unwritten>>

\* A backup that cannot be removed is only logged.
DropPrevious ==
    /\ At("drop previous")
    /\ \/ previous' = [previous EXCEPT ![engine.render] = None] /\ UNCHANGED upsets
       \/ Upset /\ UNCHANGED previous
    /\ GoesTo("done")
    /\ UNCHANGED <<renderRow, queue, submitting, flag, stopping, hidden, output, owned,
                   unwritten>>

FinishRow ==
    /\ At("done")
    /\ Writes(engine.render, "done")
    /\ GoesTo("leaving")
    /\ UNCHANGED <<queue, submitting, flag, stopping, Files>>

\* Mutant of EndRow: a render that is stopped leaves its row as it is.
EndsFailedRow ==
    /\ engine.pc \in {"failed", "cancelled"}
    /\ hidden' = [hidden EXCEPT ![engine.render] = None]
    /\ IF At("failed") THEN Writes(engine.render, "failed")
                       ELSE UNCHANGED <<renderRow, unwritten, upsets>>
    /\ GoesTo("leaving")
    /\ UNCHANGED <<queue, submitting, flag, stopping, previous, output, owned>>

EndRow ==
    /\ engine.pc \in {"failed", "cancelled"}
    /\ hidden' = [hidden EXCEPT ![engine.render] = None]
    /\ Writes(engine.render, engine.pc)
    /\ GoesTo("leaving")
    /\ UNCHANGED <<queue, submitting, flag, stopping, previous, output, owned>>

LeaveRender ==
    /\ At("leaving")
    /\ flag' = [flag EXCEPT ![engine.render] = "none"]
    /\ engine' = Waiting
    /\ UNCHANGED <<renderRow, queue, submitting, stopping, Files, unwritten, upsets>>

(***************************************************************************)
(* The user's files, and a crash with interrupt_unfinished_renders.        *)
(***************************************************************************)
UserWrites(p) ==
    /\ output[p] = None /\ Upset
    /\ output' = [output EXCEPT ![p] = "user"]
    /\ owned' = IF Unseen(p) THEN owned ELSE owned \cup {p}
    /\ UNCHANGED <<renderRow, queue, submitting, flag, stopping, engine, hidden, previous,
                   unwritten>>

CrashRenders ==
    /\ Upset
    /\ renderRow' = [r \in Renders |->
           IF renderRow[r] \in {"queued", "running"} THEN "failed" ELSE renderRow[r]]
    /\ queue' = <<>> /\ engine' = Waiting
    /\ submitting' = [r \in Renders |-> "idle"]
    /\ flag' = [r \in Renders |-> "none"]
    /\ stopping' = [r \in Renders |-> None]
    /\ owned' = owned \cup Lying(output)
    /\ UNCHANGED <<hidden, previous, output, unwritten>>

Engine == \/ Receive \/ MarkRunning \/ EncodeStopped \/ Encoded \/ EncodeFails \/ Install
          \/ MoveIn \/ SetAside \/ Replace \/ DropPrevious \/ FinishRow \/ EndRow \/ LeaveRender
Submitter(r) == AttachFlag(r) \/ Send(r)

RenderNext ==
    \/ Engine \/ CrashRenders
    \/ \E r \in Renders : Submit(r) \/ Submitter(r) \/ CancelRender(r) \/ CancelMarks(r)
    \/ \E p \in Outputs : UserWrites(p)

\* The worker or a submission goes on while any can.
RenderFairness == WF_renderVars(Engine \/ \E r \in Renders : Submitter(r))
RenderSpec == RenderInit /\ [][RenderNext]_renderVars /\ RenderFairness

(***************************************************************************)
(* Properties.                                                             *)
(***************************************************************************)
RenderTypeOK ==
    /\ \A r \in Renders : renderRow[r] \in {"none", "queued", "running"} \cup Finished
    /\ Len(queue) <= Capacity /\ engine.attempt \in DOMAIN Attempts
    /\ \A r \in Renders : flag[r] \in {"none", "clear", "set"}

\* What lies at an output is a whole video or a file of the user; and a file of
\* the user is there, or set aside, until a whole video has taken its place with
\* consent, whatever fails, is cancelled or crashes while a video is rendered.  A
\* file that appears during the rendering counts too, up to the look; one that
\* appears after the look or between the renames counts once the renames are over
\* (Unseen): local_render_service.rs overwrites it, and that is set aside.
OutputSafe ==
    \A p \in Outputs :
        /\ output[p] \in {None, "user"} \cup Renders
        /\ p \in owned => \/ output[p] = "user"
                          \/ \E r \in Renders : TargetOf[r] = p /\ previous[r] = "user"

\* Every render that is submitted is settled, unless its row could not be
\* written, also when others are cancelled, dropped or fail before it.
RendersRest ==
    \A r \in Renders : renderRow[r] \in Finished \cup {"none"} \/ r \in unwritten
RenderSettles == []<>RendersRest
=============================================================================
