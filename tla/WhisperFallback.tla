---------------------------- MODULE WhisperFallback ----------------------------
(***************************************************************************)
(* The recogniser of a job, chunk by chunk (acoustic_plan.rs), and how it  *)
(* calls whisper (whisper.rs): on the GPU first, once more on the CPU when *)
(* the failure looks like one of the GPU, and on the CPU only from then    *)
(* on.  Each attempt at a chunk has a directory of its own; what a kill    *)
(* leaves in it is never looked at again.                                  *)
(***************************************************************************)
EXTENDS Naturals, Sequences

CONSTANTS None, Chunks, MaxTroubles    \* MaxTroubles is a bound

VARIABLES
    configured,    \* the options say no_gpu
    evidence,      \* of each chunk, or None
    at,            \* where the recogniser is; None while none runs
    chunk, noGpu,  \* its chunk, and effective.whisper.no_gpu
    attempt,       \* the directory of the attempt, or None
    troubles

whisperVars == <<configured, evidence, at, chunk, noGpu, attempt, troubles>>

WhisperInit ==
    /\ configured \in BOOLEAN
    /\ evidence = [k \in 1..Chunks |-> None]
    /\ at = None /\ chunk = 1 /\ noGpu = FALSE /\ attempt = None /\ troubles = 0

\* Ghosts: asked, the devices of the calls so far; by, the device of the call that wrote
\* the output; silent, a call that succeeded and wrote none.
NewAttempt ==
    [cpu |-> noGpu, failure |-> FALSE, device |-> None, output |-> None,
     asked |-> <<>>, by |-> None, silent |-> FALSE]

Trouble == troubles < MaxTroubles /\ troubles' = troubles + 1

\* An error, or the end of the process: kill_on_drop takes whisper along.
GivesUp == at' = None /\ attempt' = None

Begin ==
    /\ at = None
    /\ at' = "chunk" /\ chunk' = 1 /\ noGpu' = configured
    /\ UNCHANGED <<configured, evidence, attempt, troubles>>

\* The evidence of an earlier attempt is used again, and with it what it says of the GPU.
Reuse ==
    /\ at = "chunk" /\ chunk <= Chunks /\ evidence[chunk] # None
    /\ noGpu' = (noGpu \/ evidence[chunk].device = "cpu")
    /\ chunk' = chunk + 1
    /\ UNCHANGED <<configured, evidence, at, attempt, troubles>>

Open ==
    /\ at = "chunk" /\ chunk <= Chunks /\ evidence[chunk] = None
    /\ attempt' = NewAttempt /\ at' = "whisper"
    /\ UNCHANGED <<configured, evidence, chunk, noGpu, troubles>>

Finish ==
    /\ at = "chunk" /\ chunk > Chunks
    /\ at' = None
    /\ UNCHANGED <<configured, evidence, chunk, noGpu, attempt, troubles>>

\* run_whisper with the arguments of build_args.
Device == IF attempt.cpu THEN "cpu" ELSE "gpu"
Called == [attempt EXCEPT !.asked = Append(@, Device)]

Succeed ==
    /\ at = "whisper"
    /\ \/ attempt' = [Called EXCEPT !.output = "whole", !.by = Device] /\ UNCHANGED troubles
       \/ attempt' = [Called EXCEPT !.silent = TRUE] /\ Trouble
    /\ at' = "device"
    /\ UNCHANGED <<configured, evidence, chunk, noGpu>>

\* A failure that speaks of the GPU, or a signal; it may come after the output.
FailOnGpu(output) ==
    /\ at = "whisper" /\ Trouble
    /\ IF attempt.cpu THEN GivesUp
       ELSE /\ attempt' = [Called EXCEPT !.cpu = TRUE, !.failure = TRUE, !.output = output,
                                         !.by = IF output = None THEN None ELSE Device]
            /\ UNCHANGED at
    /\ UNCHANGED <<configured, evidence, chunk, noGpu>>

\* Any other failure, a whisper or model that is not there, a file that cannot be
\* written, the end of the process.
Break ==
    /\ at # None /\ Trouble /\ GivesUp
    /\ UNCHANGED <<configured, evidence, chunk, noGpu>>

\* Mutant of WriteDevice: the device that was asked for first.
WriteAskedDevice ==
    /\ at = "device"
    /\ attempt' = [attempt EXCEPT !.device = IF noGpu THEN "cpu" ELSE "gpu"]
    /\ at' = "read"
    /\ UNCHANGED <<configured, evidence, chunk, noGpu, troubles>>
WriteDevice ==
    /\ at = "device"
    /\ attempt' = [attempt EXCEPT !.device = Device]
    /\ at' = "read"
    /\ UNCHANGED <<configured, evidence, chunk, noGpu, troubles>>

\* The output is read, and the directory is renamed to be the evidence of its chunk.
Store ==
    /\ at = "read"
    /\ IF attempt.output # "whole" THEN GivesUp /\ UNCHANGED <<evidence, chunk, noGpu>>
       ELSE /\ evidence' = [evidence EXCEPT ![chunk] =
                    [device |-> attempt.device, fallback |-> attempt.failure,
                     asked |-> attempt.asked, by |-> attempt.by, silent |-> attempt.silent]]
            /\ noGpu' = (noGpu \/ attempt.device = "cpu")
            /\ chunk' = chunk + 1 /\ at' = "chunk" /\ attempt' = None
    /\ UNCHANGED <<configured, troubles>>

\* read_evidence no longer believes the files of a chunk.
Damage(k) ==
    /\ at = None /\ evidence[k] # None /\ Trouble
    /\ evidence' = [evidence EXCEPT ![k] = None]
    /\ UNCHANGED <<configured, at, chunk, noGpu, attempt>>

WhisperNext ==
    \/ Begin \/ Reuse \/ Open \/ Finish \/ Succeed \/ Break \/ WriteDevice \/ Store
    \/ \E output \in {None, "torn", "whole"} : FailOnGpu(output)
    \/ \E k \in 1..Chunks : Damage(k)

WhisperSpec == WhisperInit /\ [][WhisperNext]_whisperVars

\* The evidence of a chunk names the device that made it, unless a call wrote nothing
\* over the output of a failed one; it tells of a fallback exactly when the GPU was tried
\* for it and failed; no more than one retry was made; and once the GPU has failed, it is
\* not asked again for a later chunk, not even after a restart, as long as the evidence
\* of the failure is there (whisper.rs:96, acoustic_plan.rs:547).
DeviceHonest ==
    /\ \A k \in 1..Chunks : evidence[k] # None =>
          /\ evidence[k].silent \/ evidence[k].device = evidence[k].by
          /\ evidence[k].asked =
                (IF evidence[k].fallback THEN <<"gpu", "cpu">> ELSE <<evidence[k].device>>)
          /\ configured => evidence[k].device = "cpu"
    /\ attempt # None /\ attempt.asked # <<>> /\ attempt.asked[1] = "gpu" =>
          \A k \in 1..(chunk - 1) : evidence[k].device = "gpu"
=============================================================================
