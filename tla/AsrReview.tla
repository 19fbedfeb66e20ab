------------------------------- MODULE AsrReview -------------------------------
(***************************************************************************)
(* The review of recognised text: detect_quality_signals over the cues of  *)
(* a run, and the rows of asr_review.rs: signals, the decisions of the     *)
(* user on them, which are only ever appended, and the candidates that     *)
(* were recognised to repair them.                                         *)
(*                                                                         *)
(* A cue is [text, duration]; a text is a sequence of characters.  Each    *)
(* command reads the clock before it writes, and commands run side by      *)
(* side.  The signals of the boundaries and the seams of the recognition   *)
(* (acoustic_plan.rs) are of other kinds and are left out.                 *)
(***************************************************************************)
EXTENDS Naturals, Sequences, SequencesExt, FiniteSetsExt

CONSTANTS
    None,
    Plain,         \* of each character: its lower case, None for blanks and punctuation
    Blank,         \* the blanks
    Bytes,         \* of each character in lower case: its length in UTF-8
    LoopBytes, MinOverlap, MaxOverlap, DenseSize, DenseRate,    \* limits of the detector
    Transcripts,   \* what a recognition may answer: sequences of cues
    Verdicts,      \* confirmed_problem, false_positive, resolved
    Commands,      \* decisions that may be under way at a time
    MaxRuns, MaxDecisions, MaxTime, MaxTroubles    \* bounds

VARIABLES
    task,          \* the task is in the database
    runs,          \* [cues, candidate, status, adopted] of each run
    signals,       \* [run, kind, at, size]
    decisions,     \* rows [signal, decision, time, number, after]
    inserted,      \* rows inserted so far
    deciding,      \* of each command: [signal, decision, time, after], or None
    attempts,      \* [signal, run, status]
    preview,       \* [signal, run] of a candidate that is asked for, or None
    now,
    unordered,     \* ghost: the clock was set back
    unmarked,      \* ghost: runs whose marks failed, or whose attempt came after them
    troubles

reviewVars == <<task, runs, signals, decisions, inserted, deciding, attempts, preview, now,
                unordered, unmarked, troubles>>
rows == <<signals, decisions, inserted, attempts>>
ghosts == <<unordered, unmarked>>

ReviewInit ==
    /\ task = TRUE /\ runs = <<>> /\ signals = {}
    /\ decisions = {} /\ inserted = 0 /\ deciding = [c \in Commands |-> None]
    /\ attempts = {} /\ preview = None
    /\ now = 1 /\ unordered = FALSE /\ unmarked = {} /\ troubles = 0

Trouble == troubles < MaxTroubles /\ troubles' = troubles + 1

(***************************************************************************)
(* detect_quality_signals.                                                 *)
(***************************************************************************)
Normalize(text) ==
    LET kept == SelectSeq(text, LAMBDA ch : Plain[ch] # None) IN
    [k \in DOMAIN kept |-> Plain[kept[k]]]
ByteLength(text) == FoldLeft(LAMBDA total, ch : total + Bytes[ch], 0, text)
Written(text) == Len(SelectSeq(text, LAMBDA ch : ch \notin Blank))

\* boundary_overlap: how many characters the end of one text and the start of the next
\* may have in common.
Overlaps(left, right) ==
    {n \in MinOverlap..Min({Len(left), Len(right), MaxOverlap}) :
        SubSeq(left, Len(left) - n + 1, Len(left)) = SubSeq(right, 1, n)}

\* The pauses are of no account: neighbours are neighbours in the sequence.
Detected(cues) ==
    LET text == [k \in DOMAIN cues |-> Normalize(cues[k].text)]
        pairs == {k \in DOMAIN cues : k + 1 \in DOMAIN cues}
        loops == {k \in pairs : text[k] = text[k + 1] /\ ByteLength(text[k]) >= LoopBytes}
        seams == {k \in pairs \ loops : Overlaps(text[k], text[k + 1]) # {}}
        dense == {k \in DOMAIN cues :
                    LET n == Written(cues[k].text) IN
                    /\ cues[k].duration > 0
                    /\ n >= DenseSize /\ n > DenseRate * cues[k].duration} IN
    {[kind |-> "repeated_loop", at |-> k, size |-> Len(text[k])] : k \in loops}
      \cup {[kind |-> "boundary_repetition", at |-> k,
             size |-> Max(Overlaps(text[k], text[k + 1]))] : k \in seams}
      \cup {[kind |-> "abnormal_speech_rate", at |-> k,
             size |-> Written(cues[k].text)] : k \in dense}

OfRun(run, found) == [run |-> run, kind |-> found.kind, at |-> found.at, size |-> found.size]

\* replace_asr_quality_signals: the signals of the run before, and what hangs on them, go.
ReplaceSignals(run, cues) ==
    /\ signals' = {s \in signals : s.run # run} \cup {OfRun(run, d) : d \in Detected(cues)}
    /\ decisions' = {d \in decisions : d.signal.run # run}
    /\ attempts' = {a \in attempts : a.signal.run # run}
    /\ UNCHANGED inserted

\* The recognition of the task, and again when it is retried: each is a run of its own.
Recognise(cues) ==
    /\ task /\ Len(runs) < MaxRuns
    /\ runs' = Append(runs, [cues |-> cues, candidate |-> FALSE, status |-> "succeeded",
                            adopted |-> FALSE])
    /\ ReplaceSignals(Len(runs'), cues)
    /\ UNCHANGED <<task, deciding, preview, now, ghosts, troubles>>

(***************************************************************************)
(* save_asr_review_decision.                                               *)
(***************************************************************************)
BeginDecision(c, signal, decision) ==
    /\ deciding[c] = None /\ signal \in signals
    /\ inserted + Cardinality({d \in Commands : deciding[d] # None}) < MaxDecisions
    /\ deciding' = [deciding EXCEPT ![c] = [signal |-> signal, decision |-> decision,
                                            time |-> now, after |-> inserted]]
    /\ UNCHANGED <<task, runs, rows, preview, now, ghosts, troubles>>

\* The signal is a foreign key: without it the command fails.
InsertDecision(c) ==
    /\ deciding[c] # None
    /\ deciding' = [deciding EXCEPT ![c] = None]
    /\ inserted' = inserted + 1
    /\ LET d == deciding[c] IN
       decisions' = decisions \cup
          (IF d.signal \in signals
           THEN {[signal |-> d.signal, decision |-> d.decision, time |-> d.time,
                  number |-> inserted', after |-> d.after]} ELSE {})
    /\ UNCHANGED <<task, runs, signals, attempts, preview, now, ghosts, troubles>>

Decided(signal) == {d \in decisions : d.signal = signal}
\* Mutant of Latest: of the decisions of one second the first.
FirstOfLatest(signal) ==
    CHOOSE d \in Decided(signal) : \A e \in Decided(signal) \ {d} :
        \/ e.time < d.time
        \/ e.time = d.time /\ e.number > d.number
\* list_asr_quality_signals: the decision that is shown.
Latest(signal) ==
    CHOOSE d \in Decided(signal) : \A e \in Decided(signal) \ {d} :
        \/ e.time < d.time
        \/ e.time = d.time /\ e.number < d.number

(***************************************************************************)
(* preview_retranscription with a signal, and the adoption.                *)
(***************************************************************************)
AskCandidate(signal) ==
    /\ preview = None /\ signal \in signals /\ Len(runs) < MaxRuns
    /\ runs' = Append(runs, [cues |-> <<>>, candidate |-> TRUE, status |-> "running",
                            adopted |-> FALSE])
    /\ preview' = [signal |-> signal, run |-> Len(runs')]
    /\ UNCHANGED <<task, rows, deciding, now, ghosts, troubles>>

\* The cues, their signals and the preview are written: the candidate can be reopened.
CandidateHeard(cues) ==
    /\ preview # None /\ task /\ runs[preview.run].status = "running"
    /\ runs' = [runs EXCEPT ![preview.run] = [@ EXCEPT !.cues = cues,
                                                      !.status = "succeeded"]]
    /\ ReplaceSignals(preview.run, cues)
    /\ UNCHANGED <<task, deciding, preview, now, ghosts, troubles>>

CandidateFails ==
    /\ preview # None /\ Trouble
    /\ preview' = None
    /\ runs' = IF runs[preview.run].status = "running"
               THEN [runs EXCEPT ![preview.run].status = "failed"] ELSE runs
    /\ UNCHANGED <<task, rows, deciding, now, ghosts>>

\* record_asr_repair_attempt comes when the preview has returned; signal and run must be
\* of the same task.
RecordAttempt ==
    /\ preview # None /\ runs[preview.run].status = "succeeded"
    /\ preview' = None
    /\ IF preview.signal \in signals
       THEN /\ attempts' = {a \in attempts : <<a.signal, a.run>> # <<preview.signal,
                                                                     preview.run>>}
                \cup {[signal |-> preview.signal, run |-> preview.run,
                       status |-> "candidate"]}
            /\ unmarked' = IF runs[preview.run].adopted THEN unmarked \cup {preview.run}
                                                         ELSE unmarked
       ELSE UNCHANGED <<attempts, unmarked>>
    /\ UNCHANGED <<task, runs, signals, decisions, inserted, deciding, now, unordered, troubles>>

\* The cues are replaced and the attempts of the run marked; a failure of the marks is
\* only a warning.
Adopt(run) ==
    /\ task /\ runs[run].candidate /\ runs[run].status = "succeeded"
    /\ runs' = [runs EXCEPT ![run].adopted = TRUE]
    /\ \/ /\ attempts' = {[a EXCEPT !.status = IF a.run = run THEN "adopted" ELSE @] :
                            a \in attempts}
          /\ UNCHANGED <<unmarked, troubles>>
       \/ Trouble /\ unmarked' = unmarked \cup {run} /\ UNCHANGED attempts
    /\ UNCHANGED <<task, signals, decisions, inserted, deciding, preview, now, unordered>>

(***************************************************************************)
(* The rest of the world.                                                  *)
(***************************************************************************)
DeleteTask ==
    /\ task /\ Trouble
    /\ task' = FALSE /\ signals' = {} /\ decisions' = {} /\ attempts' = {}
    /\ UNCHANGED <<runs, inserted, deciding, preview, now, ghosts>>

Tick ==
    \/ /\ now < MaxTime /\ now' = now + 1 /\ UNCHANGED <<unordered, troubles>>
       /\ UNCHANGED <<task, runs, rows, deciding, preview, unmarked>>
    \/ /\ now > 1 /\ Trouble /\ now' = now - 1 /\ unordered' = TRUE
       /\ UNCHANGED <<task, runs, rows, deciding, preview, unmarked>>

ReviewNext ==
    \/ \E cues \in Transcripts : Recognise(cues) \/ CandidateHeard(cues)
    \/ \E s \in signals : \/ AskCandidate(s)
                          \/ \E c \in Commands, k \in Verdicts : BeginDecision(c, s, k)
    \/ \E c \in Commands : InsertDecision(c)
    \/ CandidateFails \/ RecordAttempt \/ \E r \in DOMAIN runs : Adopt(r)
    \/ DeleteTask \/ Tick

ReviewSpec == ReviewInit /\ [][ReviewNext]_reviewVars

ReviewTypeOK ==
    /\ inserted \in 0..MaxDecisions /\ now \in 1..MaxTime
    /\ \A s \in signals : s.run \in DOMAIN runs /\ s.at \in DOMAIN runs[s.run].cues
    /\ \A a \in attempts : a.status \in {"candidate", "adopted"}

\* Text that ends a cue and starts the next one is reported in all its length, also when
\* it is all of them, and never twice for the same two cues (asr_quality.rs:128).
RepetitionReported ==
    \A r \in DOMAIN runs : task /\ runs[r].status = "succeeded" =>
        LET found == {s \in signals : s.run = r /\ s.kind # "abnormal_speech_rate"}
            text == [k \in DOMAIN runs[r].cues |-> Normalize(runs[r].cues[k].text)] IN
        /\ \A s, t \in found : s.at = t.at => s = t
        /\ \A k \in DOMAIN text, n \in MinOverlap..MaxOverlap :
              /\ k + 1 \in DOMAIN text /\ n <= Len(text[k + 1])
              /\ IsSuffix(SubSeq(text[k + 1], 1, n), text[k])
              => \E s \in found : s.at = k /\ s.size >= n

\* What the user said last of a signal is what is shown, also for two decisions of one
\* second and for commands that overtake each other, unless the clock was set back;
\* and a candidate that was adopted is not offered as one to its signal, unless its
\* attempt was recorded too late (asr_review.rs:72).
ReviewKept ==
    /\ ~unordered => \A d \in decisions : d.after < Latest(d.signal).number
    /\ \A a \in attempts : /\ a.signal \in signals /\ a.run \in DOMAIN runs
                           /\ a.run \notin unmarked =>
                                (a.status = "adopted" <=> runs[a.run].adopted)
=============================================================================
