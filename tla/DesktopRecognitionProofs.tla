----------------------- MODULE DesktopRecognitionProofs -----------------------
(***************************************************************************)
(* Proofs about the parts that recognise. Each part is an instance of its  *)
(* module, about whose constants nothing is assumed but what its theorem   *)
(* says: the theorem holds for every value of them and every number of     *)
(* steps, whatever the bounds of the runs. Each has its variables by the   *)
(* names of its module, and three sections: the sets its state is in and   *)
(* the inductive invariant; one lemma per step; the theorem.               *)
(***************************************************************************)
EXTENDS DesktopRecognition, Integers, FiniteSets, FiniteSetTheorems, SequenceTheorems, TLAPS

configured == x4
evidence == x2
chunk == x5
noGpu == x6
attempt == x7
USE DEF configured, evidence, at, chunk, noGpu, attempt, troubles

(***************************************************************************)
(* WhisperFallback: evidence names the device that made it.                *)
(*                                                                         *)
(* What an attempt has asked follows from where it is and from its two     *)
(* flags.  As long as the recogniser may use the GPU, all chunks before    *)
(* its own were made there: evidence is only damaged between two runs.     *)
(***************************************************************************)
Devices == {"gpu", "cpu"}
Attempts == [cpu : BOOLEAN, failure : BOOLEAN, device : Devices \cup {None},
             output : {None, "torn", "whole"}, asked : Seq(Devices),
             by : Devices \cup {None}, silent : BOOLEAN]
Evidences == [device : Devices, fallback : BOOLEAN, asked : Seq(Devices),
              by : Devices \cup {None}, silent : BOOLEAN]

WhisperAssumption ==
    /\ AudioChunks \in Nat
    /\ None \notin Attempts \cup Evidences \cup {"chunk", "whisper", "device", "read"}

FallbackShapes ==
    /\ configured \in BOOLEAN /\ noGpu \in BOOLEAN /\ chunk \in 1..(AudioChunks + 1)
    /\ at \in {None, "chunk", "whisper", "device", "read"}
    /\ evidence \in [1..AudioChunks -> Evidences \cup {None}]
    /\ attempt \in Attempts \cup {None}
    /\ attempt # None <=> at \in {"whisper", "device", "read"}

\* Until the GPU is given up every chunk so far was made on it.
GpuSoFar ==
    at # None =>
        /\ configured => noGpu
        /\ ~noGpu => \A k \in 1..(chunk - 1) :
                        evidence[k] # None /\ evidence[k].device = "gpu"

\* What was asked in this attempt, and by whom its output was written.
AttemptFits ==
    attempt # None =>
        /\ chunk <= AudioChunks
        /\ attempt.cpu = (noGpu \/ attempt.failure) /\ ~(noGpu /\ attempt.failure)
        /\ at = "whisper" =>
              attempt.asked = IF attempt.failure THEN <<"gpu">> ELSE <<>>
        /\ at # "whisper" =>
              /\ attempt.asked = IF attempt.failure THEN <<"gpu", "cpu">>
                                 ELSE <<Fallback!Device>>
              /\ attempt.silent \/ attempt.by = Fallback!Device
        /\ at = "read" => attempt.device = Fallback!Device

EvidenceFits ==
    \A k \in 1..AudioChunks : evidence[k] # None =>
        /\ evidence[k].silent \/ evidence[k].device = evidence[k].by
        /\ evidence[k].asked = IF evidence[k].fallback THEN <<"gpu", "cpu">>
                               ELSE <<evidence[k].device>>
        /\ configured => evidence[k].device = "cpu"

FallbackInv == FallbackShapes /\ GpuSoFar /\ AttemptFits /\ EvidenceFits

\* Nothing is known of a chunk at first.
LEMMA FallbackInitially ==
    ASSUME WhisperAssumption PROVE Fallback!WhisperInit => FallbackInv
<1> SUFFICES ASSUME Fallback!WhisperInit PROVE FallbackInv
    OBVIOUS
<1>1. /\ configured \in BOOLEAN /\ evidence = [k \in 1..AudioChunks |-> None]
      /\ at = None /\ chunk = 1 /\ noGpu = FALSE /\ attempt = None
    BY DEF Fallback!WhisperInit
<1>2. FallbackShapes
    <2>1. evidence \in [1..AudioChunks -> Evidences \cup {None}]
        BY <1>1
    <2>2. chunk \in 1..(AudioChunks + 1)
        BY <1>1 DEF WhisperAssumption
    <2>3. at \in {None, "chunk", "whisper", "device", "read"}
        BY <1>1
    <2>4. attempt # None <=> at \in {"whisper", "device", "read"}
        BY <1>1 DEF WhisperAssumption
    <2> QED BY <1>1, <2>1, <2>2, <2>3, <2>4 DEF FallbackShapes
<1>3. \A k \in 1..AudioChunks : evidence[k] = None
    BY <1>1
<1> QED BY <1>1, <1>2, <1>3, Zenon DEF FallbackInv, GpuSoFar, AttemptFits, EvidenceFits

\* The recogniser begins, and looks for the evidence of a chunk.
LEMMA BeginKeeps ==
    ASSUME WhisperAssumption, FallbackInv, Fallback!Begin \/ Fallback!Finish
    PROVE  FallbackInv'
<1> USE DEF FallbackInv
<1>1. CASE Fallback!Begin
    <2>1. /\ at = None /\ at' = "chunk" /\ chunk' = 1 /\ noGpu' = configured
          /\ UNCHANGED <<configured, evidence, attempt>> /\ attempt = None
        BY <1>1 DEF Fallback!Begin, FallbackShapes, WhisperAssumption
    <2>2. FallbackShapes'
        BY <2>1 DEF FallbackShapes, WhisperAssumption
    <2>3. GpuSoFar' /\ AttemptFits' /\ EvidenceFits'
        BY <2>1 DEF GpuSoFar, AttemptFits, EvidenceFits
    <2> QED BY <2>2, <2>3
<1>2. CASE Fallback!Finish
    <2>1. /\ at = "chunk" /\ at' = None
          /\ UNCHANGED <<configured, evidence, attempt, chunk, noGpu>> /\ attempt = None
        BY <1>2 DEF Fallback!Finish, FallbackShapes
    <2>2. FallbackShapes'
        BY <2>1 DEF FallbackShapes, WhisperAssumption
    <2>3. GpuSoFar' /\ AttemptFits' /\ EvidenceFits'
        BY <2>1 DEF GpuSoFar, AttemptFits, EvidenceFits
    <2> QED BY <2>2, <2>3
<1> QED BY <1>1, <1>2

\* Evidence that is used again tells the recogniser whether the GPU has failed.
LEMMA ReuseKeeps ==
    ASSUME WhisperAssumption, FallbackInv, Fallback!Reuse PROVE FallbackInv'
<1> USE DEF FallbackInv
<1>1. /\ at = "chunk" /\ chunk <= AudioChunks /\ evidence[chunk] # None
      /\ noGpu' = (noGpu \/ evidence[chunk].device = "cpu") /\ chunk' = chunk + 1
      /\ UNCHANGED <<configured, evidence, at, attempt>> /\ attempt = None
    BY DEF Fallback!Reuse, FallbackShapes
<1>2. at # None /\ chunk \in 1..AudioChunks /\ AudioChunks \in Nat /\ evidence[chunk] \in Evidences
    BY <1>1 DEF FallbackShapes, WhisperAssumption
<1>3. FallbackShapes'
    BY <1>1, <1>2 DEF FallbackShapes
<1>4. evidence[chunk].device = "gpu" \/ evidence[chunk].device = "cpu"
    BY <1>2 DEF Evidences, Devices
<1>5. GpuSoFar'
    <2> SUFFICES ASSUME ~noGpu', NEW k \in 1..(chunk' - 1)
                 PROVE  evidence[k] # None /\ evidence[k].device = "gpu"
        BY <1>1, <1>2 DEF GpuSoFar
    <2>1. ~noGpu /\ evidence[chunk].device = "gpu"
        BY <1>1, <1>4
    <2>2. k = chunk \/ k \in 1..(chunk - 1)
        BY <1>1, <1>2
    <2> QED BY <1>1, <1>2, <2>1, <2>2 DEF GpuSoFar
<1> QED BY <1>1, <1>3, <1>5 DEF AttemptFits, EvidenceFits

\* An attempt begins where the recogniser is allowed to.
LEMMA OpenKeeps ==
    ASSUME WhisperAssumption, FallbackInv, Fallback!Open PROVE FallbackInv'
<1> USE DEF FallbackInv
<1> DEFINE fresh == Fallback!NewAttempt
<1>1. /\ at = "chunk" /\ chunk <= AudioChunks /\ at' = "whisper" /\ attempt' = fresh
      /\ UNCHANGED <<configured, evidence, chunk, noGpu>> /\ noGpu \in BOOLEAN
    BY DEF Fallback!Open, FallbackShapes
<1>2. /\ fresh \in Attempts /\ fresh.cpu = noGpu /\ fresh.failure = FALSE /\ fresh.asked = <<>>
    BY <1>1 DEF Fallback!NewAttempt, Attempts
<1>3. fresh # None /\ at # None /\ at' # None
    BY <1>1, <1>2 DEF WhisperAssumption
<1> HIDE DEF fresh
<1>4. FallbackShapes'
    BY <1>1, <1>2, <1>3 DEF FallbackShapes
<1>5. GpuSoFar' /\ EvidenceFits'
    BY <1>1, <1>3 DEF GpuSoFar, EvidenceFits
<1>6. AttemptFits'
    BY <1>1, <1>2 DEF AttemptFits
<1> QED BY <1>4, <1>5, <1>6

\* A second element makes a pair.
LEMMA SecondAppended ==
    ASSUME NEW S, NEW a \in S, NEW b \in S PROVE Append(<<a>>, b) = <<a, b>>
<1> DEFINE s == <<a>>
           t == <<a, b>>
<1>1. /\ s \in Seq(S) /\ Len(s) = 1 /\ s[1] = a
      /\ t \in Seq(S) /\ Len(t) = 2 /\ t[1] = a /\ t[2] = b
    OBVIOUS
<1> HIDE DEF s, t
<1>2. /\ Append(s, b) \in Seq(S) /\ Len(Append(s, b)) = 2
      /\ Append(s, b)[1] = a /\ Append(s, b)[2] = b
    <2>1. /\ Append(s, b) \in Seq(S) /\ Len(Append(s, b)) = Len(s) + 1
          /\ \A i \in 1..Len(s) : Append(s, b)[i] = s[i]
          /\ Append(s, b)[Len(s) + 1] = b
        <3>1. s \in Seq(S) /\ b \in S
            BY <1>1
        <3> HIDE <1>1
        <3> QED BY <3>1, AppendProperties
    <2> QED BY <1>1, <2>1
<1>3. \A i \in 1..Len(Append(s, b)) : Append(s, b)[i] = t[i]
    <2> TAKE i \in 1..Len(Append(s, b))
    <2>1. i = 1 \/ i = 2
        BY <1>2
    <2> QED BY <1>1, <1>2, <2>1
<1>4. Append(s, b) = t
    BY <1>1, <1>2, <1>3, SeqEqual
<1> QED BY <1>4 DEF s, t

\* The call of a device is the last of an attempt, or the first of two.
LEMMA CalledFacts ==
    ASSUME WhisperAssumption, FallbackInv, at = "whisper"
    PROVE  /\ attempt # None /\ attempt \in Attempts /\ Fallback!Called \in Attempts
           /\ Fallback!Called.cpu = attempt.cpu /\ Fallback!Called.failure = attempt.failure
           /\ Fallback!Called.asked = IF attempt.failure THEN <<"gpu", "cpu">>
                                      ELSE <<Fallback!Device>>
           /\ Fallback!Device \in Devices
           /\ attempt.failure => Fallback!Device = "cpu"
<1> USE DEF FallbackInv
<1> DEFINE asked == Append(attempt.asked, Fallback!Device)
<1>1. /\ attempt # None /\ attempt \in Attempts
      /\ attempt.asked = IF attempt.failure THEN <<"gpu">> ELSE <<>>
      /\ attempt.failure => attempt.cpu
    BY DEF FallbackShapes, AttemptFits
<1>2. Fallback!Device = (IF attempt.cpu THEN "cpu" ELSE "gpu") /\ Fallback!Device \in Devices
    BY DEF Fallback!Device, Devices
<1> HIDE DEF Fallback!Device
<1>3. asked = IF attempt.failure THEN <<"gpu", "cpu">> ELSE <<Fallback!Device>>
    <2>1. CASE attempt.failure
        <3>1. asked = Append(<<"gpu">>, "cpu")
            BY <1>1, <1>2, <2>1
        <3> HIDE DEF asked
        <3>2. "gpu" \in Devices /\ "cpu" \in Devices
            BY DEF Devices
        <3>3. Append(<<"gpu">>, "cpu") = <<"gpu", "cpu">>
            BY <3>2, SecondAppended
        <3> QED BY <2>1, <3>1, <3>3
    <2>2. CASE ~attempt.failure
        <3>1. asked = Append(<<>>, Fallback!Device)
            BY <1>1, <2>2
        <3> HIDE DEF asked
        <3> QED BY <2>2, <3>1
    <2> QED BY <2>1, <2>2
<1>4. asked \in Seq(Devices)
    <2>1. <<"gpu", "cpu">> \in Seq(Devices) /\ <<Fallback!Device>> \in Seq(Devices)
        BY <1>2 DEF Devices
    <2> QED BY <1>3, <2>1
<1>5. Fallback!Called = [attempt EXCEPT !.asked = asked]
    BY DEF Fallback!Called
<1> HIDE DEF asked
<1>6. /\ Fallback!Called \in Attempts /\ Fallback!Called.cpu = attempt.cpu
      /\ Fallback!Called.failure = attempt.failure /\ Fallback!Called.asked = asked
    BY <1>1, <1>4, <1>5, Zenon DEF Attempts
<1> QED BY <1>1, <1>2, <1>3, <1>6

\* A call succeeds, with its output or without.
LEMMA SucceedKeeps ==
    ASSUME WhisperAssumption, FallbackInv, Fallback!Succeed PROVE FallbackInv'
<1> USE DEF FallbackInv
<1> DEFINE called == Fallback!Called
<1>1. /\ at = "whisper" /\ at' = "device" /\ UNCHANGED <<configured, evidence, chunk, noGpu>>
      /\ \/ attempt' = [called EXCEPT !.output = "whole", !.by = Fallback!Device]
         \/ attempt' = [called EXCEPT !.silent = TRUE]
    BY DEF Fallback!Succeed
<1>2. /\ attempt # None /\ attempt \in Attempts /\ called \in Attempts
      /\ called.cpu = attempt.cpu /\ called.failure = attempt.failure
      /\ called.asked = IF attempt.failure THEN <<"gpu", "cpu">> ELSE <<Fallback!Device>>
      /\ Fallback!Device \in Devices
    BY <1>1, CalledFacts
<1> HIDE DEF called
<1>3. /\ attempt' \in Attempts /\ attempt'.cpu = attempt.cpu
      /\ attempt'.failure = attempt.failure /\ attempt'.asked = called.asked
      /\ attempt'.silent \/ attempt'.by = Fallback!Device
    <2>1. CASE attempt' = [called EXCEPT !.output = "whole", !.by = Fallback!Device]
        <3>1. "whole" \in {None, "torn", "whole"} /\ Fallback!Device \in Devices \cup {None}
            BY <1>2
        <3> HIDE DEF Fallback!Device
        <3>2. /\ attempt' \in Attempts /\ attempt'.cpu = called.cpu
              /\ attempt'.failure = called.failure /\ attempt'.asked = called.asked
              /\ attempt'.by = Fallback!Device
            BY <1>2, <2>1, <3>1, Zenon DEF Attempts
        <3> QED BY <1>2, <3>2
    <2>2. CASE attempt' = [called EXCEPT !.silent = TRUE]
        <3>1. TRUE \in BOOLEAN
            OBVIOUS
        <3>2. /\ attempt' \in Attempts /\ attempt'.cpu = called.cpu
              /\ attempt'.failure = called.failure /\ attempt'.asked = called.asked
              /\ attempt'.silent = TRUE
            BY <1>2, <2>2, <3>1, Zenon DEF Attempts
        <3> QED BY <1>2, <3>2
    <2> QED BY <1>1, <2>1, <2>2
<1>4. /\ at' = "device" /\ at = "whisper" /\ UNCHANGED <<configured, evidence, chunk, noGpu>>
      /\ at # None /\ attempt' # None /\ Fallback!Device' = Fallback!Device
    BY <1>1, <1>3 DEF WhisperAssumption, Fallback!Device
<1> HIDE <1>1
<1>5. FallbackShapes'
    BY <1>3, <1>4 DEF FallbackShapes
<1>6. GpuSoFar' /\ EvidenceFits'
    BY <1>4 DEF GpuSoFar, EvidenceFits
<1>7. AttemptFits'
    BY <1>2, <1>3, <1>4 DEF AttemptFits
<1> QED BY <1>5, <1>6, <1>7

\* A call that failed is made again without the GPU, once.
LEMMA FailOnGpuKeeps ==
    ASSUME WhisperAssumption, FallbackInv, NEW output \in {None, "torn", "whole"},
           Fallback!FailOnGpu(output), ~attempt.cpu
    PROVE  FallbackInv'
<1> USE DEF FallbackInv
<1> DEFINE called == Fallback!Called
           by == IF output = None THEN None ELSE Fallback!Device
<1>1. /\ at = "whisper" /\ UNCHANGED <<at, configured, evidence, chunk, noGpu>>
      /\ attempt' = [called EXCEPT !.cpu = TRUE, !.failure = TRUE, !.output = output,
                                   !.by = by]
    BY DEF Fallback!FailOnGpu
<1>2. /\ attempt # None /\ attempt \in Attempts /\ called \in Attempts
      /\ called.asked = IF attempt.failure THEN <<"gpu", "cpu">> ELSE <<Fallback!Device>>
      /\ by \in Devices \cup {None}
    BY <1>1, CalledFacts
<1> HIDE DEF called, by
<1>3. /\ attempt' \in Attempts /\ attempt'.cpu = TRUE /\ attempt'.failure = TRUE
      /\ attempt'.asked = called.asked
    <2>1. TRUE \in BOOLEAN
        OBVIOUS
    <2> QED BY <1>1, <1>2, <2>1, Zenon DEF Attempts
<1>4. attempt.failure = FALSE /\ noGpu = FALSE /\ called.asked = <<"gpu">>
    BY <1>1, <1>2 DEF AttemptFits, Fallback!Device, Attempts, FallbackShapes
<1>5. /\ at = "whisper" /\ UNCHANGED <<at, configured, evidence, chunk, noGpu>>
      /\ at # None /\ attempt' # None
    BY <1>1, <1>3 DEF WhisperAssumption
<1> HIDE <1>1
<1>6. FallbackShapes'
    BY <1>3, <1>5 DEF FallbackShapes
<1>7. GpuSoFar' /\ EvidenceFits'
    BY <1>5 DEF GpuSoFar, EvidenceFits
<1>8. AttemptFits'
    BY <1>2, <1>3, <1>4, <1>5 DEF AttemptFits
<1> QED BY <1>6, <1>7, <1>8

\* Whoever gives up leaves the evidence as it is.
LEMMA GivingUpKeeps ==
    ASSUME WhisperAssumption, FallbackInv, Fallback!GivesUp,
           UNCHANGED <<configured, evidence, chunk, noGpu>>
    PROVE  FallbackInv'
<1> USE DEF FallbackInv
<1>1. at' = None /\ attempt' = None
    BY DEF Fallback!GivesUp
<1>2. FallbackShapes'
    BY <1>1 DEF FallbackShapes, WhisperAssumption
<1> QED BY <1>1, <1>2 DEF GpuSoFar, AttemptFits, EvidenceFits

\* The device of the last call is written down.
LEMMA DeviceKeeps ==
    ASSUME WhisperAssumption, FallbackInv, Fallback!WriteDevice PROVE FallbackInv'
<1> USE DEF FallbackInv
<1>1. /\ at = "device" /\ at' = "read" /\ UNCHANGED <<configured, evidence, chunk, noGpu>>
      /\ attempt' = [attempt EXCEPT !.device = Fallback!Device]
      /\ attempt \in Attempts /\ attempt # None
    BY DEF Fallback!WriteDevice, FallbackShapes
<1>2. Fallback!Device \in Devices \cup {None}
    BY DEF Fallback!Device, Devices
<1>3. /\ attempt' \in Attempts /\ attempt'.device = Fallback!Device
      /\ attempt'.cpu = attempt.cpu /\ attempt'.failure = attempt.failure
      /\ attempt'.asked = attempt.asked /\ attempt'.by = attempt.by
      /\ attempt'.silent = attempt.silent
    <2> HIDE DEF Fallback!Device
    <2> QED BY <1>1, <1>2, Zenon DEF Attempts
<1>4. /\ at = "device" /\ at' = "read" /\ UNCHANGED <<configured, evidence, chunk, noGpu>>
      /\ at # None /\ attempt # None /\ attempt' # None /\ Fallback!Device' = Fallback!Device
    BY <1>1, <1>3 DEF WhisperAssumption, Fallback!Device
<1> HIDE <1>1
<1>5. FallbackShapes'
    BY <1>3, <1>4 DEF FallbackShapes
<1>6. GpuSoFar' /\ EvidenceFits'
    BY <1>4 DEF GpuSoFar, EvidenceFits
<1>7. AttemptFits'
    BY <1>3, <1>4 DEF AttemptFits
<1> QED BY <1>5, <1>6, <1>7

\* An attempt becomes the evidence of its chunk.
LEMMA StoreKeeps ==
    ASSUME WhisperAssumption, FallbackInv, Fallback!Store, attempt.output = "whole"
    PROVE  FallbackInv'
<1> USE DEF FallbackInv
<1> DEFINE measured == [device |-> attempt.device, fallback |-> attempt.failure,
                    asked |-> attempt.asked, by |-> attempt.by, silent |-> attempt.silent]
<1>1. /\ at = "read" /\ at' = "chunk" /\ attempt' = None /\ chunk' = chunk + 1
      /\ UNCHANGED configured
      /\ evidence' = [evidence EXCEPT ![chunk] = measured]
      /\ noGpu' = (noGpu \/ attempt.device = "cpu")
    BY DEF Fallback!Store
<1>2. /\ attempt \in Attempts /\ attempt # None /\ at # None
      /\ chunk \in 1..AudioChunks /\ AudioChunks \in Nat
      /\ evidence \in [1..AudioChunks -> Evidences \cup {None}]
    BY <1>1 DEF FallbackShapes, AttemptFits, WhisperAssumption
<1>3. attempt.device = (IF attempt.cpu THEN "cpu" ELSE "gpu") /\ attempt.device \in Devices
    BY <1>1, <1>2 DEF AttemptFits, Fallback!Device, Devices
<1>4. /\ measured \in Evidences /\ measured.device = attempt.device /\ measured.by = attempt.by
      /\ measured.asked = attempt.asked /\ measured.fallback = attempt.failure
      /\ measured.silent = attempt.silent
    BY <1>2, <1>3 DEF Evidences, Attempts
<1> HIDE DEF measured
<1>5. /\ evidence' \in [1..AudioChunks -> Evidences \cup {None}] /\ evidence'[chunk] = measured
      /\ \A k \in 1..AudioChunks : k # chunk => evidence'[k] = evidence[k]
    BY <1>1, <1>2, <1>4
<1>6. FallbackShapes'
    BY <1>1, <1>2, <1>5 DEF FallbackShapes, WhisperAssumption
<1>7. measured # None
    BY <1>4 DEF WhisperAssumption
<1>8. attempt.cpu <=> noGpu \/ attempt.failure
    BY <1>2 DEF AttemptFits
<1>9. configured => noGpu
    BY <1>2 DEF GpuSoFar
<1>10. GpuSoFar'
    <2>0. chunk' - 1 = chunk /\ configured' = configured
        BY <1>1, <1>2
    <2>9. configured => noGpu'
        BY <1>1, <1>9
    <2> SUFFICES ASSUME ~noGpu', NEW k \in 1..chunk
                 PROVE  evidence'[k] # None /\ evidence'[k].device = "gpu"
        BY <2>0, <2>9 DEF GpuSoFar
    <2>1. ~noGpu /\ attempt.device = "gpu"
        BY <1>1, <1>3
    <2>2. CASE k = chunk
        BY <1>4, <1>5, <1>7, <2>1, <2>2
    <2>3. CASE k # chunk
        <3>1. k \in 1..(chunk - 1) /\ k \in 1..AudioChunks
            BY <1>2, <2>3
        <3> QED BY <1>2, <1>5, <2>1, <2>3, <3>1 DEF GpuSoFar
    <2> QED BY <2>2, <2>3
<1>11. EvidenceFits'
    <2> SUFFICES ASSUME NEW k \in 1..AudioChunks, evidence'[k] # None
                 PROVE  /\ evidence'[k].silent \/ evidence'[k].device = evidence'[k].by
                        /\ evidence'[k].asked =
                              IF evidence'[k].fallback THEN <<"gpu", "cpu">>
                              ELSE <<evidence'[k].device>>
                        /\ configured => evidence'[k].device = "cpu"
        BY <1>1 DEF EvidenceFits
    <2>1. CASE k = chunk
        <3>1. /\ attempt.asked = IF attempt.failure THEN <<"gpu", "cpu">>
                                 ELSE <<attempt.device>>
              /\ attempt.silent \/ attempt.by = attempt.device
            BY <1>1, <1>2 DEF AttemptFits
        <3>2. configured => attempt.device = "cpu"
            BY <1>3, <1>8, <1>9
        <3> QED BY <1>4, <1>5, <2>1, <3>1, <3>2
    <2>2. CASE k # chunk
        BY <1>5, <2>2 DEF EvidenceFits
    <2> QED BY <2>1, <2>2
<1> QED BY <1>1, <1>6, <1>10, <1>11 DEF AttemptFits

\* Between two runs the evidence of a chunk may be lost.
LEMMA DamageKeeps ==
    ASSUME WhisperAssumption, FallbackInv, NEW k \in 1..AudioChunks, Fallback!Damage(k)
    PROVE  FallbackInv'
<1> USE DEF FallbackInv
<1>1. /\ at = None /\ evidence' = [evidence EXCEPT ![k] = None]
      /\ UNCHANGED <<configured, at, chunk, noGpu, attempt>>
    BY DEF Fallback!Damage
<1>2. FallbackShapes'
    BY <1>1 DEF FallbackShapes
<1>3. EvidenceFits'
    BY <1>1 DEF EvidenceFits, FallbackShapes
<1>4. attempt = None
    BY <1>1 DEF FallbackShapes, WhisperAssumption
<1> QED BY <1>1, <1>2, <1>3, <1>4 DEF GpuSoFar, AttemptFits

\* Every step of the recogniser keeps the invariant.
LEMMA FallbackStep ==
    ASSUME WhisperAssumption
    PROVE  FallbackInv /\ [Fallback!WhisperNext]_Fallback!whisperVars => FallbackInv'
<1> SUFFICES ASSUME FallbackInv, [Fallback!WhisperNext]_Fallback!whisperVars
             PROVE  FallbackInv'
    OBVIOUS
<1>1. CASE Fallback!Begin \/ Fallback!Finish
    BY <1>1, BeginKeeps
<1>2. CASE Fallback!Reuse
    BY <1>2, ReuseKeeps
<1>3. CASE Fallback!Open
    BY <1>3, OpenKeeps
<1>4. CASE Fallback!Succeed
    BY <1>4, SucceedKeeps
<1>5. CASE Fallback!Break
    BY <1>5, GivingUpKeeps DEF Fallback!Break
<1>6. CASE Fallback!WriteDevice
    BY <1>6, DeviceKeeps
<1>7. CASE Fallback!Store
    <2>1. CASE attempt.output = "whole"
        BY <1>7, <2>1, StoreKeeps
    <2>2. CASE attempt.output # "whole"
        BY <1>7, <2>2, GivingUpKeeps DEF Fallback!Store
    <2> QED BY <2>1, <2>2
<1>8. ASSUME NEW output \in {None, "torn", "whole"}, Fallback!FailOnGpu(output)
      PROVE  FallbackInv'
    <2>1. CASE ~attempt.cpu
        BY <1>8, <2>1, FailOnGpuKeeps
    <2>2. CASE attempt.cpu
        BY <1>8, <2>2, GivingUpKeeps DEF Fallback!FailOnGpu
    <2> QED BY <2>1, <2>2
<1>9. ASSUME NEW k \in 1..AudioChunks, Fallback!Damage(k) PROVE FallbackInv'
    BY <1>9, DamageKeeps
<1>10. CASE UNCHANGED Fallback!whisperVars
    BY <1>10 DEF FallbackInv, FallbackShapes, GpuSoFar, AttemptFits, EvidenceFits,
                 Fallback!whisperVars, Fallback!Device
<1> QED BY <1>1, <1>2, <1>3, <1>4, <1>5, <1>6, <1>7, <1>8, <1>9, <1>10
        DEF Fallback!WhisperNext

\* Evidence names the device that made it and tells of a fallback exactly when there was
\* one, and once the GPU has failed it is not asked again (run_whisper_with_fallback and
\* recognize_plan): for any number of chunks, runs, failures and losses of evidence.
THEOREM DeviceIsHonest ==
    ASSUME WhisperAssumption PROVE Fallback!WhisperSpec => []Fallback!DeviceHonest
<1>1. FallbackInv => Fallback!DeviceHonest
    <2> SUFFICES ASSUME FallbackInv PROVE Fallback!DeviceHonest
        OBVIOUS
    <2>1. EvidenceFits
        BY DEF FallbackInv
    <2>2. ASSUME attempt # None, attempt.asked # <<>>, attempt.asked[1] = "gpu",
                 NEW k \in 1..(chunk - 1)
          PROVE  evidence[k].device = "gpu"
        <3>1. ~noGpu /\ at # None
            BY <2>2 DEF FallbackInv, FallbackShapes, AttemptFits, Fallback!Device,
                        WhisperAssumption
        <3> QED BY <3>1 DEF FallbackInv, GpuSoFar
    <2> QED BY <2>1, <2>2 DEF EvidenceFits, Fallback!DeviceHonest
<1>2. Fallback!WhisperInit => FallbackInv
    BY FallbackInitially
<1> QED BY <1>1, <1>2, FallbackStep, PTL DEF Fallback!WhisperSpec

audio == x3
call == x6
session == x7
answer == x5
abandoned == x8
replaced == x9
USE DEF audio, call, session, stored, answer, abandoned, replaced, calls

(***************************************************************************)
(* CloudRecognition: the words are of the whole audio, which does not stay *)
(* at the service.                                                         *)
(*                                                                         *)
(* As long as nobody replaces the audio, the session has its bytes up to   *)
(* the offset.  A file that is kept at the service was left behind, or is  *)
(* the one whose words are asked for.                                      *)
(***************************************************************************)
Audios == [length : Lengths, mark : {1, 2}]
Marked == {1, 2} \X Nat
Uploads == [upload : Nat, bytes : Seq(Marked)]
CallSteps == {"inspect", "start", "open", "send", "ask", "delete", "parse"}
CloudCalls == [at : CallSteps, total : Nat, offset : Nat, file : Uploads \cup {None},
               words : WordCounts \cup {None}]

CloudAssumption ==
    /\ Lengths \subseteq Nat /\ ChunkSize \in Nat \ {0}
    /\ None \notin Audios \cup Uploads \cup Seq(Marked)

CloudShapes ==
    /\ audio \in Audios \cup {None} /\ calls \in Nat
    /\ call \in CloudCalls \cup {Cloud!Idle}
    /\ call.at \in {"inspect", "start", "open"} => call.offset = 0
    /\ call.at = "open" => session = <<>>
    /\ call.at = "send" => session \in Seq(Marked) /\ call.offset <= call.total
    /\ call.at \in {"ask", "delete", "parse"} => call.file \in Uploads

\* What is uploaded is the audio so far.
UploadFollows ==
    ~replaced =>
        /\ call.at \in {"start", "open", "send"} => audio # None /\ call.total = audio.length
        /\ call.at = "send" => session = SubSeq(Cloud!BytesOf(audio), 1, call.offset)
        /\ call.at \in {"ask", "delete", "parse"} => call.file.bytes = Cloud!BytesOf(audio)
        /\ answer \notin {None, Cloud!Failed} => answer.heard = Cloud!BytesOf(audio)

\* What is kept is left behind, or on its way to be deleted.
KeptInSight ==
    stored \subseteq abandoned \cup (IF call.at \in {"ask", "delete"} THEN {call.file} ELSE {})

CloudInv == CloudShapes /\ UploadFollows /\ KeptInSight

\* The bytes of an audio file are a sequence as long as the file.
LEMMA BytesFacts ==
    ASSUME CloudAssumption, NEW a \in Audios
    PROVE  Cloud!BytesOf(a) \in Seq(Marked) /\ Len(Cloud!BytesOf(a)) = a.length
<1>1. a.length \in Nat /\ a.mark \in {1, 2}
    BY DEF Audios, CloudAssumption
<1>2. Cloud!BytesOf(a) \in [1..a.length -> Marked]
    BY <1>1 DEF Cloud!BytesOf, Marked
<1>3. Cloud!BytesOf(a) \in Seq(Marked)
    BY <1>1, <1>2, SeqDef
<1>4. 1..Len(Cloud!BytesOf(a)) = 1..a.length /\ Len(Cloud!BytesOf(a)) \in Nat
    BY <1>2, <1>3, LenProperties
<1> QED BY <1>1, <1>3, <1>4

\* Nothing is uploaded at first.
LEMMA CloudInitially ==
    ASSUME CloudAssumption PROVE Cloud!CloudInit => CloudInv
<1> SUFFICES ASSUME Cloud!CloudInit PROVE CloudInv
    OBVIOUS
<1>1. /\ audio \in {None} \cup {Cloud!Audio(n, 1) : n \in Lengths}
      /\ call = Cloud!Idle /\ call.at = "idle" /\ stored = {} /\ answer = None /\ calls = 0
    BY DEF Cloud!CloudInit, Cloud!Idle
<1>2. audio \in Audios \cup {None}
    BY <1>1 DEF Cloud!Audio, Audios
<1> QED BY <1>1, <1>2 DEF CloudInv, CloudShapes, UploadFollows, KeptInSight

\* A recognition that fails leaves no file at the service that is not left behind.
LEMMA FailedKeeps ==
    ASSUME CloudAssumption, CloudInv, call' = Cloud!Idle, answer' \in {None, Cloud!Failed},
           audio' = audio, calls' \in Nat, stored' \subseteq abandoned'
    PROVE  CloudInv'
<1>1. call'.at = "idle"
    BY DEF Cloud!Idle
<1> QED BY <1>1 DEF CloudInv, CloudShapes, UploadFollows, KeptInSight

\* A recognition that has not begun its upload, or has its words.
LEMMA BeginsKeeps ==
    ASSUME CloudAssumption, CloudInv, NEW authorized \in BOOLEAN, Cloud!Begin(authorized)
    PROVE  CloudInv'
<1> USE DEF CloudInv
<1>1. /\ call = Cloud!Idle /\ call.at = "idle" /\ UNCHANGED <<audio, session, stored, abandoned>>
      /\ calls' = calls + 1 /\ calls' \in Nat /\ replaced' = FALSE
               /\ stored' \subseteq abandoned'
    BY DEF Cloud!Begin, Cloud!service, Cloud!Idle, CloudShapes, KeptInSight
<1>2. CASE authorized
    <2>1. /\ call' = [at |-> "inspect", total |-> 0, offset |-> 0, file |-> None, words |-> None]
          /\ answer' = None
        BY <1>2 DEF Cloud!Begin
    <2>2. call' \in CloudCalls /\ call'.at = "inspect" /\ call'.offset = 0
        BY <2>1 DEF CloudCalls, CallSteps
    <2>3. CloudShapes'
        BY <1>1, <2>2 DEF CloudShapes
    <2> QED BY <1>1, <2>1, <2>2, <2>3 DEF UploadFollows, KeptInSight
<1>3. CASE ~authorized
    <2>1. call' = Cloud!Idle /\ answer' = Cloud!Failed
        BY <1>3 DEF Cloud!Begin, Cloud!Ends
    <2> QED BY <1>1, <2>1, FailedKeeps
<1> QED BY <1>2, <1>3

\* The length is taken, the session opened, and the file.
LEMMA UploadBegins ==
    ASSUME CloudAssumption, CloudInv,
           Cloud!Inspect \/ Cloud!StartUpload \/ Cloud!OpenAudio
    PROVE  CloudInv'
<1> USE DEF CloudInv
<1>1. /\ UNCHANGED <<audio, stored, abandoned, replaced, calls>>
      /\ call.at \in {"inspect", "start", "open"} /\ call \in CloudCalls /\ calls \in Nat
      /\ call # Cloud!Idle
    BY DEF Cloud!Inspect, Cloud!StartUpload, Cloud!OpenAudio, Cloud!service, CloudShapes,
           Cloud!Idle
<1>2. stored' \subseteq abandoned'
    BY <1>1 DEF KeptInSight
<1>3. CASE call' = Cloud!Idle /\ answer' = Cloud!Failed
    BY <1>1, <1>2, <1>3, FailedKeeps
<1>4. CASE Cloud!Inspect /\ audio # None
    <2>1. /\ call.at = "inspect" /\ audio.length \in Nat /\ answer' = answer
          /\ call' = [call EXCEPT !.at = "start", !.total = audio.length]
        BY <1>4 DEF Cloud!Inspect, Cloud!Steps, CloudShapes, Audios, CloudAssumption
    <2>2. call' \in CloudCalls /\ call'.at = "start" /\ call'.total = audio.length
          /\ call'.offset = call.offset
        <3>1. "start" \in CallSteps
            BY DEF CallSteps
        <3> QED BY <1>1, <2>1, <3>1, Zenon DEF CloudCalls
    <2> QED BY <1>1, <1>4, <2>1, <2>2 DEF CloudShapes, UploadFollows, KeptInSight
<1>5. CASE call.at = "start" /\ session' = <<>> /\ Cloud!Steps([call EXCEPT !.at = "open"])
    <2>1. /\ call.at = "start" /\ answer' = answer /\ session' = <<>>
          /\ call' = [call EXCEPT !.at = "open"]
        BY <1>5 DEF Cloud!Steps
    <2>2. /\ call' \in CloudCalls /\ call'.at = "open" /\ call'.total = call.total
          /\ call'.offset = call.offset
        <3>1. "open" \in CallSteps
            BY DEF CallSteps
        <3> QED BY <1>1, <2>1, <3>1, Zenon DEF CloudCalls
    <2> QED BY <1>1, <2>1, <2>2 DEF CloudShapes, UploadFollows, KeptInSight
<1>6. CASE Cloud!OpenAudio /\ audio # None
    <2>1. /\ call.at = "open" /\ answer' = answer /\ session' = session
          /\ call' = [call EXCEPT !.at = "send"]
        BY <1>6 DEF Cloud!OpenAudio, Cloud!Steps, Cloud!service
    <2>2. /\ call' \in CloudCalls /\ call'.at = "send" /\ call'.total = call.total
          /\ call'.offset = call.offset
        <3>1. "send" \in CallSteps
            BY DEF CallSteps
        <3> QED BY <1>1, <2>1, <3>1, Zenon DEF CloudCalls
    <2>3. session' = SubSeq(Cloud!BytesOf(audio), 1, call'.offset) /\ session' \in Seq(Marked)
        BY <1>1, <2>1, <2>2, SubSeqEmpty, EmptySeq DEF CloudShapes
    <2>4. call'.offset <= call'.total
        BY <1>1, <2>1, <2>2 DEF CloudShapes, CloudCalls
    <2> QED BY <1>1, <1>6, <2>1, <2>2, <2>3, <2>4 DEF CloudShapes, UploadFollows,
                   KeptInSight
<1>7. Cloud!Inspect /\ audio = None => call' = Cloud!Idle /\ answer' = Cloud!Failed
    BY DEF Cloud!Inspect, Cloud!Ends
<1>8. Cloud!StartUpload =>
         \/ call' = Cloud!Idle /\ answer' = Cloud!Failed
         \/ call.at = "start" /\ session' = <<>> /\ Cloud!Steps([call EXCEPT !.at = "open"])
    BY DEF Cloud!StartUpload, Cloud!Ends
<1>9. Cloud!OpenAudio /\ audio = None => call' = Cloud!Idle /\ answer' = Cloud!Failed
    BY DEF Cloud!OpenAudio, Cloud!Ends
<1> QED BY <1>3, <1>4, <1>5, <1>6, <1>7, <1>8, <1>9

\* Chunk after chunk is what follows of the audio; the last one makes the upload a file.
LEMMA SendKeeps ==
    ASSUME CloudAssumption, CloudInv, Cloud!SendChunk PROVE CloudInv'
<1> USE DEF CloudInv
<1> DEFINE end == call.offset + Cloud!ChunkLength
           bytes == Cloud!BytesOf(audio)
           piece == SubSeq(bytes, call.offset + 1, end)
           file == [upload |-> calls, bytes |-> session \o piece]
           final == end = call.total
<1>1. /\ UNCHANGED <<audio, replaced, calls>> /\ call.at = "send"
      /\ call \in CloudCalls /\ calls \in Nat
      /\ call.offset \in Nat /\ call.total \in Nat /\ call.offset <= call.total
      /\ session \in Seq(Marked)
    BY DEF Cloud!SendChunk, CloudShapes, CloudCalls, Cloud!Idle
<1>2. /\ end \in Nat /\ call.offset <= end /\ end <= call.total
      /\ ~final => end = call.offset + ChunkSize
    <2> DEFINE rest == call.total - call.offset
    <2>1. rest \in Nat /\ ChunkSize \in Nat
        BY <1>1 DEF CloudAssumption
    <2> HIDE DEF rest
    <2>2. /\ Cloud!Min({rest, ChunkSize}) \in {rest, ChunkSize}
          /\ Cloud!Min({rest, ChunkSize}) <= rest
        <3>1. \E n \in {rest, ChunkSize} : \A m \in {rest, ChunkSize} : n <= m
            BY <2>1
        <3> QED BY <3>1 DEF Cloud!Min
    <2>3. Cloud!ChunkLength = Cloud!Min({rest, ChunkSize})
        BY DEF Cloud!ChunkLength, rest
    <2> QED BY <1>1, <2>1, <2>2, <2>3 DEF rest
<1>3. stored \subseteq abandoned
    BY <1>1 DEF KeptInSight
<1>4. CASE audio = None \/ end > audio.length
    <2>1. call' = Cloud!Idle /\ answer' = Cloud!Failed /\ UNCHANGED <<stored, abandoned>>
        BY <1>4 DEF Cloud!SendChunk, Cloud!Ends, Cloud!service
    <2> QED BY <1>1, <1>3, <2>1, FailedKeeps
<1>5. CASE ~(audio = None \/ end > audio.length)
    <2>1. /\ session' = IF final THEN None ELSE file.bytes
          /\ stored' = IF final THEN stored \cup {file} ELSE stored
          /\ \/ /\ call' = IF final THEN [call EXCEPT !.at = "ask", !.file = file]
                           ELSE [call EXCEPT !.offset = call.offset + ChunkSize]
                /\ answer' = answer /\ UNCHANGED abandoned
             \/ /\ call' = Cloud!Idle /\ answer' = Cloud!Failed
                /\ abandoned' = IF final THEN abandoned \cup {file} ELSE abandoned
        BY <1>5 DEF Cloud!SendChunk, Cloud!Ends, Cloud!Steps
    <2>2. /\ audio \in Audios /\ bytes \in Seq(Marked) /\ Len(bytes) = audio.length
          /\ audio.length \in Nat /\ end <= audio.length
        <3>1. audio \in Audios /\ audio.length \in Nat
            BY <1>5 DEF CloudShapes, Audios, CloudAssumption
        <3> HIDE DEF bytes
        <3>2. bytes \in Seq(Marked) /\ Len(bytes) = audio.length
            BY <3>1, BytesFacts DEF bytes
        <3> QED BY <1>2, <1>5, <3>1, <3>2
    <2> HIDE DEF end, bytes
    <2>3. piece \in Seq(Marked)
        BY <1>1, <1>2, <2>2, SubSeqProperties, LenProperties
    <2> HIDE DEF piece
    <2>4. file \in Uploads /\ file.bytes = session \o piece /\ file.bytes \in Seq(Marked)
        BY <1>1, <2>3, ConcatProperties DEF Uploads
    <2>5. session = SubSeq(bytes, 1, call.offset) => file.bytes = SubSeq(bytes, 1, end)
        <3>1. /\ 1 \in 1..(Len(bytes) + 1) /\ call.offset \in (1 - 1)..Len(bytes)
              /\ end \in call.offset..Len(bytes)
            BY <1>1, <1>2, <2>2
        <3>2. SubSeq(bytes, 1, call.offset) \o piece = SubSeq(bytes, 1, end)
            BY <2>2, <3>1, ConcatAdjacentSubSeq DEF piece
        <3> QED BY <2>4, <3>2
    <2>6. SubSeq(bytes, 1, Len(bytes)) = bytes
        BY <2>2, SubSeqFull
    <2> HIDE DEF file
    <2>7. CASE call' = Cloud!Idle /\ answer' = Cloud!Failed
               /\ abandoned' = IF final THEN abandoned \cup {file} ELSE abandoned
        <3>1. stored' \subseteq abandoned'
            BY <1>3, <2>1, <2>7
        <3> QED BY <1>1, <2>7, <3>1, FailedKeeps
    <2>8. CASE final /\ call' = [call EXCEPT !.at = "ask", !.file = file]
               /\ answer' = answer /\ UNCHANGED abandoned
        <3>1. /\ call' \in CloudCalls /\ call'.at = "ask" /\ call'.file = file
            <4>1. "ask" \in CallSteps /\ file \in Uploads \cup {None}
                BY <2>4 DEF CallSteps
            <4> QED BY <1>1, <2>8, <4>1, Zenon DEF CloudCalls
        <3>2. CloudShapes'
            BY <1>1, <2>4, <3>1 DEF CloudShapes
        <3>3. ~replaced => file.bytes = bytes
            BY <1>1, <2>2, <2>5, <2>6, <2>8 DEF UploadFollows, bytes
        <3>4. UploadFollows'
            BY <1>1, <2>8, <3>1, <3>3 DEF UploadFollows, bytes
        <3>5. KeptInSight'
            BY <1>3, <2>1, <2>8, <3>1 DEF KeptInSight
        <3> QED BY <3>2, <3>4, <3>5
    <2>9. CASE ~final /\ call' = [call EXCEPT !.offset = call.offset + ChunkSize]
               /\ answer' = answer /\ UNCHANGED abandoned
        <3>1. /\ call' \in CloudCalls /\ call'.at = "send" /\ call'.offset = end
              /\ call'.total = call.total
            <4>1. call.offset + ChunkSize \in Nat
                BY <1>1 DEF CloudAssumption
            <4>2. /\ call' \in CloudCalls /\ call'.at = call.at
                  /\ call'.offset = call.offset + ChunkSize /\ call'.total = call.total
                BY <1>1, <2>9, <4>1, Zenon DEF CloudCalls
            <4> QED BY <1>1, <1>2, <2>9, <4>2
        <3>2. session' = file.bytes /\ stored' = stored
            BY <2>1, <2>9
        <3>3. CloudShapes'
            BY <1>1, <1>2, <2>4, <3>1, <3>2 DEF CloudShapes
        <3>4. UploadFollows'
            BY <1>1, <2>5, <2>9, <3>1, <3>2 DEF UploadFollows, bytes
        <3>5. KeptInSight'
            BY <1>3, <2>9, <3>2 DEF KeptInSight
        <3> QED BY <3>3, <3>4, <3>5
    <2> QED BY <2>1, <2>7, <2>8, <2>9
<1> QED BY <1>4, <1>5

\* The words are asked for, and the file is deleted whatever was answered.
LEMMA AnswerKeeps ==
    ASSUME CloudAssumption, CloudInv, Cloud!AskWords \/ Cloud!DeleteFile PROVE CloudInv'
<1> USE DEF CloudInv
<1>1. /\ UNCHANGED <<audio, session, replaced, calls>> /\ answer' = answer
      /\ call.at \in {"ask", "delete"} /\ call \in CloudCalls /\ call.file \in Uploads
    <2>1. /\ UNCHANGED <<audio, session, replaced, calls>> /\ call.at \in {"ask", "delete"}
        BY DEF Cloud!AskWords, Cloud!DeleteFile, Cloud!service
    <2>2. answer' = answer
        BY DEF Cloud!AskWords, Cloud!DeleteFile, Cloud!Steps
    <2> QED BY <2>1, <2>2 DEF CloudShapes, Cloud!Idle
<1>2. CASE Cloud!AskWords
    <2>1. /\ call.at = "ask" /\ UNCHANGED <<stored, abandoned>>
          /\ \/ \E n \in WordCounts : call' = [call EXCEPT !.at = "delete", !.words = n]
             \/ call' = [call EXCEPT !.at = "delete"]
        BY <1>2 DEF Cloud!AskWords, Cloud!Steps, Cloud!service
    <2>2. call' \in CloudCalls /\ call'.at = "delete" /\ call'.file = call.file
        <3>1. "delete" \in CallSteps
            BY DEF CallSteps
        <3>2. ASSUME NEW n \in WordCounts, call' = [call EXCEPT !.at = "delete",
                     !.words = n]
              PROVE  call' \in CloudCalls /\ call'.at = "delete" /\ call'.file = call.file
            <4>1. n \in WordCounts \cup {None}
                OBVIOUS
            <4> QED BY <1>1, <3>1, <3>2, <4>1, Zenon DEF CloudCalls
        <3>3. CASE call' = [call EXCEPT !.at = "delete"]
            BY <1>1, <3>1, <3>3, Zenon DEF CloudCalls
        <3> QED BY <2>1, <3>2, <3>3
    <2> QED BY <1>1, <2>1, <2>2 DEF CloudShapes, UploadFollows, KeptInSight
<1>3. CASE Cloud!DeleteFile
    <2>1. /\ call.at = "delete" /\ call' = [call EXCEPT !.at = "parse"]
          /\ \/ stored' = stored \ {call.file} /\ abandoned' = abandoned
             \/ stored' = stored /\ abandoned' = abandoned \cup {call.file}
        BY <1>3 DEF Cloud!DeleteFile, Cloud!Steps
    <2>2. call' \in CloudCalls /\ call'.at = "parse" /\ call'.file = call.file
        <3>1. "parse" \in CallSteps
            BY DEF CallSteps
        <3> QED BY <1>1, <2>1, <3>1, Zenon DEF CloudCalls
    <2> QED BY <1>1, <2>1, <2>2 DEF CloudShapes, UploadFollows, KeptInSight
<1> QED BY <1>2, <1>3

\* The answer has the words of the file that was uploaded.
LEMMA ParseKeeps ==
    ASSUME CloudAssumption, CloudInv, Cloud!ParseWords PROVE CloudInv'
<1> USE DEF CloudInv
<1>1. /\ UNCHANGED <<audio, session, stored, abandoned, replaced, calls>>
      /\ call.at = "parse" /\ call' = Cloud!Idle /\ call'.at = "idle"
      /\ answer' = IF call.words \in {None, 0} THEN Cloud!Failed
                   ELSE [words |-> call.words, heard |-> call.file.bytes]
    BY DEF Cloud!ParseWords, Cloud!Ends, Cloud!service, Cloud!Idle
<1> QED BY <1>1 DEF CloudShapes, UploadFollows, KeptInSight

\* A recognition that is dropped leaves its file behind.
LEMMA CancelKeeps ==
    ASSUME CloudAssumption, CloudInv, Cloud!Cancel \/ Cloud!UploadFails PROVE CloudInv'
<1> USE DEF CloudInv
<1>1. /\ call' = Cloud!Idle /\ answer' = Cloud!Failed /\ UNCHANGED <<audio, calls>>
      /\ stored' \subseteq abandoned'
    BY DEF Cloud!Cancel, Cloud!UploadFails, Cloud!Ends, Cloud!service, KeptInSight
<1> QED BY <1>1, FailedKeeps DEF CloudShapes

\* Another audio is no longer what is uploaded.
LEMMA ReplacedKeeps ==
    ASSUME CloudAssumption, CloudInv, NEW n \in Lengths, Cloud!ReplaceAudio(n)
    PROVE  CloudInv'
<1> USE DEF CloudInv
<1>1. /\ UNCHANGED <<call, session, stored, abandoned, calls>> /\ replaced'
      /\ audio' \in Audios
    BY DEF Cloud!ReplaceAudio, Cloud!service, Cloud!Audio, Audios
<1> QED BY <1>1 DEF CloudShapes, UploadFollows, KeptInSight

\* The words of an answer are of the whole audio, unless it was replaced meanwhile, and
\* between two recognitions the service keeps no file but those that were left behind
\* (transcribe of gemini_asr.rs): for files of any length, any size of the chunks and any
\* number of recognitions, failures and cancellations.
THEOREM CloudIsHonest ==
    ASSUME CloudAssumption PROVE Cloud!CloudSpec => []Cloud!CloudHonest
<1>1. CloudInv => Cloud!CloudHonest
    BY DEF CloudInv, UploadFollows, KeptInSight, Cloud!CloudHonest, Cloud!Idle
<1>2. CloudInv /\ [Cloud!CloudNext]_Cloud!cloudVars => CloudInv'
    <2> SUFFICES ASSUME CloudInv, [Cloud!CloudNext]_Cloud!cloudVars PROVE CloudInv'
        OBVIOUS
    <2>1. CASE UNCHANGED Cloud!cloudVars
        BY <2>1 DEF CloudInv, CloudShapes, UploadFollows, KeptInSight, Cloud!cloudVars
    <2> QED BY <2>1, BeginsKeeps, UploadBegins, SendKeeps, AnswerKeeps, ParseKeeps,
               CancelKeeps, ReplacedKeeps
               DEF Cloud!CloudNext
<1> QED BY <1>1, <1>2, CloudInitially, PTL DEF Cloud!CloudSpec

segments == x4
files == x5
manifest == x6
command == x7
now == x3
commands == x8
worked == x9
lastSeen == x10
USE DEF segments, files, manifest, command, now, made, commands, worked, lastSeen,
        lapses

(***************************************************************************)
(* JobCommands: what a manifest says is true of its directory and time.    *)
(*                                                                         *)
(* A command is done when its list of steps is, so that what holds then    *)
(* rests on the order of the steps: a file is written after what is shown  *)
(* in it was made, and the segments are saved after the last of it.  An    *)
(* invariant says of each file that is not on the list any more, once what *)
(* makes its contents is not either, that it shows what the command holds. *)
(***************************************************************************)
Segments1 == [text : Nat, translation : Nat]
Manifests == [status : Jobs!Statuses \cup {"failed"}, stage : Jobs!Statuses \cup {None},
              elapsed : Nat, active : Nat \cup {None}, started : Nat \cup {None},
              completed : Nat \cup {None}, output : BOOLEAN]
StepNames == Jobs!Statuses \cup Jobs!Outputs \cup
             {"audio", "recognise", "segments", "translate", "read", "correct", "burn"}
Renderings == {"render", "rerender"}
Recognitions == {"transcribe", "process without a key", "process", "process and render"}
Commands == [name : CommandNames, todo : Seq(StepNames), held : Segments1 \cup {None},
             manifest : Manifests]

JobAssumption ==
    /\ CommandNames \subseteq Recognitions \cup Renderings \cup
                              {"translate", "apply glossary", "export"}
    /\ None \notin Nat \cup Jobs!Statuses \cup Manifests \cup Segments1 \cup Commands
    /\ Torn \notin Segments1 /\ Torn # None

JobShapes ==
    /\ segments \in Segments1 \cup {None}
    /\ files \in [Jobs!Outputs \cup {"video"} -> Segments1 \cup {None, Torn}]
    /\ manifest \in Manifests \cup {None} /\ command \in Commands \cup {None}
    /\ now \in Nat /\ made \in Nat /\ worked \in Nat /\ lastSeen \in Nat /\ lastSeen <= now

(***************************************************************************)
(* The order of the steps.                                                 *)
(***************************************************************************)
In(s) == {s[i] : i \in DOMAIN s}
\* Whatever is in A comes before a y.
Leads(s, A, y) ==
    \A i \in DOMAIN s : s[i] \in A => \E j \in DOMAIN s : i < j /\ s[j] = y
\* Nothing in B comes after anything in A.
NoneAfter(s, A, B) == \A i, j \in DOMAIN s : i < j /\ s[i] \in A => s[j] \notin B

Reads == {"read", "recognise"}
\* The steps that make what a file shows.
Makes(f) == Reads \cup {"correct"} \cup (IF f = "source" THEN {} ELSE {"translate"})
Changes == {"recognise", "correct", "translate"}
Needs == {"correct", "translate", "segments"} \cup Jobs!Outputs

WrittenBy(name) == Jobs!Outputs \cap In(Jobs!Steps(name))
InOrder(name, todo) ==
    /\ In(todo) \subseteq In(Jobs!Steps(name))
    /\ \A f \in WrittenBy(name) : Leads(todo, Makes(f), f)
    /\ Leads(todo, Changes, "segments")
    /\ NoneAfter(todo, Needs, Reads)
    /\ NoneAfter(todo, {"done"}, StepNames)
\* Nothing is written before the manifest says that it is not done any more.
Announced(todo) ==
    \A j \in DOMAIN todo : todo[j] \in {"segments"} \cup Jobs!Outputs =>
        \E i \in DOMAIN todo : i < j /\ todo[i] \in Jobs!Statuses \ {"done"}

(***************************************************************************)
(* What a running command has and has done.                                *)
(***************************************************************************)
Subtitles(name) == name \notin Renderings
Left == In(command.todo)

StepsFollow ==
    command # None =>
        /\ InOrder(command.name, command.todo)
        /\ manifest # None /\ manifest.status = "done" => Announced(command.todo)

HeldFollows ==
    command # None /\ Subtitles(command.name) =>
        /\ Left \cap Reads = {} => command.held \in Segments1
        /\ Left \cap (Reads \cup Changes \cup {"segments"}) = {} => segments = command.held
        /\ command.name = "translate" /\ "read" \notin Left =>
              segments \in Segments1 /\ command.held.text = segments.text

FilesFollow ==
    command # None =>
        /\ \A f \in WrittenBy(command.name) :
              f \notin Left /\ Left \cap Makes(f) = {} =>
                  Jobs!Shows(f, command.held, files[f])
        /\ "stale" \notin lapses =>
              \A f \in Jobs!Outputs \ WrittenBy(command.name) :
                  IF command.name \in Recognitions THEN files[f] = None
                  ELSE Jobs!Shows(f, segments, files[f])

\* The three parts of ManifestHonest.
DoneShows ==
    manifest # None /\ manifest.status = "done" /\ "stale" \notin lapses =>
        \A f \in Jobs!Outputs : f = "source" \/ files[f] # None =>
            Jobs!Shows(f, segments, files[f])

Spent(m, time) == m.elapsed + (IF m.active # None /\ time > m.active THEN time - m.active ELSE 0)
TimeKept ==
    /\ manifest # None /\ manifest.active # None => manifest.active <= now
    /\ command # None /\ command.manifest.active # None => command.manifest.active <= now
    /\ manifest # None /\ "idle" \notin lapses => worked = Spent(manifest, lastSeen)
    /\ manifest = None => worked = 0
    /\ manifest = None /\ command # None =>
          command.manifest.elapsed = 0 /\ command.manifest.active = None
    /\ command # None /\ "idle" \notin lapses =>
          /\ manifest # None => command.manifest.elapsed = manifest.elapsed
                                /\ command.manifest.active = manifest.active
          /\ command.manifest.active # None =>
                lastSeen = now \/ command.manifest.active = now

EndIsTold(m) ==
    /\ m.status = "failed" <=> m.stage # None
    /\ m.completed # None <=> m.status \in {"done", "failed"}
EndsAreTold ==
    /\ manifest # None => EndIsTold(manifest)
    /\ command # None => EndIsTold(command.manifest)

JobInv ==
    JobShapes /\ StepsFollow /\ HeldFollows /\ FilesFollow /\ DoneShows /\ TimeKept
    /\ EndsAreTold

\* Two lists, one after the other, in full.
Joins(s, t, u) ==
    /\ s \in Seq(StepNames) /\ t \in Seq(StepNames) /\ u \in Seq(StepNames)
    /\ Len(u) = Len(s) + Len(t)
    /\ \A i \in 1..Len(s) : u[i] = s[i]
    /\ \A i \in 1..Len(t) : u[Len(s) + i] = t[i]

\* Two lists that join to another are that one, put one after the other.
LEMMA Joined ==
    ASSUME NEW s, NEW t, NEW u, Joins(s, t, u) PROVE s \o t = u
<1> USE DEF Joins
<1>1. s \o t \in Seq(StepNames) /\ Len(s \o t) = Len(u)
    OBVIOUS
<1>2. \A i \in 1..Len(u) : (s \o t)[i] = u[i]
    <2> TAKE i \in 1..Len(u)
    <2>1. CASE i <= Len(s)
        BY <2>1
    <2>2. CASE i > Len(s)
        <3>1. i - Len(s) \in 1..Len(t) /\ Len(s) + (i - Len(s)) = i
            BY <2>2
        <3>2. (s \o t)[i] = t[i - Len(s)]
            BY <3>1, <2>2
        <3>3. u[i] = t[i - Len(s)]
            BY <3>1
        <3> QED BY <3>2, <3>3
    <2> QED BY <2>1, <2>2
<1> QED BY <1>1, <1>2, SeqEqual, Zenon

\* The lists of steps in full.
TranscribeSteps ==
    <<"created", "extracting_audio", "audio", "transcribing", "recognise",
      "refining_segments", "segments", "exporting_subtitles", "source", "done">>
ProcessedSteps ==
    <<"created", "extracting_audio", "audio", "transcribing", "recognise",
      "refining_segments", "exporting_subtitles", "source">>
WithoutKeySteps ==
    <<"created", "extracting_audio", "audio", "transcribing", "recognise",
      "refining_segments", "exporting_subtitles", "source", "segments", "done">>
WithKeySteps ==
    <<"created", "extracting_audio", "audio", "transcribing", "recognise",
      "refining_segments", "exporting_subtitles", "source", "translating", "translate",
      "exporting_subtitles", "translated", "bilingual", "ass", "segments", "done">>
RenderedSteps ==
    <<"created", "extracting_audio", "audio", "transcribing", "recognise",
      "refining_segments", "exporting_subtitles", "source", "translating", "translate",
      "exporting_subtitles", "translated", "bilingual", "ass", "rendering_video", "burn",
      "segments", "done">>
TranslateSteps ==
    <<"read", "translating", "translate", "segments", "exporting_subtitles", "translated",
      "bilingual", "ass", "done">>
GlossarySteps ==
    <<"read", "refining_segments", "correct", "segments", "exporting_subtitles", "source",
      "translated", "bilingual", "ass", "done">>
AgainSteps ==
    <<"read", "exporting_subtitles", "source", "translated", "bilingual", "ass", "done">>
RenderSteps == <<"rendering_video", "burn", "done">>

\* The lists are put together from their parts.
LEMMA PartsJoin ==
    /\ Joins(Jobs!Recognition, <<"segments", "exporting_subtitles", "source", "done">>,
             TranscribeSteps)
    /\ Joins(Jobs!Recognition, <<"exporting_subtitles", "source">>, ProcessedSteps)
    /\ Joins(ProcessedSteps, Jobs!ProcessEnd, WithoutKeySteps)
    /\ Joins(ProcessedSteps, <<"translating", "translate", "exporting_subtitles">>,
             SubSeq(RenderedSteps, 1, 11))
    /\ Joins(SubSeq(RenderedSteps, 1, 11), Jobs!Translated, SubSeq(RenderedSteps, 1, 14))
    /\ Joins(SubSeq(RenderedSteps, 1, 14), Jobs!ProcessEnd, WithKeySteps)
    /\ Joins(SubSeq(RenderedSteps, 1, 14), Jobs!Rendering, SubSeq(RenderedSteps, 1, 16))
    /\ Joins(SubSeq(RenderedSteps, 1, 16), Jobs!ProcessEnd, RenderedSteps)
    /\ Joins(<<"read", "translating", "translate", "segments", "exporting_subtitles">>,
             Jobs!Translated, SubSeq(TranslateSteps, 1, 8))
    /\ Joins(SubSeq(TranslateSteps, 1, 8), <<"done">>, TranslateSteps)
    /\ Joins(<<"read", "refining_segments", "correct", "segments", "exporting_subtitles",
               "source">>,
             Jobs!Translated, SubSeq(GlossarySteps, 1, 9))
    /\ Joins(SubSeq(GlossarySteps, 1, 9), <<"done">>, GlossarySteps)
    /\ Joins(<<"read", "exporting_subtitles", "source">>,
             Jobs!Translated, SubSeq(AgainSteps, 1, 6))
    /\ Joins(SubSeq(AgainSteps, 1, 6), <<"done">>, AgainSteps)
    /\ Joins(Jobs!Rendering, <<"done">>, RenderSteps)
BY DEF Joins, TranscribeSteps, ProcessedSteps, WithoutKeySteps, WithKeySteps,
       RenderedSteps, TranslateSteps, GlossarySteps, AgainSteps, RenderSteps,
       Jobs!Recognition, Jobs!Translated, Jobs!Rendering, Jobs!ProcessEnd, StepNames,
       Jobs!Statuses, Jobs!Outputs

\* Each command has its list.
LEMMA ListOfSteps ==
    /\ Jobs!Steps("transcribe") = TranscribeSteps
    /\ Jobs!Steps("process without a key") = WithoutKeySteps
    /\ Jobs!Steps("process") = WithKeySteps
    /\ Jobs!Steps("process and render") = RenderedSteps
    /\ Jobs!Steps("translate") = TranslateSteps
    /\ Jobs!Steps("apply glossary") = GlossarySteps
    /\ Jobs!Steps("export") = AgainSteps
    /\ \A name \in Renderings : Jobs!Steps(name) = RenderSteps
<1>1. Jobs!Processed = ProcessedSteps /\ Jobs!Recognition \o
         <<"segments", "exporting_subtitles", "source", "done">> = TranscribeSteps
    BY PartsJoin, Joined DEF Jobs!Processed
<1>2. Jobs!WithKey = SubSeq(RenderedSteps, 1, 14)
    <2>1. ProcessedSteps \o <<"translating", "translate", "exporting_subtitles">>
             = SubSeq(RenderedSteps, 1, 11)
        BY PartsJoin, Joined
    <2>2. SubSeq(RenderedSteps, 1, 11) \o Jobs!Translated = SubSeq(RenderedSteps, 1, 14)
        BY PartsJoin, Joined
    <2> QED BY <1>1, <2>1, <2>2 DEF Jobs!WithKey
<1>3. /\ Jobs!Processed \o Jobs!ProcessEnd = WithoutKeySteps
      /\ Jobs!WithKey \o Jobs!ProcessEnd = WithKeySteps
      /\ Jobs!WithKey \o Jobs!Rendering \o Jobs!ProcessEnd = RenderedSteps
      /\ Jobs!Rendering \o <<"done">> = RenderSteps
    BY <1>1, <1>2, PartsJoin, Joined
<1>4. /\ <<"read", "translating", "translate", "segments", "exporting_subtitles">>
            \o Jobs!Translated \o <<"done">> = TranslateSteps
      /\ <<"read", "refining_segments", "correct", "segments", "exporting_subtitles", "source">>
            \o Jobs!Translated \o <<"done">> = GlossarySteps
      /\ <<"read", "exporting_subtitles", "source">>
            \o Jobs!Translated \o <<"done">> = AgainSteps
    BY PartsJoin, Joined
<1> QED BY <1>1, <1>3, <1>4 DEF Jobs!Steps, Renderings

\* What the order of the steps of a command is, and what is among them.
Sequenced(name, s) ==
    /\ s \in Seq(StepNames) /\ InOrder(name, s) /\ Announced(s)
    /\ Head(s) = "created" <=> name \in Recognitions
    /\ name \in Renderings <=> In(s) \cap (Needs \cup Reads) = {}
    /\ name \notin Renderings => In(s) \cap Reads # {}
    /\ IF name \in Recognitions THEN "source" \in In(s) ELSE "recognise" \notin In(s)
    /\ name = "translate" => /\ "read" \in In(s) /\ "correct" \notin In(s)
                             /\ WrittenBy(name) = Jobs!Outputs \ {"source"}
    /\ name = "apply glossary" => WrittenBy(name) = Jobs!Outputs
    /\ name = "export" => "segments" \notin In(s)

\* What is on each list, and where it begins.
LEMMA OnTheLists ==
    /\ In(TranscribeSteps) = {"created", "extracting_audio", "audio", "transcribing",
                              "recognise", "refining_segments", "segments",
                              "exporting_subtitles", "source", "done"}
    /\ In(WithoutKeySteps) = {"created", "extracting_audio", "audio", "transcribing",
                              "recognise", "refining_segments", "exporting_subtitles",
                              "source", "segments", "done"}
    /\ In(WithKeySteps) = {"created", "extracting_audio", "audio", "transcribing",
                           "recognise", "refining_segments", "exporting_subtitles", "source",
                           "translating", "translate", "translated", "bilingual", "ass",
                           "segments", "done"}
    /\ In(RenderedSteps) = {"created", "extracting_audio", "audio", "transcribing",
                            "recognise", "refining_segments", "exporting_subtitles", "source",
                            "translating", "translate", "translated", "bilingual", "ass",
                            "rendering_video", "burn", "segments", "done"}
    /\ In(TranslateSteps) = {"read", "translating", "translate", "segments",
                             "exporting_subtitles", "translated", "bilingual", "ass", "done"}
    /\ In(GlossarySteps) = {"read", "refining_segments", "correct", "segments",
                            "exporting_subtitles", "source", "translated", "bilingual", "ass",
                            "done"}
    /\ In(AgainSteps) = {"read", "exporting_subtitles", "source", "translated", "bilingual",
                          "ass", "done"}
    /\ In(RenderSteps) = {"rendering_video", "burn", "done"}
    /\ Head(TranscribeSteps) = "created" /\ Head(WithoutKeySteps) = "created" /\
       Head(WithKeySteps) = "created" /\ Head(RenderedSteps) = "created" /\ Head(TranslateSteps)
       = "read" /\ Head(GlossarySteps) = "read" /\ Head(AgainSteps) = "read" /\
       Head(RenderSteps) = "rendering_video"
BY DEF TranscribeSteps, WithoutKeySteps, WithKeySteps, RenderedSteps, TranslateSteps,
   GlossarySteps, AgainSteps, RenderSteps, In

\* On each list a file is written after all that makes what it shows, and so are the segments.
LEMMA ListsLead ==
    /\ Leads(TranscribeSteps, Changes, "segments")
    /\ \A f \in {"source"} : Leads(TranscribeSteps, Makes(f), f)
    /\ Leads(WithoutKeySteps, Changes, "segments")
    /\ \A f \in {"source"} : Leads(WithoutKeySteps, Makes(f), f)
    /\ Leads(WithKeySteps, Changes, "segments")
    /\ \A f \in {"source", "translated", "bilingual", "ass"} : Leads(WithKeySteps, Makes(f), f)
    /\ Leads(RenderedSteps, Changes, "segments")
    /\ \A f \in {"source", "translated", "bilingual", "ass"} : Leads(RenderedSteps, Makes(f), f)
    /\ Leads(TranslateSteps, Changes, "segments")
    /\ \A f \in {"translated", "bilingual", "ass"} : Leads(TranslateSteps, Makes(f), f)
    /\ Leads(GlossarySteps, Changes, "segments")
    /\ \A f \in {"source", "translated", "bilingual", "ass"} : Leads(GlossarySteps, Makes(f), f)
    /\ Leads(AgainSteps, Changes, "segments")
    /\ \A f \in {"source", "translated", "bilingual", "ass"} : Leads(AgainSteps, Makes(f), f)
    /\ Leads(RenderSteps, Changes, "segments")
<1>1. /\ Leads(TranscribeSteps, Changes, "segments")
      /\ Leads(TranscribeSteps, Makes("source"), "source")
    BY DEF TranscribeSteps, Leads, Makes, Changes, Reads
<1>2. /\ Leads(WithoutKeySteps, Changes, "segments")
      /\ Leads(WithoutKeySteps, Makes("source"), "source")
    BY DEF WithoutKeySteps, Leads, Makes, Changes, Reads
<1>3. /\ Leads(WithKeySteps, Changes, "segments")
      /\ Leads(WithKeySteps, Makes("source"), "source")
      /\ Leads(WithKeySteps, Makes("translated"), "translated")
      /\ Leads(WithKeySteps, Makes("bilingual"), "bilingual")
      /\ Leads(WithKeySteps, Makes("ass"), "ass")
    BY DEF WithKeySteps, Leads, Makes, Changes, Reads
<1>4. /\ Leads(RenderedSteps, Changes, "segments")
      /\ Leads(RenderedSteps, Makes("source"), "source")
      /\ Leads(RenderedSteps, Makes("translated"), "translated")
      /\ Leads(RenderedSteps, Makes("bilingual"), "bilingual")
      /\ Leads(RenderedSteps, Makes("ass"), "ass")
    BY DEF RenderedSteps, Leads, Makes, Changes, Reads
<1>5. /\ Leads(TranslateSteps, Changes, "segments")
      /\ Leads(TranslateSteps, Makes("translated"), "translated")
      /\ Leads(TranslateSteps, Makes("bilingual"), "bilingual")
      /\ Leads(TranslateSteps, Makes("ass"), "ass")
    BY DEF TranslateSteps, Leads, Makes, Changes, Reads
<1>6. /\ Leads(GlossarySteps, Changes, "segments")
      /\ Leads(GlossarySteps, Makes("source"), "source")
      /\ Leads(GlossarySteps, Makes("translated"), "translated")
      /\ Leads(GlossarySteps, Makes("bilingual"), "bilingual")
      /\ Leads(GlossarySteps, Makes("ass"), "ass")
    BY DEF GlossarySteps, Leads, Makes, Changes, Reads
<1>7. /\ Leads(AgainSteps, Changes, "segments")
      /\ Leads(AgainSteps, Makes("source"), "source")
      /\ Leads(AgainSteps, Makes("translated"), "translated")
      /\ Leads(AgainSteps, Makes("bilingual"), "bilingual")
      /\ Leads(AgainSteps, Makes("ass"), "ass")
    BY DEF AgainSteps, Leads, Makes, Changes, Reads
<1>8. /\ Leads(RenderSteps, Changes, "segments")
    BY DEF RenderSteps, Leads, Makes, Changes, Reads
<1> QED BY <1>1, <1>2, <1>3, <1>4, <1>5, <1>6, <1>7, <1>8

\* On each list nothing is read after what is read is used, and nothing comes after "done".
LEMMA ListsEnd ==
    /\ NoneAfter(TranscribeSteps, Needs, Reads)
             /\ NoneAfter(TranscribeSteps, {"done"}, StepNames)
    /\ NoneAfter(WithoutKeySteps, Needs, Reads)
             /\ NoneAfter(WithoutKeySteps, {"done"}, StepNames)
    /\ NoneAfter(WithKeySteps, Needs, Reads) /\ NoneAfter(WithKeySteps, {"done"}, StepNames)
    /\ NoneAfter(RenderedSteps, Needs, Reads) /\ NoneAfter(RenderedSteps, {"done"}, StepNames)
    /\ NoneAfter(TranslateSteps, Needs, Reads) /\ NoneAfter(TranslateSteps, {"done"}, StepNames)
    /\ NoneAfter(GlossarySteps, Needs, Reads) /\ NoneAfter(GlossarySteps, {"done"}, StepNames)
    /\ NoneAfter(AgainSteps, Needs, Reads) /\ NoneAfter(AgainSteps, {"done"}, StepNames)
    /\ NoneAfter(RenderSteps, Needs, Reads) /\ NoneAfter(RenderSteps, {"done"}, StepNames)
<1>1. NoneAfter(TranscribeSteps, Needs, Reads) /\ NoneAfter(TranscribeSteps, {"done"}, StepNames)
    BY DEF TranscribeSteps, NoneAfter, Needs, Reads, StepNames, Jobs!Statuses, Jobs!Outputs
<1>2. NoneAfter(WithoutKeySteps, Needs, Reads) /\ NoneAfter(WithoutKeySteps, {"done"}, StepNames)
    BY DEF WithoutKeySteps, NoneAfter, Needs, Reads, StepNames, Jobs!Statuses, Jobs!Outputs
<1>3. NoneAfter(WithKeySteps, Needs, Reads) /\ NoneAfter(WithKeySteps, {"done"}, StepNames)
    BY DEF WithKeySteps, NoneAfter, Needs, Reads, StepNames, Jobs!Statuses, Jobs!Outputs
<1>4. NoneAfter(RenderedSteps, Needs, Reads) /\ NoneAfter(RenderedSteps, {"done"}, StepNames)
    BY DEF RenderedSteps, NoneAfter, Needs, Reads, StepNames, Jobs!Statuses, Jobs!Outputs
<1>5. NoneAfter(TranslateSteps, Needs, Reads) /\ NoneAfter(TranslateSteps, {"done"}, StepNames)
    BY DEF TranslateSteps, NoneAfter, Needs, Reads, StepNames, Jobs!Statuses, Jobs!Outputs
<1>6. NoneAfter(GlossarySteps, Needs, Reads) /\ NoneAfter(GlossarySteps, {"done"}, StepNames)
    BY DEF GlossarySteps, NoneAfter, Needs, Reads, StepNames, Jobs!Statuses, Jobs!Outputs
<1>7. NoneAfter(AgainSteps, Needs, Reads) /\ NoneAfter(AgainSteps, {"done"}, StepNames)
    BY DEF AgainSteps, NoneAfter, Needs, Reads, StepNames, Jobs!Statuses, Jobs!Outputs
<1>8. NoneAfter(RenderSteps, Needs, Reads) /\ NoneAfter(RenderSteps, {"done"}, StepNames)
    BY DEF RenderSteps, NoneAfter, Needs, Reads, StepNames, Jobs!Statuses, Jobs!Outputs
<1> QED BY <1>1, <1>2, <1>3, <1>4, <1>5, <1>6, <1>7, <1>8

\* On each list the manifest is marked before anything is written.
LEMMA ListsAnnounce ==
    /\ Announced(TranscribeSteps)
    /\ Announced(WithoutKeySteps)
    /\ Announced(WithKeySteps)
    /\ Announced(RenderedSteps)
    /\ Announced(TranslateSteps)
    /\ Announced(GlossarySteps)
    /\ Announced(AgainSteps)
    /\ Announced(RenderSteps)
<1>1. Announced(TranscribeSteps)
    BY DEF TranscribeSteps, Announced, Jobs!Statuses, Jobs!Outputs
<1>2. Announced(WithoutKeySteps)
    BY DEF WithoutKeySteps, Announced, Jobs!Statuses, Jobs!Outputs
<1>3. Announced(WithKeySteps)
    BY DEF WithKeySteps, Announced, Jobs!Statuses, Jobs!Outputs
<1>4. Announced(RenderedSteps)
    BY DEF RenderedSteps, Announced, Jobs!Statuses, Jobs!Outputs
<1>5. Announced(TranslateSteps)
    BY DEF TranslateSteps, Announced, Jobs!Statuses, Jobs!Outputs
<1>6. Announced(GlossarySteps)
    BY DEF GlossarySteps, Announced, Jobs!Statuses, Jobs!Outputs
<1>7. Announced(AgainSteps)
    BY DEF AgainSteps, Announced, Jobs!Statuses, Jobs!Outputs
<1>8. Announced(RenderSteps)
    BY DEF RenderSteps, Announced, Jobs!Statuses, Jobs!Outputs
<1> QED BY <1>1, <1>2, <1>3, <1>4, <1>5, <1>6, <1>7, <1>8

\* The steps of every command are in order.
LEMMA Sequences ==
    \A name \in Recognitions \cup Renderings \cup {"translate", "apply glossary", "export"} :
        Sequenced(name, Jobs!Steps(name))
<1> USE ListOfSteps, OnTheLists, ListsLead, ListsEnd, ListsAnnounce
<1> USE DEF Recognitions, Renderings
<1>1. /\ TranscribeSteps \in Seq(StepNames)
      /\ WithoutKeySteps \in Seq(StepNames)
      /\ WithKeySteps \in Seq(StepNames)
      /\ RenderedSteps \in Seq(StepNames)
      /\ TranslateSteps \in Seq(StepNames)
      /\ GlossarySteps \in Seq(StepNames)
      /\ AgainSteps \in Seq(StepNames)
      /\ RenderSteps \in Seq(StepNames)
    BY PartsJoin DEF Joins
<1>2. Sequenced("transcribe", TranscribeSteps)
    <2>1. WrittenBy("transcribe") = {"source"}
        BY DEF WrittenBy, Jobs!Outputs
    <2>2. InOrder("transcribe", TranscribeSteps)
        BY <2>1 DEF InOrder
    <2> QED BY <1>1, <2>1, <2>2 DEF Sequenced, Needs, Reads, Jobs!Outputs
<1>3. Sequenced("process without a key", WithoutKeySteps)
    <2>1. WrittenBy("process without a key") = {"source"}
        BY DEF WrittenBy, Jobs!Outputs
    <2>2. InOrder("process without a key", WithoutKeySteps)
        BY <2>1 DEF InOrder
    <2> QED BY <1>1, <2>1, <2>2 DEF Sequenced, Needs, Reads, Jobs!Outputs
<1>4. Sequenced("process", WithKeySteps)
    <2>1. WrittenBy("process") = {"source", "translated", "bilingual", "ass"}
        BY DEF WrittenBy, Jobs!Outputs
    <2>2. InOrder("process", WithKeySteps)
        BY <2>1 DEF InOrder
    <2> QED BY <1>1, <2>1, <2>2 DEF Sequenced, Needs, Reads, Jobs!Outputs
<1>5. Sequenced("process and render", RenderedSteps)
    <2>1. WrittenBy("process and render") = {"source", "translated", "bilingual", "ass"}
        BY DEF WrittenBy, Jobs!Outputs
    <2>2. InOrder("process and render", RenderedSteps)
        BY <2>1 DEF InOrder
    <2> QED BY <1>1, <2>1, <2>2 DEF Sequenced, Needs, Reads, Jobs!Outputs
<1>6. Sequenced("translate", TranslateSteps)
    <2>1. WrittenBy("translate") = {"translated", "bilingual", "ass"}
        BY DEF WrittenBy, Jobs!Outputs
    <2>2. InOrder("translate", TranslateSteps)
        BY <2>1 DEF InOrder
    <2> QED BY <1>1, <2>1, <2>2 DEF Sequenced, Needs, Reads, Jobs!Outputs
<1>7. Sequenced("apply glossary", GlossarySteps)
    <2>1. WrittenBy("apply glossary") = {"source", "translated", "bilingual", "ass"}
        BY DEF WrittenBy, Jobs!Outputs
    <2>2. InOrder("apply glossary", GlossarySteps)
        BY <2>1 DEF InOrder
    <2> QED BY <1>1, <2>1, <2>2 DEF Sequenced, Needs, Reads, Jobs!Outputs
<1>8. Sequenced("export", AgainSteps)
    <2>1. WrittenBy("export") = {"source", "translated", "bilingual", "ass"}
        BY DEF WrittenBy, Jobs!Outputs
    <2>2. InOrder("export", AgainSteps)
        BY <2>1 DEF InOrder
    <2> QED BY <1>1, <2>1, <2>2 DEF Sequenced, Needs, Reads, Jobs!Outputs
<1>9. ASSUME NEW name \in Renderings PROVE Sequenced(name, RenderSteps)
    <2>1. WrittenBy(name) = {}
        BY <1>9 DEF WrittenBy, Jobs!Outputs
    <2>2. InOrder(name, RenderSteps)
        BY <1>9, <2>1 DEF InOrder
    <2> QED BY <1>1, <1>9, <2>1, <2>2 DEF Sequenced, Needs, Reads, Jobs!Outputs
<1> QED BY <1>2, <1>3, <1>4, <1>5, <1>6, <1>7, <1>8, <1>9

(***************************************************************************)
(* The next step of a command.                                             *)
(***************************************************************************)
\* What is known of the step that a list begins with, and of the rest of the list.
Begins(name, s) ==
    /\ Head(s) \in StepNames /\ Tail(s) \in Seq(StepNames)
    /\ In(s) = {Head(s)} \cup In(Tail(s)) /\ InOrder(name, Tail(s))
    /\ \A f \in WrittenBy(name) : Head(s) \in Makes(f) => f \in In(Tail(s))
    /\ Head(s) \in Changes => "segments" \in In(Tail(s))
    /\ Head(s) \in Needs => In(Tail(s)) \cap Reads = {}
    /\ Head(s) = "done" => In(Tail(s)) = {}
    /\ Announced(s) => /\ Head(s) \notin {"segments"} \cup Jobs!Outputs
                       /\ Head(s) \in Jobs!Statuses \ {"done"} \/ Announced(Tail(s))

\* A list that is in order is in order after its first step.
LEMMA OneStep ==
    ASSUME NEW name, NEW s \in Seq(StepNames), s # <<>>, InOrder(name, s)
    PROVE  Begins(name, s)
<1> DEFINE x == Head(s)  t == Tail(s)
<1>1. /\ Len(s) \in Nat \ {0} /\ DOMAIN s = 1..Len(s) /\ x = s[1] /\ x \in StepNames
      /\ t \in Seq(StepNames) /\ Len(t) = Len(s) - 1 /\ DOMAIN t = 1..Len(t)
      /\ \A i \in DOMAIN t : t[i] = s[i + 1]
    OBVIOUS
<1>2. /\ \A i \in DOMAIN t : i + 1 \in DOMAIN s
      /\ \A k \in DOMAIN s : k = 1 \/ (k - 1 \in DOMAIN t /\ s[k] = t[k - 1] /\ k > 1)
      /\ 1 \in DOMAIN s
    BY <1>1
<1> HIDE DEF x, t
<1>3. In(s) = {x} \cup In(t)
    BY <1>1, <1>2 DEF In
<1>4. ASSUME NEW A, NEW y, Leads(s, A, y)
      PROVE  Leads(t, A, y) /\ (x \in A => y \in In(t))
    <2>1. ASSUME NEW i \in DOMAIN t, t[i] \in A PROVE \E j \in DOMAIN t : i < j /\ t[j] = y
        <3>1. PICK k \in DOMAIN s : i + 1 < k /\ s[k] = y
            BY <2>1, <1>1, <1>2, <1>4 DEF Leads
        <3>2. k - 1 \in DOMAIN t /\ t[k - 1] = y /\ i < k - 1
            BY <3>1, <1>1, <1>2
        <3> QED BY <3>2
    <2>2. ASSUME x \in A PROVE y \in In(t)
        <3>1. PICK k \in DOMAIN s : 1 < k /\ s[k] = y
            BY <2>2, <1>1, <1>2, <1>4 DEF Leads
        <3> QED BY <3>1, <1>2 DEF In
    <2> QED BY <2>1, <2>2 DEF Leads
<1>5. ASSUME NEW A, NEW B, NoneAfter(s, A, B)
      PROVE  NoneAfter(t, A, B) /\ (x \in A => In(t) \cap B = {})
    <2>1. ASSUME NEW i \in DOMAIN t, NEW j \in DOMAIN t, i < j, t[i] \in A
          PROVE  t[j] \notin B
        <3>1. i + 1 < j + 1 /\ s[i + 1] \in A /\ s[j + 1] = t[j]
            BY <2>1, <1>1
        <3> QED BY <3>1, <1>2, <1>5 DEF NoneAfter
    <2>2. ASSUME x \in A, NEW j \in DOMAIN t PROVE t[j] \notin B
        <3>1. 1 < j + 1 /\ s[j + 1] = t[j]
            BY <1>1
        <3> QED BY <2>2, <3>1, <1>1, <1>2, <1>5 DEF NoneAfter
    <2> QED BY <2>1, <2>2 DEF NoneAfter, In
<1>6. /\ InOrder(name, t)
      /\ \A f \in WrittenBy(name) : x \in Makes(f) => f \in In(t)
      /\ x \in Changes => "segments" \in In(t)
      /\ x \in Needs => In(t) \cap Reads = {}
    BY <1>3, <1>4, <1>5 DEF InOrder
<1>7. x = "done" => In(t) = {}
    <2>1. In(t) \subseteq StepNames
        BY <1>1 DEF In
    <2>2. x = "done" => In(t) \cap StepNames = {}
        BY <1>5 DEF InOrder
    <2> QED BY <2>1, <2>2
<1>8. ASSUME Announced(s)
      PROVE  /\ x \notin {"segments"} \cup Jobs!Outputs
             /\ x \in Jobs!Statuses \ {"done"} \/ Announced(t)
    <2>1. x \notin {"segments"} \cup Jobs!Outputs
        BY <1>1, <1>2, <1>8 DEF Announced
    <2>2. ASSUME x \notin Jobs!Statuses \ {"done"}, NEW j \in DOMAIN t,
                 t[j] \in {"segments"} \cup Jobs!Outputs
          PROVE  \E i \in DOMAIN t : i < j /\ t[i] \in Jobs!Statuses \ {"done"}
        <3>1. PICK k \in DOMAIN s : k < j + 1 /\ s[k] \in Jobs!Statuses \ {"done"}
            BY <2>2, <1>1, <1>2, <1>8 DEF Announced
        <3>2. k - 1 \in DOMAIN t /\ t[k - 1] = s[k] /\ k - 1 < j
            BY <3>1, <2>2, <1>1, <1>2
        <3> QED BY <3>1, <3>2
    <2> QED BY <2>1, <2>2 DEF Announced
<1> QED BY <1>1, <1>3, <1>6, <1>7, <1>8 DEF Begins, x, t

\* A command that is not through its list begins with a step that is in order.
LEMMA CommandBegins ==
    ASSUME JobAssumption, JobInv, command # None, command.todo # <<>>
    PROVE  /\ command \in Commands /\ Begins(command.name, command.todo)
           /\ Sequenced(command.name, Jobs!Steps(command.name))
           /\ Head(command.todo) \in In(Jobs!Steps(command.name))
<1>1. command \in Commands /\ InOrder(command.name, command.todo)
    BY DEF JobInv, JobShapes, StepsFollow
<1>2. Begins(command.name, command.todo)
    BY <1>1, OneStep DEF Commands
<1>3. Sequenced(command.name, Jobs!Steps(command.name))
    BY <1>1, Sequences DEF Commands, JobAssumption
<1> QED BY <1>1, <1>2, <1>3 DEF Begins, InOrder

\* A command goes on with the rest of its list.
Onward(held, m) ==
    /\ command' \in Commands /\ command'.name = command.name
    /\ command'.todo = Tail(command.todo) /\ command'.held = held /\ command'.manifest = m

\* A step goes on with the command, with what it holds and with its manifest.
LEMMA GoingOn ==
    ASSUME NEW c \in Commands, c.name = command.name, c.todo = command.todo, c.todo # <<>>,
           Jobs!GoesOn(c)
    PROVE  Onward(c.held, c.manifest)
<1>1. Tail(c.todo) \in Seq(StepNames)
    BY DEF Commands
<1>2. command' = [c EXCEPT !.todo = Tail(c.todo)]
    BY DEF Jobs!GoesOn
<1> QED BY <1>1, <1>2 DEF Onward, Commands

\* A step that goes on with other segments.
LEMMA GoingOnHolding ==
    ASSUME command \in Commands, command.todo # <<>>, NEW s \in Segments1 \cup {None},
           Jobs!GoesOn([command EXCEPT !.held = s])
    PROVE  Onward(s, command.manifest)
<1> DEFINE c == [command EXCEPT !.held = s]
<1>1. c \in Commands /\ c.name = command.name /\ c.todo = command.todo /\ c.held = s
      /\ c.manifest = command.manifest
    BY DEF Commands
<1>2. Jobs!GoesOn(c)
    OBVIOUS
<1> HIDE DEF c
<1> QED BY <1>1, <1>2, GoingOn

\* A step that goes on with another manifest.
LEMMA GoingOnMarked ==
    ASSUME command \in Commands, command.todo # <<>>, NEW m \in Manifests,
           Jobs!GoesOn([command EXCEPT !.manifest = m])
    PROVE  Onward(command.held, m)
<1> DEFINE c == [command EXCEPT !.manifest = m]
<1>1. c \in Commands /\ c.name = command.name /\ c.todo = command.todo /\ c.manifest = m
      /\ c.held = command.held
    BY DEF Commands
<1>2. Jobs!GoesOn(c)
    OBVIOUS
<1> HIDE DEF c
<1> QED BY <1>1, <1>2, GoingOn

\* A step that leaves manifest and clock alone leaves alone what is said of them.
LEMMA ClockAlone ==
    ASSUME JobInv, UNCHANGED <<manifest, now, worked, lastSeen, lapses>>,
           command' # None => command # None /\ command'.manifest = command.manifest
    PROVE  TimeKept' /\ EndsAreTold'
BY DEF JobInv, TimeKept, EndsAreTold, Spent, EndIsTold

\* A step that is no mark goes on in order.
LEMMA OrderGoesOn ==
    ASSUME JobAssumption, JobInv, command # None, command.todo # <<>>,
           Head(command.todo) \notin Jobs!Statuses, NEW h, Onward(h, command.manifest),
           UNCHANGED manifest
    PROVE  StepsFollow'
<1>1. Begins(command.name, command.todo)
    BY CommandBegins
<1>2. manifest # None /\ manifest.status = "done" => Announced(command.todo)
    BY DEF JobInv, StepsFollow
<1>3. InOrder(command.name, Tail(command.todo))
    BY <1>1 DEF Begins
<1>4. Announced(command.todo) => Announced(Tail(command.todo))
    BY <1>1 DEF Begins
<1>5. command'.name = command.name /\ command'.todo = Tail(command.todo)
    BY DEF Onward
<1>6. InOrder(command'.name, command'.todo)
         /\ (Announced(command.todo) => Announced(command'.todo))
    BY <1>3, <1>4, <1>5
<1> QED BY <1>2, <1>6 DEF StepsFollow, InOrder, WrittenBy, Announced, Leads, NoneAfter, In

\* A step that writes no file leaves each one showing what it showed, unless what makes its
\* contents comes first.
LEMMA FilesAlone ==
    ASSUME JobAssumption, JobInv, command # None, command.todo # <<>>,
           Head(command.todo) \notin Jobs!Outputs, NEW h, NEW m, Onward(h, m),
           \A f \in Jobs!Outputs : files'[f] = files[f],
           "stale" \notin lapses' =>
               "stale" \notin lapses \/ Jobs!Outputs \subseteq WrittenBy(command.name),
           \A f \in WrittenBy(command.name) :
               \/ Head(command.todo) \in Makes(f)
               \/ Jobs!Shows(f, command.held, files[f]) => Jobs!Shows(f, h, files[f]),
           \A f \in Jobs!Outputs \ WrittenBy(command.name) : command.name \notin Recognitions =>
               (Jobs!Shows(f, segments, files[f]) => Jobs!Shows(f, segments', files[f]))
    PROVE  FilesFollow'
<1>1. /\ Begins(command.name, command.todo) /\ command'.name = command.name
      /\ command'.held = h /\ Left' = In(Tail(command.todo))
    BY CommandBegins DEF Onward, Left
<1>2. Left = {Head(command.todo)} \cup In(Tail(command.todo))
    BY <1>1 DEF Begins, Left
<1>3. ASSUME NEW f \in WrittenBy(command.name), f \notin Left', Left' \cap Makes(f) = {}
      PROVE  Jobs!Shows(f, h, files[f])
    <2>1. Head(command.todo) \notin Makes(f)
        BY <1>1, <1>3 DEF Begins
    <2>2. f # Head(command.todo)
        BY DEF WrittenBy
    <2>3. Jobs!Shows(f, command.held, files[f])
        BY <1>1, <1>2, <1>3, <2>1, <2>2 DEF JobInv, FilesFollow
    <2> QED BY <2>1, <2>3
<1>4. ASSUME "stale" \notin lapses', NEW f \in Jobs!Outputs \ WrittenBy(command.name)
      PROVE  IF command.name \in Recognitions THEN files[f] = None
             ELSE Jobs!Shows(f, segments', files[f])
    BY <1>4 DEF JobInv, FilesFollow, WrittenBy
<1>5. /\ \A f \in WrittenBy(command'.name) :
            f \notin Left' /\ Left' \cap Makes(f) = {} => Jobs!Shows(f, command'.held, files'[f])
      /\ "stale" \notin lapses' =>
            \A f \in Jobs!Outputs \ WrittenBy(command'.name) :
                IF command'.name \in Recognitions THEN files'[f] = None
                ELSE Jobs!Shows(f, segments', files'[f])
    BY <1>1, <1>3, <1>4 DEF WrittenBy
<1> QED BY <1>5 DEF FilesFollow, Jobs!Shows

\* What was read is held.
LEMMA ReadSegmentsKeeps ==
    ASSUME JobAssumption, JobInv, Jobs!ReadSegments PROVE JobInv'
<1>1. /\ command # None /\ command.todo # <<>> /\ Head(command.todo) = "read"
      /\ segments # None /\ Jobs!GoesOn([command EXCEPT !.held = segments])
      /\ UNCHANGED <<segments, files, manifest, now, made, commands, worked, lastSeen, lapses>>
    BY DEF Jobs!ReadSegments, Jobs!Doing, Jobs!ghosts
<1>2. command \in Commands /\ segments \in Segments1
    BY <1>1 DEF JobInv, JobShapes
<1>3. Onward(segments, command.manifest)
    BY <1>1, <1>2, GoingOnHolding
<1>4. JobShapes'
    BY <1>1, <1>3 DEF JobInv, JobShapes, Onward
<1>5. "read" \notin Jobs!Statuses
    BY DEF Jobs!Statuses
<1>6. StepsFollow'
    BY <1>1, <1>3, <1>5, OrderGoesOn
<1>7. TimeKept' /\ EndsAreTold'
    BY <1>1, <1>3, ClockAlone DEF Onward
<1>8. /\ Begins(command.name, command.todo)
      /\ \A f : "read" \in Makes(f)
    BY <1>1, CommandBegins DEF Makes, Reads
<1>9. HeldFollows'
    BY <1>1, <1>2, <1>3 DEF HeldFollows, Onward
<1>10. FilesFollow'
    BY <1>1, <1>3, <1>8, FilesAlone DEF Jobs!Outputs
<1>11. DoneShows'
    BY <1>1 DEF JobInv, DoneShows
<1> QED BY <1>4, <1>6, <1>7, <1>9, <1>10, <1>11 DEF JobInv

\* A step that neither makes nor saves anything leaves what the command holds.
LEMMA HeldAlone ==
    ASSUME JobAssumption, JobInv, command # None, command.todo # <<>>,
           Head(command.todo) \notin Reads \cup Changes \cup {"segments"},
           Onward(command.held, command'.manifest), UNCHANGED segments
    PROVE  HeldFollows'
<1>1. /\ Left' = In(Tail(command.todo)) /\ command'.name = command.name
      /\ command'.held = command.held
    BY DEF Onward, Left
<1>2. Left = {Head(command.todo)} \cup Left'
    BY <1>1, CommandBegins DEF Begins, Left
<1>3. "read" \in Reads
    BY DEF Reads
<1> QED BY <1>1, <1>2, <1>3 DEF JobInv, HeldFollows

\* What a step uses is there.
LEMMA UsedIsHeld ==
    ASSUME JobAssumption, JobInv, command # None, command.todo # <<>>,
           Head(command.todo) \in Needs
    PROVE  /\ command.held \in Segments1 /\ Left \cap Reads = {}
           /\ Subtitles(command.name)
<1>1. Begins(command.name, command.todo) /\ Sequenced(command.name, Jobs!Steps(command.name))
      /\ Head(command.todo) \in In(Jobs!Steps(command.name))
    BY CommandBegins
<1>2. Left \cap Reads = {}
    BY <1>1 DEF Begins, Left, Needs, Reads, Jobs!Outputs
<1>3. Subtitles(command.name)
    BY <1>1 DEF Sequenced, Subtitles
<1> QED BY <1>2, <1>3 DEF JobInv, HeldFollows

\* The audio is nothing that a file shows.
LEMMA PrepareAudioKeeps ==
    ASSUME JobAssumption, JobInv, Jobs!PrepareAudio PROVE JobInv'
<1>1. /\ command # None /\ command.todo # <<>> /\ Head(command.todo) = "audio"
      /\ Jobs!GoesOn(command)
      /\ UNCHANGED <<segments, files, manifest, now, made, commands, worked, lastSeen, lapses>>
    BY DEF Jobs!PrepareAudio, Jobs!Doing, Jobs!ghosts
<1>2. command \in Commands
    BY <1>1 DEF JobInv, JobShapes
<1>3. Onward(command.held, command.manifest)
    BY <1>1, <1>2, GoingOn
<1>4. JobShapes'
    BY <1>1, <1>3 DEF JobInv, JobShapes, Onward
<1>5. "audio" \notin Jobs!Statuses \cup Jobs!Outputs \cup Reads \cup Changes \cup {"segments"}
    BY DEF Jobs!Statuses, Jobs!Outputs, Reads, Changes
<1>6. StepsFollow'
    BY <1>1, <1>3, <1>5, OrderGoesOn
<1>7. TimeKept' /\ EndsAreTold'
    BY <1>1, <1>3, ClockAlone DEF Onward
<1>8. HeldFollows'
    BY <1>1, <1>3, <1>5, HeldAlone DEF Onward
<1>9. FilesFollow'
    BY <1>1, <1>3, <1>5, FilesAlone
<1>10. DoneShows'
    BY <1>1 DEF JobInv, DoneShows
<1> QED BY <1>4, <1>6, <1>7, <1>8, <1>9, <1>10 DEF JobInv

\* What is recognised, corrected or translated is on none of the files yet to be written.
LEMMA MakeTextKeeps ==
    ASSUME JobAssumption, JobInv, Jobs!MakeText PROVE JobInv'
<1> DEFINE x == Head(command.todo)
           new == [text |-> made', translation |-> 0]
<1>1. /\ command # None /\ command.todo # <<>> /\ x \in {"recognise", "correct", "translate"}
      /\ made' = made + 1
      /\ UNCHANGED <<segments, files, manifest, now, commands, worked, lastSeen, lapses>>
    BY DEF Jobs!MakeText, Jobs!Doing, Jobs!ghosts
<1>2. PICK s \in CASE x = "recognise" -> {new}
                   [] x = "translate" -> {[command.held EXCEPT !.translation = made']}
                   [] x = "correct" ->
                         {command.held, [command.held EXCEPT !.text = made'], new} :
         Jobs!GoesOn([command EXCEPT !.held = s])
    BY DEF Jobs!MakeText
<1>3. command \in Commands /\ made' \in Nat /\ new \in Segments1
    BY <1>1 DEF JobInv, JobShapes, Segments1
<1>4. x # "recognise" => /\ command.held \in Segments1 /\ Left \cap Reads = {}
                         /\ Subtitles(command.name)
    BY <1>1, UsedIsHeld DEF Needs
<1>5. x = "translate" => s \in Segments1 /\ s.text = command.held.text
    BY <1>2, <1>3, <1>4 DEF Segments1
<1>6. s \in Segments1
    BY <1>1, <1>2, <1>3, <1>4, <1>5 DEF Segments1
<1> HIDE DEF new, x
<1>7. Onward(s, command.manifest)
    BY <1>1, <1>2, <1>3, <1>6, GoingOnHolding
<1>8. JobShapes'
    BY <1>1, <1>3, <1>7 DEF JobInv, JobShapes, Onward
<1>9. x \notin Jobs!Statuses \cup Jobs!Outputs /\ x \in Changes
    BY <1>1 DEF Jobs!Statuses, Jobs!Outputs, Changes
<1>10. StepsFollow'
    BY <1>1, <1>7, <1>9, OrderGoesOn DEF x
<1>11. TimeKept' /\ EndsAreTold'
    BY <1>1, <1>7, ClockAlone DEF Onward
<1>12. /\ Begins(command.name, command.todo) /\ x \in In(Jobs!Steps(command.name))
       /\ Sequenced(command.name, Jobs!Steps(command.name))
    BY <1>1, CommandBegins DEF x
<1>13. HeldFollows'
    <2>1. Left' = In(Tail(command.todo)) /\ command'.held = s /\ command'.name = command.name
        BY <1>7 DEF Onward, Left
    <2>2. "segments" \in Left'
        BY <1>9, <1>12, <2>1 DEF Begins, x
    <2>3. ASSUME command.name = "translate"
          PROVE  segments \in Segments1 /\ s.text = segments.text
        <3>1. x = "translate"
            BY <1>1, <1>12, <2>3 DEF Sequenced, Recognitions
        <3>2. "read" \notin Left
            BY <1>4, <3>1 DEF Reads
        <3> QED BY <1>1, <1>4, <1>5, <2>3, <3>1, <3>2 DEF JobInv, HeldFollows
    <2> QED BY <1>1, <1>6, <2>1, <2>2, <2>3 DEF HeldFollows
<1>14. FilesFollow'
    <2>1. ASSUME NEW f \in WrittenBy(command.name)
          PROVE  \/ x \in Makes(f)
                 \/ Jobs!Shows(f, command.held, files[f]) => Jobs!Shows(f, s, files[f])
        <3>1. CASE x = "translate" /\ f = "source"
            BY <3>1, <1>4, <1>5, <1>6 DEF Jobs!Shows, JobAssumption, Jobs!Outputs
        <3>2. CASE x # "translate" \/ f # "source"
            BY <3>2, <1>1 DEF Makes, Reads
        <3> QED BY <3>1, <3>2
    <2> QED BY <1>1, <1>7, <1>9, <2>1, FilesAlone DEF x
<1>15. DoneShows'
    BY <1>1 DEF JobInv, DoneShows
<1> QED BY <1>8, <1>10, <1>11, <1>13, <1>14, <1>15 DEF JobInv

\* The segments are saved when nothing is left that makes any.
LEMMA WriteSegmentsKeeps ==
    ASSUME JobAssumption, JobInv, Jobs!WriteSegments PROVE JobInv'
<1>1. /\ command # None /\ command.todo # <<>> /\ Head(command.todo) = "segments"
      /\ segments' = command.held /\ Jobs!GoesOn(command)
      /\ UNCHANGED <<files, manifest, now, made, commands, worked, lastSeen, lapses>>
    BY DEF Jobs!WriteSegments, Jobs!Doing, Jobs!ghosts
<1>2. /\ command \in Commands /\ command.held \in Segments1 /\ Left \cap Reads = {}
      /\ Subtitles(command.name)
    BY <1>1, UsedIsHeld DEF JobInv, JobShapes, Needs
<1>3. Onward(command.held, command.manifest)
    BY <1>1, <1>2, GoingOn
<1>4. JobShapes'
    BY <1>1, <1>2, <1>3 DEF JobInv, JobShapes, Onward
<1>5. "segments" \notin Jobs!Statuses \cup Jobs!Outputs
    BY DEF Jobs!Statuses, Jobs!Outputs
<1>6. StepsFollow'
    BY <1>1, <1>3, <1>5, OrderGoesOn
<1>7. TimeKept' /\ EndsAreTold'
    BY <1>1, <1>3, ClockAlone DEF Onward
<1>8. HeldFollows'
    BY <1>1, <1>2, <1>3 DEF HeldFollows, Onward
<1>9. /\ Begins(command.name, command.todo) /\ "segments" \in In(Jobs!Steps(command.name))
      /\ Sequenced(command.name, Jobs!Steps(command.name))
    BY <1>1, CommandBegins
<1>10. ASSUME NEW f \in Jobs!Outputs \ WrittenBy(command.name),
              command.name \notin Recognitions, Jobs!Shows(f, segments, files[f])
       PROVE  Jobs!Shows(f, segments', files[f])
    <2>1. command.name = "translate"
        BY <1>2, <1>9, <1>10 DEF Sequenced, Subtitles, JobAssumption, Commands
    <2>2. f = "source"
        BY <1>9, <1>10, <2>1 DEF Sequenced
    <2>3. segments \in Segments1 /\ command.held.text = segments.text
        BY <1>1, <1>2, <2>1 DEF JobInv, HeldFollows, Reads
    <2> QED BY <1>1, <1>2, <1>10, <2>2, <2>3 DEF Jobs!Shows, JobAssumption, Jobs!Outputs
<1>11. FilesFollow'
    BY <1>1, <1>3, <1>5, <1>10, FilesAlone
<1>12. DoneShows'
    BY <1>1, <1>9 DEF JobInv, DoneShows, StepsFollow, Begins
<1> QED BY <1>4, <1>6, <1>7, <1>8, <1>11, <1>12 DEF JobInv

\* A file shows what it is written from.
LEMMA WriteFileKeeps ==
    ASSUME JobAssumption, JobInv, Jobs!WriteFile PROVE JobInv'
<1> DEFINE x == Head(command.todo)
<1>1. /\ command # None /\ command.todo # <<>> /\ x \in Jobs!Outputs
      /\ files' = [files EXCEPT ![x] = command.held] /\ Jobs!GoesOn(command)
      /\ UNCHANGED <<segments, manifest, now, made, commands, worked, lastSeen, lapses>>
    BY DEF Jobs!WriteFile, Jobs!Doing, Jobs!ghosts
<1>2. /\ command \in Commands /\ command.held \in Segments1
    BY <1>1, UsedIsHeld DEF JobInv, JobShapes, Needs
<1>3. Onward(command.held, command.manifest)
    BY <1>1, <1>2, GoingOn
<1>4. /\ files' \in [Jobs!Outputs \cup {"video"} -> Segments1 \cup {None, Torn}]
      /\ files'[x] = command.held /\ \A f \in Jobs!Outputs : f # x => files'[f] = files[f]
    BY <1>1, <1>2 DEF JobInv, JobShapes
<1>5. JobShapes'
    BY <1>1, <1>3, <1>4 DEF JobInv, JobShapes, Onward
<1>6. x \notin Jobs!Statuses /\ x \notin Reads \cup Changes \cup {"segments"}
    BY <1>1 DEF Jobs!Statuses, Jobs!Outputs, Reads, Changes
<1>7. StepsFollow'
    BY <1>1, <1>3, <1>6, OrderGoesOn
<1>8. TimeKept' /\ EndsAreTold'
    BY <1>1, <1>3, ClockAlone DEF Onward
<1>9. HeldFollows'
    BY <1>1, <1>3, <1>6, HeldAlone DEF Onward
<1>10. /\ Begins(command.name, command.todo) /\ x \in WrittenBy(command.name)
    BY <1>1, CommandBegins DEF WrittenBy
<1>11. FilesFollow'
    <2>1. /\ Left' = In(Tail(command.todo)) /\ command'.name = command.name
          /\ command'.held = command.held /\ Left = {x} \cup In(Tail(command.todo))
        BY <1>3, <1>10 DEF Onward, Left, Begins
    <2>2. ASSUME NEW f \in WrittenBy(command.name), f \notin Left', Left' \cap Makes(f) = {}
          PROVE  Jobs!Shows(f, command.held, files'[f])
        <3>1. CASE f = x
            BY <3>1, <1>2, <1>4 DEF Jobs!Shows, JobAssumption
        <3>2. CASE f # x
            <4>1. x \notin Makes(f)
                BY <1>6 DEF Makes, Changes
            <4>2. Jobs!Shows(f, command.held, files[f])
                BY <3>2, <4>1, <1>1, <2>1, <2>2 DEF JobInv, FilesFollow
            <4> QED BY <3>2, <4>2, <1>4 DEF WrittenBy
        <3> QED BY <3>1, <3>2
    <2>3. ASSUME "stale" \notin lapses, NEW f \in Jobs!Outputs \ WrittenBy(command.name)
          PROVE  IF command.name \in Recognitions THEN files'[f] = None
                 ELSE Jobs!Shows(f, segments, files'[f])
        <3>1. files'[f] = files[f]
            BY <1>4, <1>10
        <3> QED BY <2>3, <3>1, <1>1 DEF JobInv, FilesFollow
    <2>4. /\ \A f \in WrittenBy(command'.name) :
                f \notin Left' /\ Left' \cap Makes(f) = {} =>
                    Jobs!Shows(f, command'.held, files'[f])
          /\ "stale" \notin lapses' =>
                \A f \in Jobs!Outputs \ WrittenBy(command'.name) :
                    IF command'.name \in Recognitions THEN files'[f] = None
                    ELSE Jobs!Shows(f, segments', files'[f])
        BY <1>1, <2>1, <2>2, <2>3
    <2> QED BY <2>4 DEF FilesFollow, Jobs!Shows
<1>12. DoneShows'
    BY <1>1, <1>10 DEF JobInv, DoneShows, StepsFollow, Begins
<1> QED BY <1>5, <1>7, <1>8, <1>9, <1>11, <1>12 DEF JobInv

\* The video is none of the subtitle files.
LEMMA BurnKeeps ==
    ASSUME JobAssumption, JobInv, Jobs!Burn PROVE JobInv'
<1>1. /\ command # None /\ command.todo # <<>> /\ Head(command.todo) = "burn"
      /\ files' = [files EXCEPT !["video"] = files["ass"]] /\ Jobs!GoesOn(command)
      /\ UNCHANGED <<segments, manifest, now, made, commands, worked, lastSeen, lapses>>
    BY DEF Jobs!Burn, Jobs!Doing, Jobs!ghosts
<1>2. command \in Commands
    BY <1>1 DEF JobInv, JobShapes
<1>3. Onward(command.held, command.manifest)
    BY <1>1, <1>2, GoingOn
<1>4. /\ files' \in [Jobs!Outputs \cup {"video"} -> Segments1 \cup {None, Torn}]
      /\ \A f \in Jobs!Outputs : files'[f] = files[f]
    BY <1>1 DEF JobInv, JobShapes, Jobs!Outputs
<1>5. JobShapes'
    BY <1>1, <1>3, <1>4 DEF JobInv, JobShapes, Onward
<1>6. "burn" \notin Jobs!Statuses \cup Jobs!Outputs \cup Reads \cup Changes \cup {"segments"}
    BY DEF Jobs!Statuses, Jobs!Outputs, Reads, Changes
<1>7. StepsFollow'
    BY <1>1, <1>3, <1>6, OrderGoesOn
<1>8. TimeKept' /\ EndsAreTold'
    BY <1>1, <1>3, ClockAlone DEF Onward
<1>9. HeldFollows'
    BY <1>1, <1>3, <1>6, HeldAlone DEF Onward
<1>10. FilesFollow'
    BY <1>1, <1>3, <1>4, <1>6, FilesAlone
<1>11. DoneShows'
    BY <1>1, <1>4 DEF JobInv, DoneShows, Jobs!Shows
<1> QED BY <1>5, <1>7, <1>8, <1>9, <1>10, <1>11 DEF JobInv

\* Nothing is left to be known of a command that is over.
LEMMA ReturnsKeeps ==
    ASSUME JobInv, Jobs!Returns PROVE JobInv'
<1>1. /\ command' = None
      /\ UNCHANGED <<segments, files, manifest, now, made, worked, lastSeen, lapses>>
    BY DEF Jobs!Returns, Jobs!ghosts
<1>2. TimeKept' /\ EndsAreTold'
    BY <1>1, ClockAlone
<1> QED BY <1>1, <1>2 DEF JobInv, JobShapes, StepsFollow, HeldFollows, FilesFollow,
               DoneShows

\* Time goes by for the command that runs.
LEMMA TickKeeps ==
    ASSUME JobAssumption, JobInv, Jobs!Tick PROVE JobInv'
<1>1. /\ now' = now + 1
      /\ worked' = IF command # None /\ command.manifest.active # None THEN worked + 1 ELSE worked
      /\ lastSeen' = IF command # None THEN now' ELSE lastSeen
      /\ UNCHANGED <<segments, files, manifest, command, made, lapses>>
    BY DEF Jobs!Tick
<1>2. JobShapes'
    BY <1>1 DEF JobInv, JobShapes
<1>3. StepsFollow' /\ HeldFollows' /\ FilesFollow' /\ DoneShows' /\ EndsAreTold'
    BY <1>1 DEF JobInv, StepsFollow, HeldFollows, FilesFollow, DoneShows, EndsAreTold, Left
<1>4. /\ manifest # None => manifest \in Manifests
      /\ command # None => command.manifest \in Manifests
    BY DEF JobInv, JobShapes, Commands
<1>5. /\ manifest # None => manifest.elapsed \in Nat
                            /\ (manifest.active # None => manifest.active \in Nat)
      /\ command # None => command.manifest.elapsed \in Nat
             /\ (command.manifest.active # None => command.manifest.active \in Nat)
    BY <1>4 DEF Manifests
<1>6. now \in Nat /\ worked \in Nat /\ lastSeen \in Nat /\ lastSeen <= now
    BY DEF JobInv, JobShapes
<1>7. TimeKept
    BY DEF JobInv
<1>8. TimeKept'
    <2>1. CASE command = None
        BY <2>1, <1>1, <1>5, <1>6, <1>7 DEF TimeKept, Spent
    <2>2. CASE command # None /\ command.manifest.active = None
        BY <2>2, <1>1, <1>5, <1>6, <1>7 DEF TimeKept, Spent
    <2>3. CASE command # None /\ command.manifest.active # None
        <3> DEFINE a == command.manifest.active
        <3>1. a \in Nat /\ lastSeen' = now + 1 /\ worked' = worked + 1
            BY <2>3, <1>1, <1>5
        <3>2. manifest # None
            BY <2>3, <1>7, <1>1 DEF TimeKept
        <3>3. ASSUME "idle" \notin lapses
              PROVE  /\ manifest.active = a /\ a <= now /\ (lastSeen = now \/ a = now)
                     /\ worked = Spent(manifest, lastSeen)
            BY <2>3, <3>2, <3>3, <1>7 DEF TimeKept
        <3>4. ASSUME "idle" \notin lapses PROVE worked' = Spent(manifest, now + 1)
            <4>1. Spent(manifest, now + 1) = manifest.elapsed + ((now + 1) - a)
                BY <3>1, <3>3, <3>4, <2>3, <1>6 DEF Spent
            <4>2. Spent(manifest, lastSeen) = manifest.elapsed + (now - a)
                BY <3>1, <3>2, <3>3, <3>4, <2>3, <1>5, <1>6 DEF Spent
            <4> QED BY <4>1, <4>2, <3>1, <3>2, <3>3, <3>4, <1>5, <1>6
        <3>5. "idle" \notin lapses => command.manifest.elapsed = manifest.elapsed
            BY <2>3, <3>2, <1>7 DEF TimeKept
        <3>6. a <= now /\ (manifest.active # None => manifest.active <= now)
            BY <2>3, <3>2, <1>7 DEF TimeKept
        <3>7. /\ now' = now + 1 /\ manifest' = manifest /\ command' = command /\ lapses' = lapses
            BY <1>1
        <3> QED BY <2>3, <3>1, <3>2, <3>3, <3>4, <3>5, <3>6, <3>7, <1>5, <1>6
                   DEF TimeKept, Spent
    <2> QED BY <2>1, <2>2, <2>3
<1> QED BY <1>2, <1>3, <1>8 DEF JobInv

(***************************************************************************)
(* The manifest.                                                           *)
(***************************************************************************)
\* The time of the interval is counted once.
LEMMA SettledIs ==
    ASSUME JobAssumption, NEW m \in Manifests, now \in Nat,
           m.active # None => m.active <= now
    PROVE  /\ Jobs!Settled(m) \in Manifests /\ Jobs!Settled(m).elapsed = Spent(m, now)
           /\ Jobs!Settled(m).started = m.started
<1>1. m.elapsed \in Nat /\ (m.active # None => m.active \in Nat)
    BY DEF Manifests
<1> DEFINE e == m.elapsed + (IF m.active = None THEN 0 ELSE now - m.active)
<1>2. e \in Nat /\ e = Spent(m, now)
    BY <1>1 DEF Spent
<1>3. Jobs!Settled(m) = [m EXCEPT !.elapsed = e, !.active = None]
    BY DEF Jobs!Settled
<1> HIDE DEF e
<1> QED BY <1>2, <1>3 DEF Manifests

\* A mark counts the interval that it ends, and may start another.
LEMMA MarkedIs ==
    ASSUME JobAssumption, NEW m \in Manifests, now \in Nat,
           m.active # None => m.active <= now, NEW status \in Jobs!Statuses
    PROVE  /\ Jobs!Marked(m, status) \in Manifests
           /\ Jobs!Marked(m, status).status = status
           /\ Jobs!Marked(m, status).elapsed = Spent(m, now)
           /\ Jobs!Marked(m, status).active \in {None, now}
           /\ EndIsTold(Jobs!Marked(m, status))
<1> DEFINE n == Jobs!Settled(m)
           since == IF status \in Jobs!Processing THEN now ELSE None
           started == IF status \in Jobs!Processing /\ m.started = None THEN now ELSE m.started
           completed == IF status = "done" THEN now ELSE None
           x == [n EXCEPT !.active = since, !.started = started, !.completed = completed,
                          !.status = status, !.stage = None]
<1>1. n \in Manifests /\ n.elapsed = Spent(m, now)
    BY SettledIs
<1>2. /\ since \in Nat \cup {None} /\ since \in {None, now} /\ started \in Nat \cup {None}
      /\ completed \in Nat \cup {None} /\ (completed # None <=> status = "done")
    BY DEF Manifests, JobAssumption
<1>3. Jobs!Marked(m, status) = x
    BY DEF Jobs!Marked
<1>4. status # "failed" /\ "failed" \notin Jobs!Statuses
    BY DEF Jobs!Statuses
<1> HIDE DEF n, since, started, completed
<1>5. /\ x \in Manifests /\ x.status = status /\ x.elapsed = n.elapsed /\ x.active = since
      /\ x.stage = None /\ x.completed = completed
    BY <1>1, <1>2 DEF Manifests
<1> HIDE DEF x
<1> QED BY <1>1, <1>2, <1>3, <1>4, <1>5 DEF EndIsTold

\* A failure counts the interval until its time and keeps the status that failed.
LEMMA FailedIs ==
    ASSUME JobAssumption, NEW m \in Manifests, NEW time \in Nat, EndIsTold(m)
    PROVE  /\ Jobs!FailedAt(m, time) \in Manifests
           /\ Jobs!FailedAt(m, time).status = "failed"
           /\ Jobs!FailedAt(m, time).elapsed = Spent(m, time)
           /\ Jobs!FailedAt(m, time).active = None
           /\ EndIsTold(Jobs!FailedAt(m, time))
<1> DEFINE elapsed == Spent(m, time)
           stage == IF m.status = "failed" THEN m.stage ELSE m.status
           x == [m EXCEPT !.elapsed = elapsed, !.active = None, !.completed = time,
                          !.stage = stage, !.status = "failed"]
<1>1. elapsed \in Nat
    BY DEF Manifests, Spent
<1>2. stage \in Jobs!Statuses /\ stage # None /\ time # None
    BY DEF Manifests, EndIsTold, JobAssumption
<1>3. Jobs!FailedAt(m, time) = x
    BY DEF Jobs!FailedAt, Spent
<1> HIDE DEF elapsed, stage
<1>4. /\ x \in Manifests /\ x.status = "failed" /\ x.elapsed = elapsed /\ x.active = None
      /\ x.stage = stage /\ x.completed = time
    BY <1>1, <1>2 DEF Manifests
<1> HIDE DEF x
<1> QED BY <1>2, <1>3, <1>4 DEF EndIsTold, elapsed

\* What a mark of a running command counts is the time of work.
LEMMA WorkIsCounted ==
    ASSUME JobInv, command # None, "idle" \notin lapses
    PROVE  worked = Spent(command.manifest, now)
<1>1. /\ command.manifest \in Manifests
      /\ manifest # None => manifest \in Manifests
    BY DEF JobInv, JobShapes, Commands
<1>2. /\ command.manifest.elapsed \in Nat
      /\ command.manifest.active # None => command.manifest.active \in Nat
    BY <1>1 DEF Manifests
<1>3. now \in Nat /\ worked \in Nat /\ lastSeen \in Nat /\ lastSeen <= now /\ TimeKept
    BY DEF JobInv, JobShapes
<1>4. CASE manifest = None
    BY <1>2, <1>3, <1>4 DEF TimeKept, Spent
<1>5. CASE manifest # None
    <2>1. /\ worked = Spent(manifest, lastSeen)
          /\ command.manifest.elapsed = manifest.elapsed
          /\ command.manifest.active = manifest.active
          /\ command.manifest.active # None =>
                lastSeen = now \/ command.manifest.active = now
        BY <1>3, <1>5 DEF TimeKept
    <2> QED BY <2>1, <1>2, <1>3 DEF Spent
<1> QED BY <1>4, <1>5

\* A mark tells of what was done, and is done when everything is.
LEMMA MarkKeeps ==
    ASSUME JobAssumption, JobInv, Jobs!Mark PROVE JobInv'
<1> DEFINE x == Head(command.todo)
           m == Jobs!Marked(command.manifest, x)
<1>1. /\ command # None /\ command.todo # <<>> /\ x \in Jobs!Statuses
      /\ manifest' = m /\ Jobs!GoesOn([command EXCEPT !.manifest = m])
      /\ lapses' = IF m.status = "done"
                      /\ Jobs!Outputs \subseteq Jobs!Range(Jobs!Steps(command.name))
                   THEN lapses \ {"stale"} ELSE lapses
      /\ UNCHANGED <<segments, files, now, made, commands, worked, lastSeen>>
    BY DEF Jobs!Mark, Jobs!Doing
<1>2. /\ command \in Commands /\ command.manifest \in Manifests /\ now \in Nat
      /\ command.manifest.active # None => command.manifest.active <= now
    BY <1>1 DEF JobInv, JobShapes, Commands, TimeKept
<1>3. /\ m \in Manifests /\ m.status = x /\ m.elapsed = Spent(command.manifest, now)
      /\ m.active \in {None, now} /\ EndIsTold(m)
    BY <1>1, <1>2, MarkedIs
<1> HIDE DEF x, m
<1>4. Onward(command.held, m)
    BY <1>1, <1>2, <1>3, GoingOnMarked
<1>5. JobShapes'
    BY <1>1, <1>3, <1>4 DEF JobInv, JobShapes, Onward
<1>6. /\ Begins(command.name, command.todo) /\ Sequenced(command.name, Jobs!Steps(command.name))
    BY <1>1, CommandBegins
<1>7. /\ command'.name = command.name /\ command'.todo = Tail(command.todo)
      /\ Left' = In(Tail(command.todo)) /\ command'.held = command.held /\ command'.manifest = m
      /\ command' # None
    BY <1>4 DEF Onward, Left, JobAssumption
<1>8. x = "done" => Left' = {}
    BY <1>6, <1>7 DEF Begins, x
<1>9. StepsFollow'
    <2>1. InOrder(command'.name, command'.todo)
        BY <1>6, <1>7 DEF Begins
    <2>2. Left' = {} => Announced(command'.todo)
        BY DEF Left, In, Announced
    <2>3. manifest'.status = "done" => Announced(command'.todo)
        BY <1>1, <1>3, <1>8, <2>2
    <2> QED BY <2>1, <2>3 DEF StepsFollow, InOrder, WrittenBy, Announced, Leads,
                   NoneAfter, In
<1>10. /\ x \notin Reads \cup Changes \cup {"segments"} /\ x \notin Jobs!Outputs
    BY <1>1 DEF Jobs!Statuses, Jobs!Outputs, Reads, Changes
<1>11. HeldFollows'
    BY <1>1, <1>4, <1>7, <1>10, HeldAlone DEF x
<1>12. FilesFollow'
    <2>1. "stale" \notin lapses' =>
              "stale" \notin lapses \/ Jobs!Outputs \subseteq WrittenBy(command.name)
        BY <1>1 DEF Jobs!Range, In, WrittenBy
    <2> QED BY <1>1, <1>4, <1>10, <2>1, FilesAlone DEF x
<1>13. DoneShows'
    <2> SUFFICES ASSUME x = "done", "stale" \notin lapses', NEW f \in Jobs!Outputs,
                        f = "source" \/ files[f] # None
                 PROVE  Jobs!Shows(f, segments, files[f])
        BY <1>1, <1>3 DEF DoneShows, Jobs!Shows
    <2>1. CASE f \in WrittenBy(command.name)
        <3>1. Jobs!Shows(f, command.held, files[f])
            BY <1>1, <1>7, <1>8, <1>12, <2>1 DEF FilesFollow, Jobs!Shows, WrittenBy
        <3>2. Subtitles(command.name)
            BY <1>6, <2>1 DEF Sequenced, Subtitles, WrittenBy, Needs
        <3>3. segments = command.held
            BY <1>1, <1>7, <1>8, <1>11, <3>2 DEF HeldFollows, Subtitles
        <3> QED BY <3>1, <3>3
    <2>2. CASE f \notin WrittenBy(command.name)
        <3>1. command.name \in Recognitions => f # "source"
            BY <1>6, <2>2 DEF Sequenced, WrittenBy
        <3>2. IF command.name \in Recognitions THEN files[f] = None
              ELSE Jobs!Shows(f, segments, files[f])
            BY <1>1, <1>7, <1>12, <2>2 DEF FilesFollow, Jobs!Shows, WrittenBy
        <3> QED BY <3>1, <3>2
    <2> QED BY <2>1, <2>2
<1>14. TimeKept'
    <2>1. m.active # None => m.active = now
        BY <1>3
    <2>2. lastSeen \in Nat /\ lastSeen <= now
        BY DEF JobInv, JobShapes
    <2>3. m.elapsed \in Nat
        BY <1>3 DEF Manifests
    <2>4. Spent(m, lastSeen) = m.elapsed
        BY <2>1, <2>2, <2>3, <1>2 DEF Spent
    <2>5. "idle" \notin lapses => worked = m.elapsed
        BY <1>1, <1>3, WorkIsCounted
    <2>6. m # None
        BY <1>3 DEF JobAssumption
    <2>7. "idle" \notin lapses' => "idle" \notin lapses
        BY <1>1
    <2> QED BY <1>1, <1>2, <1>7, <2>1, <2>4, <2>5, <2>6, <2>7 DEF TimeKept, Spent
<1>15. EndsAreTold'
    BY <1>1, <1>3, <1>7 DEF EndsAreTold, EndIsTold
<1> QED BY <1>5, <1>9, <1>11, <1>12, <1>13, <1>14, <1>15 DEF JobInv

\* A file is cut only after the manifest was marked.
LEMMA FilesTorn ==
    ASSUME JobAssumption, JobInv, command # None, Jobs!MayTear
    PROVE  /\ files' \in [Jobs!Outputs \cup {"video"} -> Segments1 \cup {None, Torn}]
           /\ manifest # None /\ manifest.status = "done" => files' = files
<1>1. CASE files' = files
    BY <1>1 DEF JobInv, JobShapes
<1>2. CASE files' # files
    <2>1. /\ command.todo # <<>> /\ Head(command.todo) \in Jobs!Outputs
          /\ files' = [files EXCEPT ![Head(command.todo)] = Torn]
        BY <1>2 DEF Jobs!MayTear, Jobs!Doing
    <2>2. Begins(command.name, command.todo)
        BY <2>1, CommandBegins
    <2>3. ~(manifest # None /\ manifest.status = "done")
        BY <2>1, <2>2 DEF JobInv, StepsFollow, Begins
    <2> QED BY <2>1, <2>3 DEF JobInv, JobShapes
<1> QED BY <1>1, <1>2

\* A command that is killed leaves the manifest as it was last marked.
LEMMA KilledKeeps ==
    ASSUME JobAssumption, JobInv, Jobs!Killed PROVE JobInv'
<1>1. /\ command # None /\ command' = None /\ Jobs!MayTear
      /\ UNCHANGED <<segments, manifest, now, made, worked, lastSeen, lapses>>
    BY DEF Jobs!Killed, Jobs!ghosts
<1>2. /\ files' \in [Jobs!Outputs \cup {"video"} -> Segments1 \cup {None, Torn}]
      /\ manifest # None /\ manifest.status = "done" => files' = files
    BY <1>1, FilesTorn
<1>3. JobShapes'
    BY <1>1, <1>2 DEF JobInv, JobShapes
<1>4. TimeKept' /\ EndsAreTold'
    BY <1>1, ClockAlone
<1>5. DoneShows'
    BY <1>1, <1>2 DEF JobInv, DoneShows, Jobs!Shows
<1> QED BY <1>1, <1>3, <1>4, <1>5 DEF JobInv, StepsFollow, HeldFollows, FilesFollow

\* A command that fails counts the time of its last mark, or leaves a clock that runs.
LEMMA FailsKeeps ==
    ASSUME JobAssumption, JobInv, Jobs!Fails PROVE JobInv'
<1> DEFINE x == Head(command.todo)
           cm == command.manifest
           failing == IF Jobs!Doing(Jobs!Statuses) THEN Jobs!Marked(cm, x) ELSE cm
           failed == Jobs!FailedAt(failing, now)
<1>1. /\ command # None /\ command' = None /\ Jobs!MayTear
      /\ manifest' \in {manifest, failed}
      /\ lapses' = IF manifest' # None /\ manifest'.active # None
                   THEN lapses \cup {"idle"} ELSE lapses
      /\ UNCHANGED <<segments, now, made, worked, lastSeen>>
    BY DEF Jobs!Fails
<1>2. /\ command \in Commands /\ cm \in Manifests /\ now \in Nat
      /\ cm.active # None => cm.active <= now
      /\ EndIsTold(cm)
    BY <1>1 DEF JobInv, JobShapes, Commands, TimeKept, EndsAreTold
<1>3. /\ failing \in Manifests /\ EndIsTold(failing)
      /\ Spent(failing, now) = Spent(cm, now)
    <2>1. CASE Jobs!Doing(Jobs!Statuses)
        <3>1. x \in Jobs!Statuses /\ failing = Jobs!Marked(cm, x)
            BY <2>1 DEF Jobs!Doing
        <3>2. /\ failing \in Manifests /\ EndIsTold(failing)
              /\ failing.elapsed = Spent(cm, now) /\ failing.active \in {None, now}
            BY <3>1, <1>2, MarkedIs
        <3> HIDE DEF failing
        <3>3. failing.elapsed \in Nat
            BY <3>2 DEF Manifests
        <3>4. Spent(failing, now) = failing.elapsed
            BY <3>2, <3>3, <1>2 DEF Spent
        <3> QED BY <3>2, <3>4
    <2>2. CASE ~Jobs!Doing(Jobs!Statuses)
        BY <2>2, <1>2
    <2> QED BY <2>1, <2>2
<1> HIDE DEF failing
<1>4. /\ failed \in Manifests /\ failed.status = "failed" /\ failed.active = None
      /\ failed.elapsed = Spent(cm, now) /\ EndIsTold(failed)
    BY <1>2, <1>3, FailedIs
<1> HIDE DEF failed
<1>5. /\ files' \in [Jobs!Outputs \cup {"video"} -> Segments1 \cup {None, Torn}]
      /\ manifest # None /\ manifest.status = "done" => files' = files
    BY <1>1, FilesTorn
<1>6. JobShapes'
    BY <1>1, <1>4, <1>5 DEF JobInv, JobShapes
<1>7. DoneShows'
    <2>1. CASE manifest' = manifest
        BY <2>1, <1>1, <1>5 DEF JobInv, DoneShows, Jobs!Shows
    <2>2. CASE manifest' = failed
        BY <2>2, <1>4 DEF DoneShows
    <2> QED BY <1>1, <2>1, <2>2
<1>8. TimeKept'
    <2>1. CASE manifest' = manifest
        BY <2>1, <1>1 DEF JobInv, TimeKept, Spent
    <2>2. CASE manifest' = failed
        <3>1. failed # None /\ failed.elapsed \in Nat
            BY <1>4 DEF JobAssumption, Manifests
        <3>2. lapses' = lapses
            BY <2>2, <1>1, <1>4
        <3>3. "idle" \notin lapses => worked = failed.elapsed
            BY <1>1, <1>4, WorkIsCounted
        <3>4. "idle" \notin lapses => worked = Spent(failed, lastSeen)
            BY <3>1, <3>3, <1>4 DEF Spent
        <3> QED BY <2>2, <3>1, <3>2, <3>4, <1>1, <1>4 DEF TimeKept, Spent
    <2> QED BY <1>1, <2>1, <2>2
<1>9. EndsAreTold'
    BY <1>1, <1>4 DEF JobInv, EndsAreTold, EndIsTold
<1> QED BY <1>1, <1>6, <1>7, <1>8, <1>9 DEF JobInv, StepsFollow, HeldFollows, FilesFollow

\* The desktop's recovery counts the time until the command was last seen.
LEMMA FailInterruptedKeeps ==
    ASSUME JobAssumption, JobInv, Jobs!FailInterrupted PROVE JobInv'
<1> DEFINE failed == Jobs!FailedAt(manifest, lastSeen)
<1>1. /\ command = None /\ command' = None /\ manifest # None /\ manifest' = failed
      /\ UNCHANGED <<segments, files, now, made, worked, lastSeen, lapses>>
    BY DEF Jobs!FailInterrupted, Jobs!ghosts
<1>2. manifest \in Manifests /\ lastSeen \in Nat /\ EndIsTold(manifest)
    BY <1>1 DEF JobInv, JobShapes, EndsAreTold
<1>3. /\ failed \in Manifests /\ failed.status = "failed" /\ failed.active = None
      /\ failed.elapsed = Spent(manifest, lastSeen) /\ EndIsTold(failed)
    BY <1>2, FailedIs
<1> HIDE DEF failed
<1>4. failed # None /\ failed.elapsed \in Nat
    BY <1>3 DEF JobAssumption, Manifests
<1>5. JobShapes' /\ DoneShows' /\ EndsAreTold'
    BY <1>1, <1>3 DEF JobInv, JobShapes, DoneShows, EndsAreTold, EndIsTold
<1>6. "idle" \notin lapses => worked = Spent(failed, lastSeen)
    BY <1>1, <1>3, <1>4 DEF JobInv, TimeKept, Spent
<1>7. TimeKept'
    BY <1>1, <1>3, <1>4, <1>6 DEF TimeKept, Spent
<1> QED BY <1>1, <1>5, <1>7 DEF JobInv, StepsFollow, HeldFollows, FilesFollow

\* A command begins with its list of steps and the manifest there is.
LEMMA StartCommandKeeps ==
    ASSUME JobAssumption, JobInv, NEW name \in CommandNames, Jobs!StartCommand(name)
    PROVE  JobInv'
<1> DEFINE m == IF manifest = None THEN Jobs!NewManifest ELSE manifest
           output == CASE name = "process and render" -> TRUE
                       [] name \in {"render", "rerender"} -> TRUE
                       [] Jobs!Recognises(name) /\ name # "process and render" -> FALSE
                       [] OTHER -> m.output
           n == [m EXCEPT !.output = output]
           s == Jobs!Steps(name)
           c == [name |-> name, todo |-> s, held |-> None, manifest |-> n]
<1>1. /\ command = None /\ command' = c
      /\ lapses' = lapses
            \cup (IF manifest # None /\ manifest.active # None THEN {"idle"} ELSE {})
            \cup (IF Jobs!LeavesStale(name) THEN {"stale"} ELSE {})
      /\ UNCHANGED <<segments, files, manifest, now, made, worked, lastSeen>>
    BY DEF Jobs!StartCommand
<1>2. Sequenced(name, s)
    BY Sequences DEF JobAssumption
<1>3. /\ m \in Manifests /\ EndIsTold(m)
      /\ manifest = None => m.elapsed = 0 /\ m.active = None
    <2>1. CASE manifest = None
        BY <2>1 DEF Jobs!NewManifest, Manifests, EndIsTold, Jobs!Statuses, JobAssumption
    <2>2. CASE manifest # None
        BY <2>2 DEF JobInv, JobShapes, EndsAreTold
    <2> QED BY <2>1, <2>2
<1> HIDE DEF m
<1>4. output \in BOOLEAN
    BY <1>3 DEF Manifests
<1> HIDE DEF output
<1>5. /\ n \in Manifests /\ n.elapsed = m.elapsed /\ n.active = m.active
      /\ n.stage = m.stage /\ n.completed = m.completed /\ n.status = m.status
    BY <1>3, <1>4 DEF Manifests
<1> HIDE DEF n
<1>6. c \in Commands /\ c # None
    <2>1. s \in Seq(StepNames)
        BY <1>2 DEF Sequenced
    <2> HIDE DEF s
    <2>2. c \in Commands
        BY <1>5, <2>1 DEF Commands
    <2> QED BY <2>2 DEF JobAssumption
<1>7. c.name = name /\ c.todo = s /\ c.held = None /\ c.manifest = n
    OBVIOUS
<1> HIDE DEF c, s
<1>8. Left' = In(s)
    BY <1>1, <1>7 DEF Left
<1>9. JobShapes'
    BY <1>1, <1>6 DEF JobInv, JobShapes
<1>10. StepsFollow'
    <2>1. InOrder(name, s) /\ Announced(s)
        BY <1>2 DEF Sequenced
    <2>2. InOrder(command'.name, command'.todo) /\ Announced(command'.todo)
        BY <2>1, <1>1, <1>7
    <2> QED BY <2>2 DEF StepsFollow, InOrder, WrittenBy, Announced, Leads, NoneAfter, In
<1>11. HeldFollows'
    <2>1. Subtitles(name) => In(s) \cap Reads # {}
        BY <1>2 DEF Sequenced, Subtitles
    <2>2. name = "translate" => "read" \in In(s)
        BY <1>2 DEF Sequenced
    <2> QED BY <2>1, <2>2, <1>1, <1>7, <1>8 DEF HeldFollows, Subtitles
<1>12. FilesFollow'
    <2>1. \A f \in WrittenBy(name) : f \in In(s)
        BY DEF WrittenBy, s
    <2>2. ASSUME "stale" \notin lapses', NEW f \in Jobs!Outputs \ WrittenBy(name)
          PROVE  IF name \in Recognitions THEN files[f] = None
                 ELSE Jobs!Shows(f, segments, files[f])
        <3>1. Jobs!Recognises(name) <=> name \in Recognitions
            BY <1>2 DEF Jobs!Recognises, Sequenced, s
        <3>2. f \in Jobs!Outputs \ Jobs!Range(Jobs!Steps(name))
            BY DEF WrittenBy, In, Jobs!Range
        <3>3. ~Jobs!LeavesStale(name)
            BY <1>1, <2>2
        <3> QED BY <3>1, <3>2, <3>3 DEF Jobs!LeavesStale
    <2>3. command'.name = name /\ files' = files /\ segments' = segments
        BY <1>1, <1>7
    <2> QED BY <2>1, <2>2, <2>3, <1>8 DEF FilesFollow, WrittenBy, Jobs!Shows
<1>13. DoneShows'
    BY <1>1 DEF JobInv, DoneShows, Jobs!Shows
<1>14. TimeKept'
    <2>1. "idle" \notin lapses' =>
              "idle" \notin lapses /\ (manifest = None \/ manifest.active = None)
        BY <1>1
    <2>2. manifest # None => m = manifest
        BY DEF m
    <2>3. command'.manifest.elapsed = m.elapsed /\ command'.manifest.active = m.active
        BY <1>1, <1>5, <1>7
    <2>4. /\ manifest' = manifest /\ now' = now /\ worked' = worked /\ lastSeen' = lastSeen
          /\ command' # None
        BY <1>1, <1>6
    <2> QED BY <1>3, <2>1, <2>2, <2>3, <2>4 DEF JobInv, TimeKept, Spent
<1>15. EndsAreTold'
    BY <1>1, <1>3, <1>5, <1>7 DEF JobInv, EndsAreTold, EndIsTold
<1> QED BY <1>9, <1>10, <1>11, <1>12, <1>13, <1>14, <1>15 DEF JobInv

\* A directory that is new, or of a translated job.
LEMMA JobBegins == ASSUME JobAssumption, Jobs!JobInit PROVE JobInv
<1>1. /\ command = None /\ now = 0 /\ worked = 0 /\ lastSeen = 0 /\ lapses = {}
      /\ made \in {0, 1}
    BY DEF Jobs!JobInit
<1>2. 0 # None
    <2>1. \A n \in Nat : n # None
        BY DEF JobAssumption
    <2> QED BY <2>1
<1>3. CASE /\ segments = None /\ manifest = None
           /\ files = [f \in Jobs!Outputs \cup {"video"} |-> None]
    BY <1>1, <1>3 DEF JobInv, JobShapes, StepsFollow, HeldFollows, FilesFollow, DoneShows,
       TimeKept, EndsAreTold
<1>4. CASE /\ segments = Jobs!Translated1
           /\ files = [f \in Jobs!Outputs \cup {"video"} |->
                          IF f = "video" THEN None ELSE Jobs!Translated1]
           /\ manifest = [Jobs!NewManifest EXCEPT !.status = "done", !.started = 0,
                                                  !.completed = 0]
    <2>1. manifest = [status |-> "done", stage |-> None, elapsed |-> 0, active |-> None,
                      started |-> 0, completed |-> 0, output |-> FALSE]
        BY <1>4 DEF Jobs!NewManifest
    <2>2. manifest \in Manifests
        BY <2>1 DEF Manifests, Jobs!Statuses
    <2>3. /\ Jobs!Translated1 \in Segments1 /\ Jobs!Translated1 \notin {None, Torn}
        <3>1. Jobs!Translated1 \in Segments1
            BY DEF Jobs!Translated1, Segments1
        <3> QED BY <3>1 DEF JobAssumption
    <2>4. JobShapes
        BY <1>1, <1>4, <2>2, <2>3 DEF JobShapes
    <2>5. DoneShows
        BY <1>4, <2>3 DEF DoneShows, Jobs!Shows, Jobs!Outputs, JobAssumption
    <2>6. TimeKept
        BY <1>1, <2>1 DEF TimeKept, Spent
    <2>7. EndsAreTold
        <3>1. manifest.stage = None /\ manifest.completed = 0 /\ manifest.status = "done"
            BY <2>1
        <3> QED BY <1>1, <1>2, <3>1 DEF EndsAreTold, EndIsTold
    <2> QED BY <1>1, <2>4, <2>5, <2>6, <2>7 DEF JobInv, StepsFollow, HeldFollows,
                   FilesFollow
<1> QED BY <1>3, <1>4 DEF Jobs!JobInit

\* Every step of the job keeps what is known of it.
LEMMA JobStep ==
    ASSUME JobAssumption, JobInv, [Jobs!JobNext]_Jobs!jobVars PROVE JobInv'
<1>1. CASE UNCHANGED Jobs!jobVars
    <2>1. UNCHANGED <<segments, files, manifest, command, now, made, worked, lastSeen, lapses>>
        BY <1>1 DEF Jobs!jobVars
    <2> QED BY <2>1 DEF JobInv, JobShapes, StepsFollow, HeldFollows, FilesFollow, DoneShows,
           TimeKept, EndsAreTold, Left, Spent, EndIsTold
<1>2. CASE Jobs!JobNext
    BY <1>2, StartCommandKeeps, MarkKeeps, ReadSegmentsKeeps, PrepareAudioKeeps,
       MakeTextKeeps, WriteSegmentsKeeps, WriteFileKeeps, BurnKeeps, ReturnsKeeps,
       FailsKeeps, KilledKeeps, FailInterruptedKeeps, TickKeeps
       DEF Jobs!JobNext
<1> QED BY <1>1, <1>2

\* What status.json says of a job is true of its directory and of its time, whichever of
\* its commands failed or were killed before (job_manifest.rs, job_runner.rs).
THEOREM ManifestIsHonest ==
    ASSUME JobAssumption PROVE Jobs!JobSpec => []Jobs!ManifestHonest
<1>1. JobInv => Jobs!ManifestHonest
    <2> SUFFICES ASSUME JobInv PROVE Jobs!ManifestHonest
        OBVIOUS
    <2>1. ASSUME manifest # None, "idle" \notin lapses
          PROVE  /\ manifest.elapsed <= worked
                 /\ command = None /\ manifest.active = None => manifest.elapsed = worked
        <3>1. worked = Spent(manifest, lastSeen) /\ manifest \in Manifests
            BY <2>1 DEF JobInv, JobShapes, TimeKept
        <3>2. manifest.elapsed \in Nat /\ (manifest.active # None => manifest.active \in Nat)
            BY <3>1 DEF Manifests
        <3> QED BY <3>1, <3>2 DEF Spent, JobInv, JobShapes
    <2> QED BY <2>1 DEF JobInv, DoneShows, EndsAreTold, EndIsTold, Jobs!ManifestHonest
<1>2. JobInv /\ [Jobs!JobNext]_Jobs!jobVars => JobInv'
    BY JobStep
<1>3. Jobs!JobInit => JobInv
    BY JobBegins
<1> QED BY <1>1, <1>2, <1>3, PTL DEF Jobs!JobSpec

row == x3
record == x4
kept == x5
compared == x6
checkpoints == x7
adoptions == x8
worker == x9
asked == x10
recogniser == x11
gate == x12
channel == x13
USE DEF row, record, kept, compared, checkpoints, adoptions, worker, asked, recogniser,
        gate, channel, revision

(***************************************************************************)
(* CandidateRuns: an adopted candidate keeps its evidence, and all that is *)
(* kept can be found and cleaned up.                                       *)
(*                                                                         *)
(* A candidate is read by its preview or by its record, and has a preview  *)
(* only if its recognition has ended.  Checkpoints stay as long as a       *)
(* candidate that is not released names them, and a released one that      *)
(* names them keeps the first of its files until they are gone.            *)
(***************************************************************************)
FileNames == {"candidate.json", "progress.json", "checkpoint-root.json", "candidate-cues.json",
              "preview.json", "comparisons", "released.json", "adopted.json"}
WorkerSteps == {"idle", "waiting", "recognising", "heard", "written", "recorded", "previewing"}

CandidateShapes ==
    /\ row \in [Runs -> Candidates!Statuses] /\ record \in [Runs -> Candidates!Statuses]
    /\ kept \in [Runs -> SUBSET FileNames]
    /\ worker \in [Runs -> WorkerSteps]
    /\ adoptions \subseteq Runs
    /\ gate \in [by : {"nobody", "release", "adoption"}, run : Runs \cup {None}]
    /\ gate.by \in {"release", "adoption"} => gate.run \in Runs

\* What the rows, the records and the files say of where a candidate is.
RecordsFollow(c) ==
    /\ row[c] = "none" => worker[c] = "idle" /\ record[c] = "none" /\ kept[c] = {}
    /\ row[c] \in {"queued", "running"} => "released.json" \notin kept[c]
    /\ worker[c] \in {"waiting", "recognising", "heard", "written", "recorded"} =>
          row[c] \in {"queued", "running"}
    /\ row[c] = "succeeded" => record[c] = "succeeded"
    /\ worker[c] = "waiting" => record[c] = "queued"
    /\ worker[c] \in {"recorded", "previewing"} => record[c] = "succeeded"
    /\ "preview.json" \in kept[c] => record[c] \in {"succeeded", "failed"}

\* What is kept of a candidate, and of its checkpoints.
Names(c, root) == RangeOf[c] = root /\ "checkpoint-root.json" \in kept[c]
FilesKept(c) ==
    /\ row[c] # "none" => {"candidate.json", "released.json"} \cap kept[c] # {}
    /\ "checkpoint-root.json" \in kept[c] /\ "released.json" \notin kept[c] =>
          RangeOf[c] \in checkpoints
    /\ "adopted.json" \in kept[c] => c \in adoptions
CheckpointsNamed ==
    \A root \in checkpoints : \E c \in Runs :
        /\ Names(c, root) /\ row[c] # "none"
        /\ "released.json" \notin kept[c] \/ "candidate.json" \in kept[c]

\* Who is adopted or released, and by whom.
GateFollows ==
    /\ gate.by = "adoption" => gate.run \in adoptions
    /\ gate.by = "release" => gate.run \notin adoptions /\ "released.json" \in kept[gate.run]

CandidateInv ==
    /\ CandidateShapes /\ CheckpointsNamed /\ GateFollows
    /\ \A c \in Runs : RecordsFollow(c) /\ FilesKept(c)
    /\ Candidates!AdoptedKeepsEvidence

\* At first there is nothing.
LEMMA CandidatesInitially == Candidates!CandidateInit => CandidateInv
BY DEF Candidates!CandidateInit, Candidates!Open, Candidates!Statuses, WorkerSteps,
       CandidateInv, CandidateShapes, RecordsFollow, FilesKept, CheckpointsNamed, Names,
       GateFollows, Candidates!AdoptedKeepsEvidence

\* A candidate that is asked for has no files yet.
LEMMA PreviewKeepsEvidence ==
    ASSUME NEW c \in Runs, CandidateInv, Candidates!Preview(c) PROVE CandidateInv'
BY DEF Candidates!Preview, Candidates!Status, Candidates!Keep, Candidates!Step,
       Candidates!Statuses, WorkerSteps, FileNames, CandidateInv, CandidateShapes,
       RecordsFollow, FilesKept, CheckpointsNamed, Names, GateFollows,
       Candidates!AdoptedKeepsEvidence

\* A recognition begins with a candidate that has not ended.
LEMMA TakeRecogniserKeepsEvidence ==
    ASSUME NEW c \in Runs, CandidateInv, Candidates!TakeRecogniser(c) PROVE CandidateInv'
BY DEF Candidates!TakeRecogniser, Candidates!Status, Candidates!Keep, Candidates!Step,
       Candidates!Statuses, WorkerSteps, FileNames, CandidateInv, CandidateShapes,
       RecordsFollow, FilesKept, CheckpointsNamed, Names, GateFollows,
       Candidates!AdoptedKeepsEvidence

\* Checkpoints are named by the candidate that opens them.
LEMMA OpenCheckpointsKeepsEvidence ==
    ASSUME NEW c \in Runs, CandidateInv, Candidates!OpenCheckpoints(c) PROVE CandidateInv'
<1>1. /\ worker[c] = "recognising"
      /\ kept' = [kept EXCEPT ![c] = kept[c] \cup {"checkpoint-root.json"}]
      /\ checkpoints' = checkpoints \cup {RangeOf[c]}
      /\ UNCHANGED <<row, record, adoptions, worker, gate>>
    BY DEF Candidates!OpenCheckpoints, Candidates!Keep
<1>2. CheckpointsNamed'
    <2>1. ASSUME NEW root \in checkpoints
          PROVE  \E d \in Runs :
                    /\ Names(d, root)' /\ row[d] # "none"
                    /\ "released.json" \notin kept'[d] \/ "candidate.json" \in kept'[d]
        BY <1>1 DEF CandidateInv, CandidateShapes, CheckpointsNamed, Names
    <2>2. /\ Names(c, RangeOf[c])' /\ row[c] # "none"
          /\ "released.json" \notin kept'[c] \/ "candidate.json" \in kept'[c]
        <3>1. RecordsFollow(c) /\ FilesKept(c)
            BY DEF CandidateInv
        <3>2. row[c] # "none" /\ "released.json" \notin kept[c]
            BY <1>1, <3>1 DEF RecordsFollow
        <3>3. kept'[c] = kept[c] \cup {"checkpoint-root.json"}
            BY <1>1 DEF CandidateInv, CandidateShapes
        <3> QED BY <3>1, <3>2, <3>3 DEF FilesKept, Names
    <2> QED BY <1>1, <2>1, <2>2 DEF CheckpointsNamed, Names
<1>3. CandidateShapes' /\ GateFollows' /\ Candidates!AdoptedKeepsEvidence'
    BY <1>1 DEF CandidateInv, CandidateShapes, FileNames, GateFollows,
       Candidates!AdoptedKeepsEvidence
<1>4. \A d \in Runs : RecordsFollow(d)' /\ FilesKept(d)'
    BY <1>1 DEF CandidateInv, CandidateShapes, RecordsFollow, FilesKept
<1> QED BY <1>2, <1>3, <1>4 DEF CandidateInv

\* What was heard is written next.
LEMMA HeardKeepsEvidence ==
    ASSUME NEW c \in Runs, CandidateInv, Candidates!Heard(c) PROVE CandidateInv'
BY DEF Candidates!Heard, Candidates!Step, Candidates!stored, WorkerSteps, CandidateInv,
   CandidateShapes, RecordsFollow, FilesKept, CheckpointsNamed, Names, GateFollows,
   Candidates!AdoptedKeepsEvidence

\* Cues are added to what is kept.
LEMMA WriteCuesKeepsEvidence ==
    ASSUME NEW c \in Runs, CandidateInv, Candidates!WriteCues(c) PROVE CandidateInv'
BY DEF Candidates!WriteCues, Candidates!Keep, Candidates!Step, WorkerSteps, FileNames,
       CandidateInv, CandidateShapes, RecordsFollow, FilesKept, CheckpointsNamed, Names,
       GateFollows, Candidates!AdoptedKeepsEvidence

\* The record says first that a candidate succeeded.
LEMMA SucceedRecordKeepsEvidence ==
    ASSUME NEW c \in Runs, CandidateInv, Candidates!SucceedRecord(c) PROVE CandidateInv'
BY DEF Candidates!SucceedRecord, Candidates!Step, Candidates!Statuses, WorkerSteps,
       CandidateInv, CandidateShapes, RecordsFollow, FilesKept, CheckpointsNamed, Names,
       GateFollows, Candidates!AdoptedKeepsEvidence

\* The row says so after the record.
LEMMA SucceedRowKeepsEvidence ==
    ASSUME NEW c \in Runs, CandidateInv, Candidates!SucceedRow(c) PROVE CandidateInv'
BY DEF Candidates!SucceedRow, Candidates!Step, Candidates!Statuses, WorkerSteps,
       CandidateInv, CandidateShapes, RecordsFollow, FilesKept, CheckpointsNamed, Names,
       GateFollows, Candidates!AdoptedKeepsEvidence

\* A preview is written of a candidate that succeeded.
LEMMA WritePreviewKeepsEvidence ==
    ASSUME NEW c \in Runs, CandidateInv, Candidates!WritePreview(c) PROVE CandidateInv'
BY DEF Candidates!WritePreview, Candidates!Keep, Candidates!Step, WorkerSteps, FileNames,
       CandidateInv, CandidateShapes, RecordsFollow, FilesKept, CheckpointsNamed, Names,
       GateFollows, Candidates!AdoptedKeepsEvidence

\* A candidate that fails says so in both places, or where it can.
LEMMA CandidateFailsKeepsEvidence ==
    ASSUME NEW c \in Runs, CandidateInv, Candidates!CandidateFails(c) PROVE CandidateInv'
BY DEF Candidates!CandidateFails, Candidates!Status, Candidates!Step, Candidates!Statuses,
       WorkerSteps, CandidateInv, CandidateShapes, RecordsFollow, FilesKept,
       CheckpointsNamed, Names, GateFollows, Candidates!AdoptedKeepsEvidence

\* An error leaves the rows and the files.
LEMMA AbandonsKeepsEvidence ==
    ASSUME NEW c \in Runs, CandidateInv, Candidates!Abandons(c) PROVE CandidateInv'
BY DEF Candidates!Abandons, Candidates!Step, Candidates!stored, WorkerSteps, CandidateInv,
   CandidateShapes, RecordsFollow, FilesKept, CheckpointsNamed, Names, GateFollows,
   Candidates!AdoptedKeepsEvidence

\* A comparison is made of what can be read.
LEMMA CompareKeepsEvidence ==
    ASSUME NEW c \in Runs, CandidateInv, Candidates!Compare(c) PROVE CandidateInv'
BY DEF Candidates!Compare, Candidates!Keep, Candidates!Readable, Candidates!Open,
       FileNames, CandidateInv, CandidateShapes, RecordsFollow, FilesKept,
       CheckpointsNamed, Names, GateFollows, Candidates!AdoptedKeepsEvidence

\* What can be read and has cues may be adopted.
LEMMA AdoptKeepsEvidence ==
    ASSUME NEW c \in Runs, CandidateInv, Candidates!Adopt(c) PROVE CandidateInv'
BY DEF Candidates!Adopt, Candidates!Readable, Candidates!Open, CandidateInv,
       CandidateShapes, RecordsFollow, FilesKept, CheckpointsNamed, Names, GateFollows,
       Candidates!AdoptedKeepsEvidence

\* The mark of an adoption is of an adopted candidate.
LEMMA FinishMarksKeepsEvidence ==
    ASSUME CandidateInv, Candidates!FinishMarks PROVE CandidateInv'
BY DEF Candidates!FinishMarks, Candidates!Keep, Candidates!Open, FileNames, CandidateInv,
   CandidateShapes, RecordsFollow, FilesKept, CheckpointsNamed, Names, GateFollows,
   Candidates!AdoptedKeepsEvidence

\* A candidate that is released is not adopted.
LEMMA ReleaseKeepsEvidence ==
    ASSUME NEW c \in Runs, CandidateInv, Candidates!Release(c) PROVE CandidateInv'
BY DEF Candidates!Release, Candidates!Keep, Candidates!Releasable, Candidates!Open,
       FileNames, CandidateInv, CandidateShapes, RecordsFollow, FilesKept,
       CheckpointsNamed, Names, GateFollows, Candidates!AdoptedKeepsEvidence

\* Checkpoints go when no candidate that is not released names them.
LEMMA DropRootKeepsEvidence ==
    ASSUME CandidateInv, Candidates!DropRoot PROVE CandidateInv'
BY DEF Candidates!DropRoot, Candidates!SharedRoot, CandidateInv, CandidateShapes,
       RecordsFollow, FilesKept, CheckpointsNamed, Names, GateFollows,
       Candidates!AdoptedKeepsEvidence

\* A release that returns leaves the files.
LEMMA ReleaseReturnsKeepsEvidence ==
    ASSUME CandidateInv, Candidates!ReleaseReturns PROVE CandidateInv'
BY DEF Candidates!ReleaseReturns, Candidates!stored, Candidates!Open, CandidateInv,
   CandidateShapes, RecordsFollow, FilesKept, CheckpointsNamed, Names, GateFollows,
   Candidates!AdoptedKeepsEvidence

\* A crash fails what was under way.
LEMMA CrashCandidatesKeepsEvidence ==
    ASSUME CandidateInv, Candidates!CrashCandidates PROVE CandidateInv'
BY DEF Candidates!CrashCandidates, Candidates!Open, Candidates!Statuses, WorkerSteps,
       CandidateInv, CandidateShapes, RecordsFollow, FilesKept, CheckpointsNamed, Names,
       GateFollows, Candidates!AdoptedKeepsEvidence

\* The payload of a released candidate goes when its checkpoints are gone or somebody else's.
LEMMA DropPayloadKeepsEvidence ==
    ASSUME CandidateInv, NEW c \in Runs, NEW name \in kept[c], Candidates!DropPayload(name)
    PROVE  CandidateInv'
<1> DEFINE g == gate.run
<1>1. /\ gate.by = "release" /\ Candidates!RootSettled
      /\ name \notin {"released.json", "checkpoint-root.json"}
      /\ kept' = [kept EXCEPT ![g] = kept[g] \ {name}]
      /\ UNCHANGED <<row, record, checkpoints, adoptions, worker, gate>>
    BY DEF Candidates!DropPayload, Candidates!Payload
<1>2. g \in Runs /\ g \notin adoptions /\ "released.json" \in kept[g]
    BY <1>1 DEF CandidateInv, CandidateShapes, GateFollows
<1>3. CheckpointsNamed'
    <2> SUFFICES ASSUME NEW root \in checkpoints
                 PROVE  \E d \in Runs :
                            /\ Names(d, root)' /\ row[d] # "none"
                            /\ "released.json" \notin kept'[d] \/ "candidate.json" \in kept'[d]
        BY <1>1 DEF CheckpointsNamed, Names
    <2>1. PICK d \in Runs : /\ Names(d, root) /\ row[d] # "none"
                            /\ "released.json" \notin kept[d] \/ "candidate.json" \in kept[d]
        BY DEF CandidateInv, CheckpointsNamed
    <2>2. CASE d # g
        BY <1>1, <2>1, <2>2 DEF CandidateInv, CandidateShapes, Names
    <2>3. CASE d = g
        <3>1. PICK e \in Runs \ {g} : /\ row[e] # "none" /\ RangeOf[e] = root
                                      /\ "checkpoint-root.json" \in kept[e]
                                      /\ "released.json" \notin kept[e]
            BY <1>1, <2>1, <2>3 DEF Candidates!RootSettled, Candidates!SharedRoot, Names
        <3> QED BY <1>1, <3>1 DEF CandidateInv, CandidateShapes, Names
    <2> QED BY <2>2, <2>3
<1>4. CandidateShapes' /\ GateFollows' /\ Candidates!AdoptedKeepsEvidence'
    BY <1>1, <1>2 DEF CandidateInv, CandidateShapes, GateFollows,
           Candidates!AdoptedKeepsEvidence
<1>5. \A d \in Runs : RecordsFollow(d)' /\ FilesKept(d)'
    BY <1>1, <1>2 DEF CandidateInv, CandidateShapes, RecordsFollow, FilesKept
<1> QED BY <1>3, <1>4, <1>5 DEF CandidateInv

\* Every step keeps what is known of the candidates.
LEMMA CandidateStep ==
    ASSUME CandidateInv, [Candidates!CandidateNext]_Candidates!candidateVars
    PROVE  CandidateInv'
<1>1. ASSUME UNCHANGED <<row, record, kept, checkpoints, adoptions, worker, gate>>
      PROVE  CandidateInv'
    BY <1>1 DEF CandidateInv, CandidateShapes, RecordsFollow, FilesKept, CheckpointsNamed,
           Names, GateFollows, Candidates!AdoptedKeepsEvidence
<1>2. CASE UNCHANGED Candidates!candidateVars
    BY <1>1, <1>2 DEF Candidates!candidateVars
<1>3. CASE Candidates!Cancel \/ Candidates!EditWorkspace
    BY <1>1, <1>3 DEF Candidates!Cancel, Candidates!EditWorkspace, Candidates!stored
<1>4. CASE \E c \in Runs : \/ Candidates!Preview(c) \/ Candidates!Abandons(c)
                          \/ Candidates!Compare(c) \/ Candidates!Adopt(c)
                          \/ Candidates!Release(c)
    BY <1>4, PreviewKeepsEvidence, AbandonsKeepsEvidence, CompareKeepsEvidence,
       AdoptKeepsEvidence, ReleaseKeepsEvidence
<1>5. CASE \E c \in Runs : Candidates!Works(c)
    BY <1>5, TakeRecogniserKeepsEvidence, OpenCheckpointsKeepsEvidence, HeardKeepsEvidence,
       WriteCuesKeepsEvidence, SucceedRecordKeepsEvidence, SucceedRowKeepsEvidence,
       WritePreviewKeepsEvidence, CandidateFailsKeepsEvidence
    DEF Candidates!Works
<1>6. CASE Candidates!GateWorks
    BY <1>6, FinishMarksKeepsEvidence, DropRootKeepsEvidence, DropPayloadKeepsEvidence,
       ReleaseReturnsKeepsEvidence
    DEF Candidates!GateWorks, Candidates!DropsPayload
<1>7. CASE Candidates!CrashCandidates
    BY <1>7, CrashCandidatesKeepsEvidence
<1> QED BY <1>2, <1>3, <1>4, <1>5, <1>6, <1>7 DEF Candidates!CandidateNext

\* The invariant says that adopted candidates keep their evidence and that the list of runs
\* reaches every checkpoint (available_candidate, cleanup_candidate).
LEMMA CandidatesReached ==
    ASSUME CandidateInv
    PROVE  Candidates!AdoptedKeepsEvidence /\ Candidates!ListReachesAll
<1>1. ASSUME NEW root \in checkpoints
      PROVE  \E c \in Runs :
                /\ RangeOf[c] = root /\ "checkpoint-root.json" \in kept[c]
                /\ \/ row[c] \in {"queued", "running"} \/ c \in adoptions
                   \/ Candidates!Cleanable(c)
    <2>1. PICK c \in Runs : /\ Names(c, root) /\ row[c] # "none"
                            /\ "released.json" \notin kept[c] \/ "candidate.json" \in kept[c]
        BY DEF CandidateInv, CheckpointsNamed
    <2>2. FilesKept(c)
        BY DEF CandidateInv
    <2> QED BY <2>1, <2>2 DEF Names, FilesKept, Candidates!Cleanable, Candidates!Released,
               Candidates!CleanupPending, Candidates!Payload
<1>2. ASSUME NEW c \in Runs, Candidates!Reopenable(c), row[c] = "succeeded"
      PROVE  Candidates!Readable(c)
    BY <1>2 DEF CandidateInv, RecordsFollow, Candidates!Reopenable, Candidates!Readable,
       Candidates!Released
<1> QED BY <1>1, <1>2 DEF CandidateInv, Candidates!ListReachesAll

\* An adopted candidate keeps its cues and its checkpoints, and no checkpoints are left that
\* the list of runs cannot clean up (local_retranscription_service.rs): for any candidates,
\* shared ranges, releases cut short and crashes.
THEOREM CandidatesKeepEvidence ==
    Candidates!CandidateSpec =>
        [](Candidates!AdoptedKeepsEvidence /\ Candidates!ListReachesAll)
<1>1. CandidateInv => Candidates!AdoptedKeepsEvidence /\ Candidates!ListReachesAll
    BY CandidatesReached
<1>2. CandidateInv /\ [Candidates!CandidateNext]_Candidates!candidateVars => CandidateInv'
    BY CandidateStep
<1> QED BY <1>1, <1>2, CandidatesInitially, PTL DEF Candidates!CandidateSpec

resources == x1
policy == x4
plan == x5
finalCues == x6
finalSum == x7
asr == x8
notice == x9
early == x10
groupCache == x11
published == x12
faults == x13
USE DEF resources, policy, plan, finalCues, finalSum, asr, notice, early, groupCache,
        published, faults

(***************************************************************************)
(* AcousticRecognition: a transcript is stitched from evidence of one set  *)
(* of options and model files.                                             *)
(*                                                                         *)
(* The plan is made for the resources of its first attempt, and an attempt *)
(* with others ends before it looks at a chunk; cues that lie in the files *)
(* are of the evidence beside them, as they go before any of it does.      *)
(***************************************************************************)
Pieces == [text : Readings, made : Resources, intact : BOOLEAN]
CueSets == [policy : Policies, texts : [1..AudioChunks -> Readings]]
ChunkSteps == {"chunk", "call", "install"}
CueSteps == {"stitch", "sum", "write"}
Recognisers == [pc : {"off", "audio", "plan", "ended"} \cup ChunkSteps \cup CueSteps,
                chunk : 1..AudioChunks, cues : CueSets \cup {None}, ok : BOOLEAN]

AcousticAssumption ==
    /\ AudioChunks \in Nat \ {0} /\ Resources # {} /\ Policies # {}
    /\ None \notin Resources \cup Pieces \cup CueSets

AcousticShapes ==
    /\ resources \in Resources /\ policy \in Policies /\ plan \in Resources \cup {None}
    /\ evidence \in [1..AudioChunks -> Pieces \cup {None}]
    /\ finalCues \in CueSets \cup {None} /\ asr \in Recognisers
    /\ asr.pc \in {"audio", "plan"} => asr.chunk = 1

\* Where the evidence comes from, and how much of it is there.
EvidenceFollows ==
    /\ \A c \in 1..AudioChunks : evidence[c] # None => evidence[c].made = plan
    /\ asr.pc \in ChunkSteps \cup CueSteps => plan = resources
    /\ asr.pc \in ChunkSteps =>
          \A c \in 1..AudioChunks : c < asr.chunk => evidence[c] # None
    /\ asr.pc \in CueSteps => \A c \in 1..AudioChunks : evidence[c] # None

\* What the cues in the files were stitched from.
CuesFollow ==
    /\ finalCues # None =>
          \A c \in 1..AudioChunks : evidence[c] # None /\ finalCues.texts[c] = evidence[c].text
    /\ asr.pc \in {"call", "install"} => finalCues = None
    /\ asr.pc \in {"sum", "write"} =>
          finalCues # None /\ asr.cues = finalCues /\ finalCues.policy = policy

AcousticInv == AcousticShapes /\ EvidenceFollows /\ CuesFollow

\* At first there are no files.
LEMMA AcousticInitially ==
    ASSUME AcousticAssumption, Acoustic!RecognitionInit
    PROVE  AcousticInv
<1>1. /\ resources \in Resources /\ policy \in Policies
      /\ plan = None /\ evidence = [c \in 1..AudioChunks |-> None] /\ finalCues = None
      /\ asr = [pc |-> "off", chunk |-> 1, cues |-> None, ok |-> TRUE]
    BY Zenon DEF Acoustic!RecognitionInit, Acoustic!Off, AcousticAssumption
<1>2. 1 \in 1..AudioChunks
    BY DEF AcousticAssumption
<1>3. asr \in Recognisers
    BY <1>1, <1>2 DEF Recognisers
<1> QED BY <1>1, <1>3 DEF AcousticInv, AcousticShapes, EvidenceFollows, CuesFollow,
               ChunkSteps, CueSteps

\* A recogniser that is off, or prepares an attempt, or has ended it, knows nothing of the files.
LEMMA FilesStay ==
    ASSUME AcousticInv, UNCHANGED <<plan, evidence, finalCues>>, asr' \in Recognisers,
           asr'.pc \in {"off", "audio", "plan", "ended"},
           asr'.pc \in {"audio", "plan"} => asr'.chunk = 1, resources' \in Resources,
           policy' \in Policies
    PROVE  AcousticInv'
BY DEF AcousticInv, AcousticShapes, EvidenceFollows, CuesFollow, ChunkSteps, CueSteps

\* An attempt ends.
LEMMA EndsIs ==
    ASSUME AcousticInv, NEW ok \in BOOLEAN, Acoustic!Ends(ok)
    PROVE  asr' \in Recognisers /\ asr'.pc = "ended"
BY DEF AcousticInv, AcousticShapes, Acoustic!Ends, Recognisers

\* An attempt begins.
LEMMA StartTaskKeeps ==
    ASSUME AcousticAssumption, AcousticInv, Acoustic!StartTask PROVE AcousticInv'
<1>1. /\ asr' = [pc |-> "audio", chunk |-> 1, cues |-> None, ok |-> TRUE]
      /\ UNCHANGED <<resources, policy, plan, evidence, finalCues>>
    BY DEF Acoustic!StartTask, Acoustic!files, Acoustic!Off
<1>2. asr' \in Recognisers /\ asr'.pc = "audio" /\ asr'.chunk = 1
    BY <1>1 DEF Recognisers, AcousticAssumption
<1> QED BY <1>1, <1>2, FilesStay DEF AcousticInv, AcousticShapes

\* An attempt whose audio is damaged ends.
LEMMA PrepareAudioKeepsCues ==
    ASSUME AcousticInv, Acoustic!PrepareAudio PROVE AcousticInv'
<1>1. /\ asr.pc = "audio" /\ UNCHANGED <<resources, policy, plan, evidence, finalCues>>
      /\ Acoustic!Ends(FALSE) \/ asr' = [asr EXCEPT !.pc = "plan"]
    BY DEF Acoustic!PrepareAudio
<1>2. /\ asr' \in Recognisers /\ asr'.pc \in {"plan", "ended"}
      /\ asr'.pc = "plan" => asr'.chunk = 1
    BY <1>1, EndsIs DEF AcousticInv, AcousticShapes, Recognisers
<1> QED BY <1>1, <1>2, FilesStay DEF AcousticInv, AcousticShapes

\* An attempt goes on with the resources of its plan, or ends.
LEMMA CheckPlanKeeps ==
    ASSUME AcousticAssumption, AcousticInv, Acoustic!CheckPlan PROVE AcousticInv'
<1>1. /\ asr.pc = "plan" /\ UNCHANGED <<resources, policy, evidence, finalCues>>
    BY DEF Acoustic!CheckPlan
<1>2. CASE plan \in {None, resources}
    <2>1. plan' = resources /\ asr' = [asr EXCEPT !.pc = "chunk"]
        BY <1>2 DEF Acoustic!CheckPlan
    <2>2. asr' \in Recognisers /\ asr'.pc = "chunk" /\ asr'.chunk = 1
        BY <1>1, <2>1 DEF AcousticInv, AcousticShapes, Recognisers, ChunkSteps
    <2>3. \A c \in 1..AudioChunks : evidence[c] # None => evidence[c].made = plan'
        <3> SUFFICES ASSUME NEW c \in 1..AudioChunks, evidence[c] # None
                     PROVE  evidence[c].made = plan'
            OBVIOUS
        <3>1. evidence[c].made = plan /\ evidence[c] \in Pieces
            BY DEF AcousticInv, AcousticShapes, EvidenceFollows
        <3>2. plan # None
            BY <3>1 DEF Pieces, AcousticAssumption
        <3> QED BY <1>2, <2>1, <3>1, <3>2
    <2> QED BY <1>1, <2>1, <2>2, <2>3 DEF AcousticInv, AcousticShapes, EvidenceFollows,
               CuesFollow, ChunkSteps, CueSteps
<1>3. CASE plan \notin {None, resources}
    <2>1. Acoustic!Ends(FALSE) /\ plan' = plan
        BY <1>3 DEF Acoustic!CheckPlan
    <2>2. asr' \in Recognisers /\ asr'.pc = "ended"
        BY <2>1, EndsIs
    <2> QED BY <1>1, <2>1, <2>2, FilesStay DEF AcousticInv, AcousticShapes
<1> QED BY <1>2, <1>3

\* After a chunk that has evidence comes the next one, or the stitching.
LEMMA AdvanceKeeps ==
    ASSUME AcousticAssumption, AcousticInv, asr.pc \in ChunkSteps,
           Acoustic!Advance(asr.chunk),
           UNCHANGED <<resources, policy, plan, finalCues>>,
           evidence' \in [1..AudioChunks -> Pieces \cup {None}], evidence'[asr.chunk] # None,
           evidence'[asr.chunk].made = resources,
           \A c \in 1..AudioChunks : c # asr.chunk => evidence'[c] = evidence[c],
           finalCues = None \/ evidence' = evidence
    PROVE  AcousticInv'
<1> DEFINE k == asr.chunk
<1>1. k \in 1..AudioChunks /\ AudioChunks \in Nat /\ asr \in Recognisers
    BY DEF AcousticInv, AcousticShapes, Recognisers, AcousticAssumption
<1> DEFINE next == k + 1
<1>2. k # AudioChunks => next \in 1..AudioChunks
    BY <1>1
<1> HIDE DEF next
<1>3. /\ asr' \in Recognisers
      /\ IF k = AudioChunks THEN asr'.pc = "stitch" ELSE asr'.pc = "chunk" /\ asr'.chunk = next
    <2>1. CASE k = AudioChunks
        <3>1. asr' = [asr EXCEPT !.pc = "stitch"]
            BY <2>1 DEF Acoustic!Advance
        <3> QED BY <1>1, <2>1, <3>1 DEF Recognisers, CueSteps
    <2>2. CASE k # AudioChunks
        <3>1. asr' = [asr EXCEPT !.pc = "chunk", !.chunk = next]
            BY <2>2 DEF Acoustic!Advance, next
        <3> QED BY <1>1, <1>2, <2>2, <3>1 DEF Recognisers, ChunkSteps
    <2> QED BY <2>1, <2>2
<1>4. \A c \in 1..AudioChunks : c < k + 1 => evidence'[c] # None
    BY <1>1 DEF AcousticInv, EvidenceFollows
<1>5. AcousticShapes'
    BY <1>3 DEF AcousticInv, AcousticShapes
<1>6. plan = resources /\ \A c \in 1..AudioChunks : evidence'[c] # None => evidence'[c].made = plan
    BY DEF AcousticInv, EvidenceFollows
<1>7. EvidenceFollows'
    BY <1>1, <1>3, <1>4, <1>6 DEF EvidenceFollows, ChunkSteps, CueSteps, next
<1>8. CuesFollow'
    BY <1>1, <1>3 DEF AcousticInv, CuesFollow
<1> QED BY <1>5, <1>7, <1>8 DEF AcousticInv

\* A chunk that is verified has its evidence.
LEMMA KeepChunkKeeps ==
    ASSUME AcousticAssumption, AcousticInv, Acoustic!KeepChunk PROVE AcousticInv'
<1>1. /\ asr.pc = "chunk" /\ evidence[asr.chunk] # None /\ Acoustic!Advance(asr.chunk)
      /\ UNCHANGED <<resources, policy, plan, evidence, finalCues>>
    BY DEF Acoustic!KeepChunk, Acoustic!Verified, Acoustic!files
<1>2. evidence[asr.chunk].made = resources
    BY <1>1 DEF AcousticInv, AcousticShapes, EvidenceFollows, Recognisers, ChunkSteps
<1> QED BY <1>1, <1>2, AdvanceKeeps DEF AcousticInv, AcousticShapes, ChunkSteps

\* Before evidence goes the cues that were stitched from it do.
LEMMA RepairChunkKeeps ==
    ASSUME AcousticAssumption, AcousticInv, Acoustic!RepairChunk PROVE AcousticInv'
<1>1. /\ asr.pc = "chunk" /\ finalCues' = None /\ asr' = [asr EXCEPT !.pc = "call"]
      /\ UNCHANGED <<resources, policy, plan, evidence>>
    BY DEF Acoustic!RepairChunk
<1>2. asr' \in Recognisers /\ asr'.pc = "call" /\ asr'.chunk = asr.chunk
    BY <1>1 DEF AcousticInv, AcousticShapes, Recognisers, ChunkSteps
<1> QED BY <1>1, <1>2 DEF AcousticInv, AcousticShapes, EvidenceFollows, CuesFollow,
               ChunkSteps, CueSteps

\* What stood in the place of an answer goes.
LEMMA SetAsideKeeps ==
    ASSUME AcousticAssumption, AcousticInv, Acoustic!SetAside PROVE AcousticInv'
<1>1. /\ asr.pc = "call" /\ asr' = [asr EXCEPT !.pc = "install"]
      /\ evidence' = [evidence EXCEPT ![asr.chunk] = None]
      /\ UNCHANGED <<resources, policy, plan, finalCues>>
    BY DEF Acoustic!SetAside
<1>2. asr' \in Recognisers /\ asr'.pc = "install" /\ asr'.chunk = asr.chunk
    BY <1>1 DEF AcousticInv, AcousticShapes, Recognisers, ChunkSteps
<1>3. asr.chunk \in 1..AudioChunks /\ AudioChunks \in Nat
    BY DEF AcousticInv, AcousticShapes, Recognisers, AcousticAssumption
<1> QED BY <1>1, <1>2, <1>3 DEF AcousticInv, AcousticShapes, EvidenceFollows, CuesFollow,
           ChunkSteps, CueSteps

\* An answer is evidence made with the resources of the attempt.
LEMMA InstallChunkKeeps ==
    ASSUME AcousticAssumption, AcousticInv, NEW text \in Readings,
           Acoustic!InstallChunk(text)
    PROVE  AcousticInv'
<1> DEFINE piece == [text |-> text, made |-> resources, intact |-> TRUE]
<1>1. /\ asr.pc = "install" /\ evidence' = [evidence EXCEPT ![asr.chunk] = piece]
      /\ Acoustic!Advance(asr.chunk) /\ UNCHANGED <<resources, policy, plan, finalCues>>
    BY DEF Acoustic!InstallChunk
<1>2. piece \in Pieces /\ piece.made = resources
    BY DEF AcousticInv, AcousticShapes, Pieces
<1> HIDE DEF piece
<1>3. piece # None
    BY <1>2 DEF AcousticAssumption
<1>4. /\ evidence' \in [1..AudioChunks -> Pieces \cup {None}] /\ evidence'[asr.chunk] = piece
      /\ \A c \in 1..AudioChunks : c # asr.chunk => evidence'[c] = evidence[c]
    BY <1>1, <1>2 DEF AcousticInv, AcousticShapes, Recognisers
<1>5. finalCues = None
    BY <1>1 DEF AcousticInv, CuesFollow
<1> QED BY <1>1, <1>2, <1>3, <1>4, <1>5, AdvanceKeeps DEF ChunkSteps

\* What is stitched from evidence that is all there is cues.
LEMMA StitchedIsCues ==
    ASSUME AcousticInv, \A c \in 1..AudioChunks : evidence[c] # None
    PROVE  /\ Acoustic!Stitched \in CueSets /\ Acoustic!Stitched.policy = policy
           /\ \A c \in 1..AudioChunks : Acoustic!Stitched.texts[c] = evidence[c].text
<1> DEFINE texts == [c \in 1..AudioChunks |-> evidence[c].text]
<1>1. \A c \in 1..AudioChunks : evidence[c].text \in Readings
    BY DEF AcousticInv, AcousticShapes, Pieces
<1>2. texts \in [1..AudioChunks -> Readings] /\ \A c \in 1..AudioChunks : texts[c] = evidence[c].text
    BY <1>1
<1>3. Acoustic!Stitched = [policy |-> policy, texts |-> texts]
    BY DEF Acoustic!Stitched
<1> HIDE DEF texts
<1> QED BY <1>2, <1>3 DEF CueSets, AcousticInv, AcousticShapes

\* The cues that are written, or kept, are of the evidence and the policy.
LEMMA MakeCuesKeeps ==
    ASSUME AcousticAssumption, AcousticInv, Acoustic!MakeCues PROVE AcousticInv'
<1> DEFINE cut == finalCues'
<1>1. /\ asr.pc = "stitch" /\ asr' = [asr EXCEPT !.pc = "sum", !.cues = cut]
      /\ (cut = finalCues /\ finalCues # None /\ finalCues.policy = policy)
            \/ cut = Acoustic!Stitched
      /\ UNCHANGED <<resources, policy, plan, evidence>>
    BY DEF Acoustic!MakeCues
<1>2. \A c \in 1..AudioChunks : evidence[c] # None
    BY <1>1 DEF AcousticInv, EvidenceFollows, CueSteps
<1>3. /\ cut \in CueSets /\ cut.policy = policy
      /\ \A c \in 1..AudioChunks : cut.texts[c] = evidence[c].text
    <2>1. CASE cut = finalCues /\ finalCues # None /\ finalCues.policy = policy
        BY <2>1 DEF AcousticInv, AcousticShapes, CuesFollow
    <2>2. CASE cut = Acoustic!Stitched
        BY <1>2, <2>2, StitchedIsCues
    <2> QED BY <1>1, <2>1, <2>2
<1>4. cut # None
    BY <1>3 DEF AcousticAssumption
<1>5. asr' \in Recognisers /\ asr'.pc = "sum" /\ asr'.cues = cut
    BY <1>1, <1>3 DEF AcousticInv, AcousticShapes, Recognisers, CueSteps
<1> QED BY <1>1, <1>2, <1>3, <1>4, <1>5 DEF AcousticInv, AcousticShapes, EvidenceFollows,
           CuesFollow, ChunkSteps, CueSteps

\* Their digest is written beside the cues.
LEMMA WriteSumKeeps == ASSUME AcousticInv, Acoustic!WriteSum PROVE AcousticInv'
<1>1. /\ asr.pc = "sum" /\ asr' = [asr EXCEPT !.pc = "write"]
      /\ UNCHANGED <<resources, policy, plan, evidence, finalCues>>
    BY DEF Acoustic!WriteSum
<1>2. asr' \in Recognisers /\ asr'.pc = "write" /\ asr'.cues = asr.cues
    BY <1>1 DEF AcousticInv, AcousticShapes, Recognisers, CueSteps
<1> QED BY <1>1, <1>2 DEF AcousticInv, AcousticShapes, EvidenceFollows, CuesFollow,
               ChunkSteps, CueSteps

\* An attempt that ends, well or badly, leaves its files.
LEMMA RunEndsKeeps ==
    ASSUME AcousticInv, Acoustic!WriteTranscript \/ Acoustic!RecogniserFails
    PROVE  AcousticInv'
<1>1. /\ Acoustic!Ends(TRUE) \/ Acoustic!Ends(FALSE)
      /\ UNCHANGED <<resources, policy, plan, evidence, finalCues>>
    BY DEF Acoustic!WriteTranscript, Acoustic!RecogniserFails, Acoustic!files
<1>2. asr' \in Recognisers /\ asr'.pc = "ended"
    BY <1>1, EndsIs
<1> QED BY <1>1, <1>2, FilesStay DEF AcousticInv, AcousticShapes

\* A task that is over, or crashes, leaves them too.
LEMMA TaskStopsKeeps ==
    ASSUME AcousticAssumption, AcousticInv, Acoustic!JoinTask \/ Acoustic!CrashTask
    PROVE  AcousticInv'
<1>1. /\ asr' = [pc |-> "off", chunk |-> 1, cues |-> None, ok |-> TRUE]
      /\ UNCHANGED <<resources, plan, evidence, finalCues>> /\ policy' \in Policies
    BY DEF Acoustic!JoinTask, Acoustic!CrashTask, Acoustic!Off, Acoustic!files, AcousticInv,
           AcousticShapes
<1>2. asr' \in Recognisers /\ asr'.pc = "off"
    BY <1>1 DEF Recognisers, AcousticAssumption
<1> QED BY <1>1, <1>2, FilesStay DEF AcousticInv, AcousticShapes

\* Damage takes what makes evidence usable, not what is in it.
LEMMA DamageChunkKeeps ==
    ASSUME AcousticAssumption, AcousticInv, NEW c \in 1..AudioChunks, Acoustic!DamageChunk(c)
    PROVE  AcousticInv'
<1> DEFINE bad == [evidence[c] EXCEPT !.intact = FALSE]
<1>1. /\ asr.pc = "off" /\ evidence[c] # None /\ evidence' = [evidence EXCEPT ![c] = bad]
      /\ UNCHANGED <<resources, policy, plan, finalCues, asr>>
    BY DEF Acoustic!DamageChunk, Acoustic!Verified
<1>2. evidence[c] \in Pieces
    BY <1>1 DEF AcousticInv, AcousticShapes
<1>3. bad \in Pieces /\ bad.made = evidence[c].made /\ bad.text = evidence[c].text
    BY <1>2 DEF Pieces
<1> HIDE DEF bad
<1>4. bad # None
    BY <1>3 DEF AcousticAssumption
<1>5. AcousticShapes'
    BY <1>1, <1>3 DEF AcousticInv, AcousticShapes
<1>6. /\ evidence'[c] = bad
      /\ \A d \in 1..AudioChunks : d # c => evidence'[d] = evidence[d]
    BY <1>1 DEF AcousticInv, AcousticShapes
<1>7. EvidenceFollows'
    BY <1>1, <1>3, <1>6 DEF AcousticInv, EvidenceFollows, ChunkSteps, CueSteps
<1>8. CuesFollow'
    BY <1>1, <1>3, <1>4, <1>6 DEF AcousticInv, CuesFollow
<1> QED BY <1>5, <1>7, <1>8 DEF AcousticInv

\* Options and model files are replaced, and the audio damaged, between two attempts.
LEMMA BetweenAttemptsKeeps ==
    ASSUME AcousticInv,
           Acoustic!DamageAudio \/ \E r \in Resources : Acoustic!ReplaceResources(r)
    PROVE  AcousticInv'
<1>1. /\ asr.pc = "off" /\ resources' \in Resources
      /\ UNCHANGED <<policy, plan, evidence, finalCues, asr>>
    BY DEF Acoustic!DamageAudio, Acoustic!ReplaceResources, Acoustic!files, AcousticInv,
           AcousticShapes
<1> QED BY <1>1, FilesStay DEF AcousticInv, AcousticShapes

\* The session translates what it finds, and a step of nothing leaves everything.
LEMMA SessionKeeps ==
    ASSUME AcousticInv, Acoustic!Session \/ UNCHANGED Acoustic!recognition
    PROVE  AcousticInv'
<1>1. UNCHANGED <<resources, policy, plan, evidence, finalCues, asr>>
    BY DEF Acoustic!Session, Acoustic!SessionReturns, Acoustic!SessionWakes,
           Acoustic!DispatchesGroup, Acoustic!DispatchGroup, Acoustic!AnswersGroup,
           Acoustic!GroupAnswered, Acoustic!GroupFails, Acoustic!PrefixProcessed,
           Acoustic!files, Acoustic!recognition
<1> QED BY <1>1 DEF AcousticInv, AcousticShapes, EvidenceFollows, CuesFollow

\* No step mixes the evidence of two sets of resources, or the cues of two transcripts.
LEMMA AcousticStep ==
    ASSUME AcousticAssumption, AcousticInv, [Acoustic!RecognitionNext]_Acoustic!recognition
    PROVE  AcousticInv'
<1>1. CASE Acoustic!StartTask BY <1>1, StartTaskKeeps
<1>2. CASE Acoustic!PrepareAudio BY <1>2, PrepareAudioKeepsCues
<1>3. CASE Acoustic!CheckPlan BY <1>3, CheckPlanKeeps
<1>4. CASE Acoustic!KeepChunk BY <1>4, KeepChunkKeeps
<1>5. CASE Acoustic!RepairChunk BY <1>5, RepairChunkKeeps
<1>6. CASE Acoustic!SetAside BY <1>6, SetAsideKeeps
<1>7. CASE Acoustic!InstallsChunk BY <1>7, InstallChunkKeeps DEF Acoustic!InstallsChunk
<1>8. CASE Acoustic!MakeCues BY <1>8, MakeCuesKeeps
<1>9. CASE Acoustic!WriteSum BY <1>9, WriteSumKeeps
<1>10. CASE Acoustic!WriteTranscript \/ Acoustic!RecogniserFails BY <1>10, RunEndsKeeps
<1>11. CASE Acoustic!JoinTask \/ Acoustic!CrashTask BY <1>11, TaskStopsKeeps
<1>12. CASE Acoustic!Session \/ UNCHANGED Acoustic!recognition BY <1>12, SessionKeeps
<1>13. CASE \E c \in 1..AudioChunks : Acoustic!DamageChunk(c) BY <1>13, DamageChunkKeeps
<1>14. CASE Acoustic!DamageAudio \/ \E r \in Resources : Acoustic!ReplaceResources(r)
    BY <1>14, BetweenAttemptsKeeps
<1> QED BY <1>1, <1>2, <1>3, <1>4, <1>5, <1>6, <1>7, <1>8, <1>9, <1>10, <1>11, <1>12, <1>13,
           <1>14 DEF Acoustic!RecognitionNext, Acoustic!Recogniser, Acoustic!Faults

\* The invariant says that the cues follow the evidence (RecognitionTask.recognize).
LEMMA AcousticStitched ==
    ASSUME AcousticInv PROVE Acoustic!CuesFollowEvidence
<1>1. \A c \in 1..AudioChunks : asr.pc \in CueSteps => evidence[c].made = resources
    BY DEF AcousticInv, EvidenceFollows
<1>2. ASSUME asr.pc = "write" PROVE asr.cues = Acoustic!Stitched
    <2> DEFINE texts == [c \in 1..AudioChunks |-> evidence[c].text]
    <2>1. /\ asr.cues = finalCues /\ finalCues \in CueSets /\ finalCues.policy = policy
          /\ \A c \in 1..AudioChunks : finalCues.texts[c] = evidence[c].text
        BY <1>2 DEF AcousticInv, AcousticShapes, CuesFollow
    <2>2. finalCues.texts = texts
        BY <2>1 DEF CueSets
    <2>3. Acoustic!Stitched = [policy |-> policy, texts |-> texts]
        BY DEF Acoustic!Stitched
    <2> HIDE DEF texts
    <2>4. finalCues = [policy |-> policy, texts |-> texts]
        BY <2>1, <2>2 DEF CueSets
    <2> QED BY <2>1, <2>3, <2>4
<1> QED BY <1>1, <1>2 DEF Acoustic!CuesFollowEvidence, CueSteps

\* A transcript is stitched from the evidence that lies in the files, all of it made with the
\* options and model files the attempt started with.
THEOREM CuesAreStitched ==
    ASSUME AcousticAssumption
    PROVE  Acoustic!RecognitionSpec => []Acoustic!CuesFollowEvidence
<1>1. Acoustic!RecognitionInit => AcousticInv
    BY AcousticInitially
<1>2. AcousticInv /\ [Acoustic!RecognitionNext]_Acoustic!recognition => AcousticInv'
    BY AcousticStep
<1>3. AcousticInv => Acoustic!CuesFollowEvidence
    BY AcousticStitched
<1> QED BY <1>1, <1>2, <1>3, PTL DEF Acoustic!RecognitionSpec

task == x2
runs == x4
signals == x5
decisions == x6
inserted == x7
deciding == x8
attempts == x9
preview == x10
unordered == x11
unmarked == x12
USE DEF task, runs, signals, decisions, inserted, deciding, attempts, preview,
        unordered, unmarked

(***************************************************************************)
(* AsrReview: what the user said last of a signal is what is shown.        *)
(*                                                                         *)
(* The last decision of a signal is one of its rows: the order by time and *)
(* by number has a greatest next after every insertion.  As long as the     *)
(* clock only moves forward, what was there when a command began has no    *)
(* later time than the command.                                            *)
(***************************************************************************)
RunRows == [cues : Transcripts \cup {<<>>}, candidate : BOOLEAN,
            status : {"running", "succeeded", "failed"}, adopted : BOOLEAN]

ReviewShapes ==
    /\ runs \in Seq(RunRows) /\ inserted \in Nat /\ now \in Nat /\ unordered \in BOOLEAN
    /\ attempts \subseteq [signal : signals, run : DOMAIN runs,
                           status : {"candidate", "adopted"}]
    /\ preview # None => preview.run \in DOMAIN runs
    /\ decisions \subseteq [signal : signals, decision : Verdicts, time : Nat,
                            number : 1..inserted, after : Nat]
    /\ DOMAIN deciding = Deciders
    /\ \A c \in Deciders : deciding[c] # None =>
          /\ deciding[c].decision \in Verdicts
          /\ deciding[c].time \in Nat /\ deciding[c].after \in 0..inserted

\* The attempts of a run bear the mark of its adoption.
AttemptsMarked ==
    \A a \in attempts : a.run \notin unmarked => (a.status = "adopted" <=> runs[a.run].adopted)

Beats(m, e) == \/ e.time < m.time
               \/ e.time = m.time /\ e.number < m.number
IsLast(m) == \A e \in decisions : e.signal = m.signal /\ e # m => Beats(m, e)

LastIsThere == \A d \in decisions : \E m \in decisions : m.signal = d.signal /\ IsLast(m)

\* What was there when a command began has no later time, if the clock was not set back.
Preceded(entry) == \A e \in decisions : e.number <= entry.after => e.time <= entry.time

ClockOrders ==
    /\ \A d \in decisions : d.after < d.number
    /\ ~unordered =>
          /\ \A d \in decisions : d.time <= now /\ Preceded(d)
          /\ \A c \in Deciders : deciding[c] # None => deciding[c].time <= now
                                                       /\ Preceded(deciding[c])

ReviewInv == ReviewShapes /\ AttemptsMarked /\ LastIsThere /\ ClockOrders

\* At first nothing was recognised, and nothing decided.
LEMMA ReviewInitially == ASSUME Review!ReviewInit PROVE ReviewInv
<1>1. /\ runs = <<>> /\ signals = {} /\ decisions = {} /\ inserted = 0 /\ attempts = {}
      /\ deciding = [c \in Deciders |-> None] /\ preview = None /\ now = 1 /\ unordered = FALSE
    BY DEF Review!ReviewInit
<1>2. runs \in Seq(RunRows)
    BY <1>1
<1>3. DOMAIN deciding = Deciders /\ \A c \in Deciders : deciding[c] = None
    BY <1>1
<1> QED BY <1>1, <1>2, <1>3 DEF ReviewInv, ReviewShapes, AttemptsMarked, LastIsThere,
               ClockOrders

\* Runs may be appended and end; their adoption is not touched.
RunsGrow ==
    /\ runs' \in Seq(RunRows) /\ DOMAIN runs \subseteq DOMAIN runs'
    /\ \A r \in DOMAIN runs : runs'[r].adopted = runs[r].adopted

\* A run that is appended leaves the others.
LEMMA AppendGrows ==
    ASSUME ReviewInv, NEW next \in RunRows, runs' = Append(runs, next)
    PROVE  RunsGrow /\ Len(runs') \in DOMAIN runs'
<1>1. runs \in Seq(RunRows)
    BY DEF ReviewInv, ReviewShapes
<1> QED BY <1>1 DEF RunsGrow

\* The rows stay as long as the runs only grow.
LEMMA RowsStay ==
    ASSUME ReviewInv, RunsGrow, UNCHANGED <<signals, decisions, inserted, attempts, now,
           deciding, unordered, unmarked>>, preview' # None => preview'.run \in DOMAIN runs'
    PROVE  ReviewInv'
<1>1. ReviewShapes'
    BY DEF ReviewInv, ReviewShapes, RunsGrow
<1>2. AttemptsMarked'
    BY DEF ReviewInv, ReviewShapes, AttemptsMarked, RunsGrow
<1>3. LastIsThere' /\ ClockOrders'
    BY DEF ReviewInv, LastIsThere, IsLast, Beats, ClockOrders, Preceded
<1> QED BY <1>1, <1>2, <1>3 DEF ReviewInv

\* With the signals of a run goes all that hangs on them, and nothing else.
LEMMA ReplacedSignalsKeep ==
    ASSUME ReviewInv, RunsGrow, NEW run, NEW spoken, Review!ReplaceSignals(run, spoken),
           UNCHANGED <<deciding, now, preview, unordered, unmarked>>
    PROVE  ReviewInv'
<1>1. /\ \A s \in signals : s.run # run => s \in signals'
      /\ decisions' = {d \in decisions : d.signal.run # run}
      /\ attempts' = {a \in attempts : a.signal.run # run}
      /\ inserted' = inserted
    BY DEF Review!ReplaceSignals
<1>2. ReviewShapes'
    <2>1. attempts' \subseteq [signal : signals', run : DOMAIN runs',
                               status : {"candidate", "adopted"}]
        BY <1>1 DEF ReviewInv, ReviewShapes, RunsGrow
    <2>2. decisions' \subseteq [signal : signals', decision : Verdicts, time : Nat,
                                number : 1..inserted, after : Nat]
        BY <1>1 DEF ReviewInv, ReviewShapes
    <2> QED BY <1>1, <2>1, <2>2 DEF ReviewInv, ReviewShapes, RunsGrow
<1>3. AttemptsMarked'
    BY <1>1 DEF ReviewInv, ReviewShapes, AttemptsMarked, RunsGrow
<1>4. LastIsThere'
    BY <1>1 DEF ReviewInv, LastIsThere, IsLast, Beats
<1>5. ClockOrders'
    BY <1>1 DEF ReviewInv, ClockOrders, Preceded
<1> QED BY <1>2, <1>3, <1>4, <1>5 DEF ReviewInv

\* A recognition is a run with signals of its own.
LEMMA RecogniseKeeps ==
    ASSUME ReviewInv, NEW spoken \in Transcripts, Review!Recognise(spoken) PROVE ReviewInv'
<1>1. runs' = Append(runs, [cues |-> spoken, candidate |-> FALSE, status |-> "succeeded",
                            adopted |-> FALSE])
    BY DEF Review!Recognise
<1>2. RunsGrow
    BY <1>1, AppendGrows DEF RunRows
<1> QED BY <1>2, ReplacedSignalsKeep DEF Review!Recognise, Review!ghosts

\* A candidate that was heard is reopened with signals of its own.
LEMMA CandidateHeardKeeps ==
    ASSUME ReviewInv, NEW spoken \in Transcripts, Review!CandidateHeard(spoken)
    PROVE  ReviewInv'
<1> DEFINE old == runs[preview.run]
           next == [old EXCEPT !.cues = spoken, !.status = "succeeded"]
<1>1. /\ preview.run \in DOMAIN runs /\ runs \in Seq(RunRows)
      /\ runs' = [runs EXCEPT ![preview.run] = next]
    BY DEF Review!CandidateHeard, ReviewInv, ReviewShapes
<1>2. old \in RunRows
    BY <1>1
<1> HIDE DEF old
<1>3. next \in RunRows /\ next.adopted = old.adopted
    BY <1>2 DEF RunRows
<1> HIDE DEF next
<1>4. RunsGrow
    BY <1>1, <1>3 DEF RunsGrow, old
<1> QED BY <1>4, ReplacedSignalsKeep DEF Review!CandidateHeard, Review!ghosts

\* A candidate is asked for.
LEMMA AskCandidateKeeps ==
    ASSUME ReviewInv, NEW s \in signals, Review!AskCandidate(s) PROVE ReviewInv'
<1>1. /\ runs' = Append(runs, [cues |-> <<>>, candidate |-> TRUE, status |-> "running",
                               adopted |-> FALSE])
      /\ preview' = [signal |-> s, run |-> Len(runs')]
    BY DEF Review!AskCandidate
<1>2. RunsGrow /\ preview'.run \in DOMAIN runs'
    BY <1>1, AppendGrows DEF RunRows
<1> QED BY <1>2, RowsStay DEF Review!AskCandidate, Review!rows, Review!ghosts

\* A candidate that fails is not adopted for it.
LEMMA CandidateFailsKeeps == ASSUME ReviewInv, Review!CandidateFails PROVE ReviewInv'
<1> DEFINE old == runs[preview.run]
           next == [old EXCEPT !.status = "failed"]
<1>1. /\ preview.run \in DOMAIN runs /\ runs \in Seq(RunRows) /\ preview' = None
      /\ runs' = [runs EXCEPT ![preview.run] = next] \/ runs' = runs
    BY DEF Review!CandidateFails, ReviewInv, ReviewShapes
<1>2. old \in RunRows
    BY <1>1
<1> HIDE DEF old
<1>3. next \in RunRows /\ next.adopted = old.adopted
    BY <1>2 DEF RunRows
<1> HIDE DEF next
<1>4. RunsGrow
    BY <1>1, <1>3 DEF RunsGrow, old
<1> QED BY <1>1, <1>4, RowsStay DEF Review!CandidateFails, Review!rows, Review!ghosts

\* A decision begins with the time it will be written with.
LEMMA BeginDecisionKeeps ==
    ASSUME ReviewInv, NEW c \in Deciders, NEW s \in signals, NEW verdict \in Verdicts,
           Review!BeginDecision(c, s, verdict)
    PROVE  ReviewInv'
<1> DEFINE begun == [signal |-> s, decision |-> verdict, time |-> now, after |-> inserted]
<1>1. /\ deciding' = [deciding EXCEPT ![c] = begun]
      /\ UNCHANGED <<runs, signals, decisions, inserted, attempts, preview, now, unordered,
                     unmarked>>
    BY DEF Review!BeginDecision, Review!rows, Review!ghosts
<1>2. /\ begun.decision = verdict /\ begun.time = now /\ begun.after = inserted
      /\ inserted \in Nat /\ now \in Nat
    BY DEF ReviewInv, ReviewShapes
<1> HIDE DEF begun
<1>3. DOMAIN deciding' = Deciders /\ deciding'[c] = begun
      /\ \A d \in Deciders : d # c => deciding'[d] = deciding[d]
    BY <1>1 DEF ReviewInv, ReviewShapes
<1>4. ReviewShapes'
    BY <1>1, <1>2, <1>3 DEF ReviewInv, ReviewShapes
<1>5. AttemptsMarked' /\ LastIsThere'
    BY <1>1 DEF ReviewInv, AttemptsMarked, LastIsThere, IsLast, Beats
<1>6. ClockOrders'
    BY <1>1, <1>2, <1>3 DEF ReviewInv, ClockOrders, Preceded
<1> QED BY <1>4, <1>5, <1>6 DEF ReviewInv

\* A next that is inserted is the last of its signal, or leaves the one that was.
LEMMA LastWhenInserted ==
    ASSUME ReviewInv, NEW new, decisions' = decisions \cup {new}, new.time \in Nat,
           new.number = inserted + 1
    PROVE  LastIsThere'
<1>1. \A e \in decisions : e.time \in Nat /\ e.number \in 1..inserted /\ inserted \in Nat
    BY DEF ReviewInv, ReviewShapes
<1>2. \A e \in decisions : e.number < new.number
    BY <1>1
<1> SUFFICES ASSUME NEW d \in decisions'
             PROVE  \E m \in decisions' : m.signal = d.signal /\ IsLast(m)'
    BY DEF LastIsThere
<1>3. CASE \A e \in decisions : e.signal # d.signal
    <2>1. d = new /\ IsLast(new)'
        BY <1>3 DEF IsLast
    <2> QED BY <2>1
<1>4. ASSUME NEW e \in decisions, e.signal = d.signal
      PROVE  \E m \in decisions' : m.signal = d.signal /\ IsLast(m)'
    <2>1. PICK m \in decisions : m.signal = d.signal /\ IsLast(m)
        BY <1>4 DEF ReviewInv, LastIsThere
    <2>2. CASE new.signal # d.signal
        <3>1. IsLast(m)'
            BY <2>1, <2>2 DEF IsLast
        <3> QED BY <2>1, <3>1
    <2>3. CASE new.signal = d.signal /\ m.time <= new.time
        <3>1. \A x \in decisions : x.signal = d.signal => Beats(new, x)
            BY <1>1, <1>2, <2>1, <2>3 DEF IsLast, Beats
        <3>2. IsLast(new)'
            BY <2>3, <3>1 DEF IsLast, Beats
        <3> QED BY <2>3, <3>2
    <2>4. CASE new.signal = d.signal /\ ~(m.time <= new.time)
        <3>1. new.time < m.time
            BY <1>1, <2>4
        <3>2. Beats(m, new)
            BY <3>1 DEF Beats
        <3>3. IsLast(m)'
            BY <2>1, <3>2 DEF IsLast, Beats
        <3> QED BY <2>1, <3>3
    <2> QED BY <2>2, <2>3, <2>4
<1> QED BY <1>3, <1>4

\* A decision is written with the time its command began with.
LEMMA InsertDecisionKeeps ==
    ASSUME ReviewInv, NEW c \in Deciders, Review!InsertDecision(c) PROVE ReviewInv'
<1> DEFINE begun == deciding[c]
           new == [signal |-> begun.signal, decision |-> begun.decision, time |-> begun.time,
                   number |-> inserted + 1, after |-> begun.after]
<1>1. /\ begun # None /\ deciding' = [deciding EXCEPT ![c] = None] /\ inserted' = inserted + 1
      /\ UNCHANGED <<runs, signals, attempts, preview, now, unordered, unmarked>>
      /\ \/ begun.signal \in signals /\ decisions' = decisions \cup {new}
         \/ decisions' = decisions
    BY DEF Review!InsertDecision, Review!ghosts
<1>2. /\ begun.decision \in Verdicts /\ begun.time \in Nat /\ begun.after \in 0..inserted
      /\ inserted \in Nat
      /\ ~unordered => begun.time <= now /\ Preceded(begun)
    BY <1>1 DEF ReviewInv, ReviewShapes, ClockOrders
<1>3. /\ new.signal = begun.signal /\ new.time = begun.time /\ new.after = begun.after
      /\ new.number = inserted + 1
      /\ begun.signal \in signals => new \in [signal : signals, decision : Verdicts,
             time : Nat, number : 1..(inserted + 1), after : Nat]
    BY <1>2
<1> HIDE DEF new, begun
<1>4. /\ DOMAIN deciding' = Deciders /\ deciding'[c] = None
      /\ \A d \in Deciders : d # c => deciding'[d] = deciding[d]
    BY <1>1 DEF ReviewInv, ReviewShapes
<1>5. ReviewShapes'
    <2>1. decisions' \subseteq [signal : signals, decision : Verdicts, time : Nat,
                                number : 1..(inserted + 1), after : Nat]
        BY <1>1, <1>2, <1>3 DEF ReviewInv, ReviewShapes
    <2> QED BY <1>1, <1>2, <1>4, <2>1 DEF ReviewInv, ReviewShapes
<1>6. AttemptsMarked'
    BY <1>1 DEF ReviewInv, AttemptsMarked
<1>7. LastIsThere'
    <2>1. CASE decisions' = decisions
        BY <2>1 DEF ReviewInv, LastIsThere, IsLast, Beats
    <2>2. CASE decisions' = decisions \cup {new}
        BY <1>2, <1>3, <2>2, LastWhenInserted
    <2> QED BY <1>1, <2>1, <2>2
<1>8. ClockOrders'
    <2>1. \A d \in decisions : d.number \in 1..inserted /\ d.after \in Nat /\ d.time \in Nat
        BY DEF ReviewInv, ReviewShapes
    <2>2. \A d \in decisions' : d.after < d.number
        BY <1>1, <1>2, <1>3 DEF ReviewInv, ClockOrders
    <2>3. ASSUME ~unordered', NEW d \in decisions' PROVE d.time <= now' /\ Preceded(d)'
        <3>1. CASE d \in decisions
            <4>1. d.time <= now /\ Preceded(d)
                BY <1>1, <2>3, <3>1 DEF ReviewInv, ClockOrders
            <4>2. d.after < d.number
                BY <3>1 DEF ReviewInv, ClockOrders
            <4>3. d.after < inserted + 1
                BY <1>2, <2>1, <3>1, <4>2
            <4> QED BY <1>1, <1>2, <1>3, <2>1, <3>1, <4>1, <4>3 DEF Preceded
        <3>2. CASE d = new /\ decisions' = decisions \cup {new}
            <4>1. d.time <= now /\ Preceded(begun)
                BY <1>1, <1>2, <1>3, <2>3, <3>2
            <4> QED BY <1>1, <1>2, <1>3, <2>1, <3>2, <4>1 DEF Preceded
        <3> QED BY <1>1, <3>1, <3>2
    <2>4. ASSUME ~unordered', NEW k \in Deciders, deciding'[k] # None
          PROVE  deciding'[k].time <= now' /\ Preceded(deciding[k])'
        <3>1. k # c /\ deciding'[k] = deciding[k] /\ deciding[k] # None
            BY <1>4, <2>4
        <3>2. deciding[k].after \in 0..inserted /\ deciding[k].time <= now
              /\ Preceded(deciding[k])
            BY <1>1, <2>4, <3>1 DEF ReviewInv, ReviewShapes, ClockOrders
        <3> DEFINE entry == deciding[k]
        <3>3. entry.after \in 0..inserted /\ \A e \in decisions :
                  e.number <= entry.after => e.time <= entry.time
            BY <3>2 DEF Preceded
        <3> HIDE DEF entry
        <3>4. \A e \in decisions' : e.number <= entry.after => e.time <= entry.time
            BY <1>1, <1>2, <1>3, <3>3
        <3> QED BY <1>1, <3>1, <3>2, <3>4 DEF Preceded, entry
    <2> QED BY <2>2, <2>3, <2>4 DEF ClockOrders
<1> QED BY <1>5, <1>6, <1>7, <1>8 DEF ReviewInv

\* An attempt that is recorded after the adoption of its run is known to bear no mark.
LEMMA RecordAttemptKeeps == ASSUME ReviewInv, Review!RecordAttempt PROVE ReviewInv'
<1> DEFINE made13 == [signal |-> preview.signal, run |-> preview.run, status |-> "candidate"]
<1>1. /\ preview.run \in DOMAIN runs /\ preview' = None
      /\ UNCHANGED <<runs, signals, decisions, inserted, deciding, now, unordered>>
      /\ \/ /\ preview.signal \in signals /\ attempts' \subseteq attempts \cup {made13}
            /\ unmarked' = IF runs[preview.run].adopted THEN unmarked \cup {preview.run}
                                                        ELSE unmarked
         \/ UNCHANGED <<attempts, unmarked>>
    BY DEF Review!RecordAttempt, ReviewInv, ReviewShapes
<1>2. LastIsThere' /\ ClockOrders'
    BY <1>1 DEF ReviewInv, LastIsThere, IsLast, Beats, ClockOrders, Preceded
<1>3. /\ made13.run = preview.run /\ made13.status = "candidate"
      /\ preview.signal \in signals =>
            made13 \in [signal : signals, run : DOMAIN runs, status : {"candidate", "adopted"}]
    BY <1>1
<1> HIDE DEF made13
<1>4. ReviewShapes'
    BY <1>1, <1>3 DEF ReviewInv, ReviewShapes
<1>5. AttemptsMarked'
    BY <1>1, <1>3 DEF ReviewInv, AttemptsMarked
<1> QED BY <1>2, <1>4, <1>5 DEF ReviewInv

\* The attempts of a run are marked when it is adopted, or it is known that they were not.
LEMMA AdoptKeeps ==
    ASSUME ReviewInv, NEW r \in DOMAIN runs, Review!Adopt(r)
    PROVE  ReviewInv'
<1> DEFINE old == runs[r]
           next == [old EXCEPT !.adopted = TRUE]
<1>1. /\ runs \in Seq(RunRows) /\ runs' = [runs EXCEPT ![r] = next]
      /\ UNCHANGED <<signals, decisions, inserted, deciding, preview, now, unordered>>
    BY DEF Review!Adopt, ReviewInv, ReviewShapes
<1>2. next \in RunRows /\ next.adopted = TRUE
    <2>1. old \in RunRows
        BY <1>1
    <2> HIDE DEF old
    <2> QED BY <2>1 DEF RunRows
<1> HIDE DEF next
<1>3. /\ runs' \in Seq(RunRows) /\ DOMAIN runs' = DOMAIN runs /\ runs'[r] = next
      /\ \A q \in DOMAIN runs : q # r => runs'[q] = runs[q]
    BY <1>1, <1>2
<1>4. LastIsThere' /\ ClockOrders'
    BY <1>1 DEF ReviewInv, LastIsThere, IsLast, Beats, ClockOrders, Preceded
<1>5. CASE unmarked' = unmarked \cup {r} /\ attempts' = attempts
    <2>1. ReviewShapes'
        BY <1>1, <1>3, <1>5 DEF ReviewInv, ReviewShapes
    <2>2. AttemptsMarked'
        BY <1>3, <1>5 DEF ReviewInv, ReviewShapes, AttemptsMarked
    <2> QED BY <1>4, <2>1, <2>2 DEF ReviewInv
<1>6. CASE /\ unmarked' = unmarked
           /\ attempts' = {[a EXCEPT !.status = IF a.run = r THEN "adopted" ELSE @] :
                              a \in attempts}
    <2> DEFINE Stamped(a) == [a EXCEPT !.status = IF a.run = r THEN "adopted" ELSE @]
    <2>1. ASSUME NEW a \in attempts
          PROVE  /\ Stamped(a) \in [signal : signals, run : DOMAIN runs,
                                   status : {"candidate", "adopted"}]
                 /\ Stamped(a).run = a.run
                 /\ Stamped(a).status = IF a.run = r THEN "adopted" ELSE a.status
        <3>1. a \in [signal : signals, run : DOMAIN runs, status : {"candidate", "adopted"}]
            BY DEF ReviewInv, ReviewShapes
        <3> QED BY <3>1
    <2>2. attempts' = {Stamped(a) : a \in attempts}
        BY <1>6
    <2> HIDE DEF Stamped
    <2>3. ReviewShapes'
        BY <1>1, <1>3, <2>1, <2>2 DEF ReviewInv, ReviewShapes
    <2>4. AttemptsMarked'
        BY <1>2, <1>3, <1>6, <2>1, <2>2 DEF ReviewInv, ReviewShapes, AttemptsMarked
    <2> QED BY <1>4, <2>3, <2>4 DEF ReviewInv
<1> QED BY <1>5, <1>6 DEF Review!Adopt

\* The rows of a task go with it.
LEMMA DeleteTaskKeeps == ASSUME ReviewInv, Review!DeleteTask PROVE ReviewInv'
BY DEF ReviewInv, ReviewShapes, AttemptsMarked, LastIsThere, ClockOrders, Preceded,
       Review!DeleteTask, Review!ghosts

\* The clock moves, or is known to have been set back.
LEMMA ClockKeeps == ASSUME ReviewInv, Review!Tick PROVE ReviewInv'
<1>1. /\ UNCHANGED <<runs, signals, decisions, inserted, attempts, deciding, preview, unmarked>>
      /\ \/ now' = now + 1 /\ unordered' = unordered
         \/ now > 1 /\ now' = now - 1 /\ unordered' = TRUE
    BY DEF Review!Tick, Review!rows
<1>2. now' \in Nat /\ now \in Nat
    BY <1>1 DEF ReviewInv, ReviewShapes
<1>3. ReviewShapes' /\ AttemptsMarked' /\ LastIsThere'
    BY <1>1, <1>2 DEF ReviewInv, ReviewShapes, AttemptsMarked, LastIsThere, IsLast, Beats
<1>4. ClockOrders'
    BY <1>1, <1>2 DEF ReviewInv, ReviewShapes, ClockOrders, Preceded
<1> QED BY <1>3, <1>4 DEF ReviewInv

\* No step loses what the invariant says of the rows.
LEMMA ReviewStep == ASSUME ReviewInv, [Review!ReviewNext]_Review!reviewVars PROVE ReviewInv'
<1>1. CASE \E spoken \in Transcripts : Review!Recognise(spoken)
    BY <1>1, RecogniseKeeps
<1>2. CASE \E spoken \in Transcripts : Review!CandidateHeard(spoken)
    BY <1>2, CandidateHeardKeeps
<1>3. CASE \E s \in signals : Review!AskCandidate(s)
    BY <1>3, AskCandidateKeeps
<1>4. CASE \E s \in signals, c \in Deciders, k \in Verdicts : Review!BeginDecision(c, s, k)
    BY <1>4, BeginDecisionKeeps
<1>5. CASE \E c \in Deciders : Review!InsertDecision(c)
    BY <1>5, InsertDecisionKeeps
<1>6. CASE Review!CandidateFails BY <1>6, CandidateFailsKeeps
<1>7. CASE Review!RecordAttempt BY <1>7, RecordAttemptKeeps
<1>8. CASE \E r \in DOMAIN runs : Review!Adopt(r) BY <1>8, AdoptKeeps
<1>9. CASE Review!DeleteTask BY <1>9, DeleteTaskKeeps
<1>10. CASE Review!Tick BY <1>10, ClockKeeps
<1>11. CASE UNCHANGED Review!reviewVars
    <2>1. UNCHANGED <<runs, signals, decisions, inserted, attempts, deciding, preview, now,
                      unordered, unmarked>>
        BY <1>11 DEF Review!reviewVars
    <2>2. RunsGrow
        BY <2>1 DEF RunsGrow, ReviewInv, ReviewShapes
    <2> QED BY <2>1, <2>2, RowsStay DEF ReviewInv, ReviewShapes
<1> QED BY <1>1, <1>2, <1>3, <1>4, <1>5, <1>6, <1>7, <1>8, <1>9, <1>10, <1>11
           DEF Review!ReviewNext

\* What the user said last of a signal is what is shown, unless the clock was set back; and a
\* candidate that was adopted is not offered as one.
THEOREM LastWordIsShown == Review!ReviewSpec => []Review!ReviewKept
<1>1. Review!ReviewInit => ReviewInv
    BY ReviewInitially
<1>2. ReviewInv /\ [Review!ReviewNext]_Review!reviewVars => ReviewInv'
    BY ReviewStep
<1>3. ASSUME ReviewInv PROVE Review!ReviewKept
    <2>1. ASSUME ~unordered, NEW d \in decisions
          PROVE  d.after < Review!Latest(d.signal).number
        <3> DEFINE m == Review!Latest(d.signal)
        <3>1. \E x \in Review!Decided(d.signal) :
                 \A e \in Review!Decided(d.signal) \ {x} : \/ e.time < x.time
                                                              \/ /\ e.time = x.time
                                                                 /\ e.number < x.number
            <4>1. PICK x \in decisions : x.signal = d.signal /\ IsLast(x)
                BY <1>3 DEF ReviewInv, LastIsThere
            <4> QED BY <4>1 DEF IsLast, Beats, Review!Decided
        <3>2. /\ m \in decisions
              /\ d # m => Beats(m, d)
            BY <3>1 DEF Review!Latest, Review!Decided, Beats
        <3> HIDE DEF m
        <3>3. /\ m.number \in Nat /\ m.time \in Nat /\ d.after \in Nat /\ d.time \in Nat
              /\ d.number \in Nat
            BY <1>3, <3>2 DEF ReviewInv, ReviewShapes
        <3>4. d.after < d.number /\ (m.number <= d.after => m.time <= d.time)
            BY <1>3, <2>1, <3>2 DEF ReviewInv, ClockOrders, Preceded
        <3>5. d.after < m.number
            BY <3>2, <3>3, <3>4 DEF Beats
        <3> QED BY <3>5 DEF m
    <2>2. \A a \in attempts : /\ a.signal \in signals /\ a.run \in DOMAIN runs
                              /\ a.run \notin unmarked =>
                                    (a.status = "adopted" <=> runs[a.run].adopted)
        BY <1>3 DEF ReviewInv, ReviewShapes, AttemptsMarked
    <2> QED BY <2>1, <2>2 DEF Review!ReviewKept
<1> QED BY <1>1, <1>2, <1>3, PTL DEF Review!ReviewSpec

(***************************************************************************)
(* WaveformCache: answers and caches are whole.                            *)
(*                                                                         *)
(* A file that a name stands for is of one audio file, with which all      *)
(* builds of it agree, and what it lacks some load has still to write:     *)
(* parts of two audio files do not meet, as long as crossed is not set.    *)
(* A load beside which none builds reads what it has made or checked.      *)
(* What the arithmetic of read_window makes of that comes first.           *)
(***************************************************************************)
sound == x2
names == x3
data == x4
load == x6
sounds == x7
alike == x8
crossed == x9
begun == x10
USE DEF answer, sound, names, data, load, sounds, alike, crossed, begun, troubles

\* The greater of two numbers.
LEMMA GreaterOfTwo ==
    ASSUME NEW a \in Int, NEW b \in Int PROVE Waveform!Max({a, b}) = IF a >= b THEN a ELSE b
<1> DEFINE m == IF a >= b THEN a ELSE b
<1>1. m \in {a, b} /\ \A y \in {a, b} : m >= y
    OBVIOUS
<1>2. \A x \in {a, b} : (\A y \in {a, b} : x >= y) => x = m
    OBVIOUS
<1> QED BY <1>1, <1>2 DEF Waveform!Max

\* The lesser of two numbers, as well.
LEMMA LesserOfTwo ==
    ASSUME NEW a \in Int, NEW b \in Int PROVE Waveform!Min({a, b}) = IF a <= b THEN a ELSE b
<1> DEFINE m == IF a <= b THEN a ELSE b
<1>1. m \in {a, b} /\ \A y \in {a, b} : m <= y
    OBVIOUS
<1>2. \A x \in {a, b} : (\A y \in {a, b} : x <= y) => x = m
    OBVIOUS
<1> QED BY <1>1, <1>2 DEF Waveform!Min

\* A number that is clamped, when the bounds are in order and when they are not.
LEMMA Clamped ==
    ASSUME NEW n \in Int, NEW low \in Nat, NEW high \in Nat
    PROVE  Waveform!Clamp(n, low, high) = IF n <= low THEN (IF low <= high THEN low ELSE high)
                                          ELSE IF n <= high THEN n ELSE high
BY GreaterOfTwo, LesserOfTwo DEF Waveform!Clamp

\* Division by a positive number.
LEMMA Quotient ==
    ASSUME NEW a \in Nat, NEW k \in Nat \ {0}
    PROVE  a \div k \in Nat /\ (a \div k) * k <= a /\ a < (a \div k + 1) * k
BY Z3

\* The quotient is the only number of which that is true.
LEMMA QuotientIs ==
    ASSUME NEW a \in Nat, NEW k \in Nat \ {0}, NEW q \in Nat, q * k <= a, a < (q + 1) * k
    PROVE  a \div k = q
OBVIOUS

\* Division that rounds up.
LEMMA QuotientUp ==
    ASSUME NEW n \in Nat, NEW k \in Nat \ {0}
    PROVE  /\ Waveform!CeilDiv(n, k) \in Nat /\ n <= Waveform!CeilDiv(n, k) * k
           /\ (Waveform!CeilDiv(n, k) - 1) * k < n
BY Quotient, n + k - 1 \in Nat DEF Waveform!CeilDiv

\* A window that may be asked for: also one that begins before the audio.
Audible == [from : Int, to : Int, points : Nat]

\* A factor can be left out.
LEMMA Smaller ==
    ASSUME NEW x \in Int, NEW y \in Int, NEW k \in Nat \ {0}, x * k < y * k PROVE x < y
OBVIOUS

\* The cuts of n buckets into k points leave none of them out, and no point empty.
LEMMA CutsTile ==
    ASSUME NEW n \in Nat \ {0}, NEW k \in 1..n
    PROVE  /\ \A i \in 0..k : (i * n) \div k \in Nat
           /\ (0 * n) \div k = 0 /\ (k * n) \div k = n
           /\ \A i, j \in 0..k : i < j => (i * n) \div k + 1 <= (j * n) \div k
           /\ \A v \in 0..n-1 : \E i \in 1..k :
                 ((i - 1) * n) \div k <= v /\ v < (i * n) \div k
<1> DEFINE C(i) == (i * n) \div k
<1>1. \A i \in 0..k : i * n \in Nat /\ C(i) \in Nat /\ C(i) * k <= i * n /\ i * n < (C(i) + 1) * k
    <2> TAKE i \in 0..k
    <2>1. i * n \in Nat
        OBVIOUS
    <2> QED BY <2>1, Quotient
<1>2. C(0) = 0 /\ C(k) = n
    <2>1. C(0) = 0
        BY QuotientIs, 0 * n = 0
    <2>2. k * n \in Nat /\ n * k <= k * n /\ k * n < (n + 1) * k
        OBVIOUS
    <2>3. C(k) = n
        BY <2>2, QuotientIs
    <2> QED BY <2>1, <2>3
<1>3. ASSUME NEW i \in 0..k, NEW j \in 0..k, i < j PROVE C(i) + 1 <= C(j)
    <2> HIDE DEF C
    <2>1. (i + 1) * n <= j * n
        <3>1. (i + 1) * n + (j - i - 1) * n = j * n
            OBVIOUS
        <3>2. (j - i - 1) * n >= 0
            BY <1>3
        <3> QED BY <3>1, <3>2
    <2>2. (C(i) + 1) * k = C(i) * k + k /\ (i + 1) * n = i * n + n
        BY <1>1
    <2>3. (C(i) + 1) * k < (C(j) + 1) * k
        <3>1. C(i) * k <= i * n /\ j * n < (C(j) + 1) * k
            BY <1>1
        <3>2. C(i) * k \in Int /\ i * n \in Int /\ j * n \in Int /\ (C(j) + 1) * k \in Int
            BY <1>1
        <3> QED BY <3>1, <3>2, <2>1, <2>2
    <2> QED BY <2>3, <1>1, Smaller
<1>4. ASSUME NEW v \in 0..n-1 PROVE \E i \in 1..k : C(i - 1) <= v /\ v < C(i)
    <2> DEFINE u == (v + 1) * k - 1
               i == u \div n + 1
    <2>1. u \in Nat
        OBVIOUS
    <2>2. i - 1 \in Nat /\ (i - 1) * n <= u /\ u < i * n
        BY <2>1, Quotient
    <2>3. i \in 1..k
        <3>1. u < k * n
            <4>1. (v + 1) * k + (n - 1 - v) * k = n * k
                OBVIOUS
            <4>2. (n - 1 - v) * k >= 0
                OBVIOUS
            <4> QED BY <4>1, <4>2
        <3>2. (i - 1) * n < k * n
            <4> HIDE DEF u, i
            <4> QED BY <3>1, <2>2, <2>1
        <3>3. i - 1 < k
            <4> HIDE DEF i
            <4> QED BY <3>2, <2>2, Smaller
        <3> QED BY <3>3, <2>2
    <2> HIDE DEF i
    <2>4. i - 1 \in 0..k /\ i \in 0..k
        BY <2>3
    <2>5. C(i - 1) <= v
        <3>1. C(i - 1) * k < (v + 1) * k
            <4> HIDE DEF C
            <4> QED BY <2>4, <2>2, <1>1
        <3> HIDE DEF C
        <3> QED BY <3>1, <2>4, <1>1, Smaller
    <2>6. v < C(i)
        <3> HIDE DEF C
        <3>1. (v + 1) * k < (C(i) + 1) * k
            BY <2>4, <2>2, <1>1
        <3>2. v + 1 \in Int /\ C(i) + 1 \in Int /\ C(i) \in Int /\ k \in Nat \ {0}
            BY <2>4, <1>1
        <3>3. v + 1 < C(i) + 1
            BY <3>1, <3>2, Smaller
        <3> QED BY <3>2, <3>3
    <2> QED BY <2>3, <2>5, <2>6
<1> QED BY <1>1, <1>2, <1>3, <1>4

\* The points of a window take each of its buckets once, and in order.
LEMMA PointsTile ==
    ASSUME NEW seen, NEW window \in Audible,
           seen.first \in Nat, seen.number \in Nat \ {0},
           MinPoints \in Nat \ {0}, MaxPoints \in Nat \ {0}
    PROVE  \E k \in Nat :
              LET P == Waveform!PointsOf(seen, window) IN
              /\ P = [i \in 1..k |-> P[i]]
              /\ UNION {P[i] : i \in 1..k} = seen.first..(seen.first + seen.number - 1)
              /\ \A i, j \in 1..k : \A x \in P[i], y \in P[j] : i < j => x < y
<1> DEFINE n == seen.number
           c == Waveform!Clamp(window.points, MinPoints, MaxPoints)
           k == Waveform!Min({c, n})
           C(i) == (i * n) \div k
           P == Waveform!PointsOf(seen, window)
           To(i) == Waveform!Max({C(i), C(i - 1) + 1})
<1>1. c \in Nat \ {0}
    BY Clamped DEF Audible
<1>2. k \in 1..n
    <2> HIDE DEF c
    <2> QED BY <1>1, LesserOfTwo
<1>3. P = [i \in 1..k |-> {seen.first + j : j \in C(i - 1)..(To(i) - 1)}]
    BY DEF Waveform!PointsOf
<1> HIDE DEF k, P, c
<1>4. /\ \A i \in 0..k : C(i) \in Nat
      /\ C(0) = 0 /\ C(k) = n
      /\ \A i, j \in 0..k : i < j => C(i) + 1 <= C(j)
      /\ \A v \in 0..n-1 : \E i \in 1..k : C(i - 1) <= v /\ v < C(i)
    BY <1>2, CutsTile
<1> HIDE DEF C
<1>5. \A i \in 1..k : i - 1 \in 0..k /\ i \in 0..k /\ To(i) = C(i)
    <2> TAKE i \in 1..k
    <2>1. i - 1 \in 0..k /\ i \in 0..k /\ i - 1 < i
        BY <1>2
    <2>2. C(i - 1) + 1 <= C(i) /\ C(i) \in Int /\ C(i - 1) + 1 \in Int
        BY <2>1, <1>4
    <2> QED BY <2>1, <2>2, GreaterOfTwo
<1> HIDE DEF To
<1>6. \A i \in 1..k : P[i] = {seen.first + j : j \in C(i - 1)..(C(i) - 1)}
    BY <1>3, <1>5
<1>7. ASSUME NEW i \in 1..k, NEW j \in 1..k, NEW x \in P[i], NEW y \in P[j], i < j PROVE x < y
    <2>1. PICK a \in C(i - 1)..(C(i) - 1) : x = seen.first + a
        BY <1>6
    <2>2. PICK b \in C(j - 1)..(C(j) - 1) : y = seen.first + b
        BY <1>6
    <2>3. C(i) <= C(j - 1) /\ C(i) \in Nat /\ C(j - 1) \in Nat /\ C(i - 1) \in Nat /\ C(j) \in Nat
        <3>1. i = j - 1 \/ i < j - 1
            BY <1>2, <1>7
        <3>2. {i - 1, i, j - 1, j} \subseteq 0..k
            BY <1>5
        <3>3. C(i) \in Nat /\ C(j - 1) \in Nat /\ C(i - 1) \in Nat /\ C(j) \in Nat
            BY <1>4, <3>2
        <3>4. i < j - 1 => C(i) + 1 <= C(j - 1)
            BY <1>4, <3>2
        <3> QED BY <3>1, <3>3, <3>4
    <2> QED BY <2>1, <2>2, <2>3
<1>8. UNION {P[i] : i \in 1..k} = seen.first..(seen.first + n - 1)
    <2>1. ASSUME NEW i \in 1..k, NEW x \in P[i] PROVE x \in seen.first..(seen.first + n - 1)
        <3>1. PICK a \in C(i - 1)..(C(i) - 1) : x = seen.first + a
            BY <1>6
        <3>2. C(i - 1) \in Nat /\ C(i) \in Nat /\ C(i) <= n
            <4>1. i = k \/ i < k
                BY <1>2
            <4>2. k \in 0..k
                BY <1>2
            <4> QED BY <4>1, <4>2, <1>4, <1>5
        <3> QED BY <3>1, <3>2
    <2>2. ASSUME NEW x \in seen.first..(seen.first + n - 1) PROVE \E i \in 1..k : x \in P[i]
        <3> DEFINE v == x - seen.first
        <3>1. v \in 0..n-1 /\ x = seen.first + v
            OBVIOUS
        <3> HIDE DEF v
        <3>2. PICK i \in 1..k : C(i - 1) <= v /\ v < C(i)
            BY <3>1, <1>4
        <3>3. v \in C(i - 1)..(C(i) - 1)
            BY <3>1, <3>2, <1>4, <1>5
        <3> QED BY <3>1, <3>3, <1>6
    <2> QED BY <2>1, <2>2
<1>9. P = [i \in 1..k |-> P[i]] /\ k \in Nat
    BY <1>3, <1>2
<1> QED BY <1>7, <1>8, <1>9 DEF P

\* The buckets that are seen are those that sound in the window.
LEMMA SeenSounds ==
    ASSUME NEW length \in Nat \ {0}, NEW source, NEW window \in Audible,
           Second \in Nat \ {0}, Rate \in Nat \ {0}, BucketRate \in Nat \ {0}
    PROVE  LET seen == Waveform!Visible(Waveform!HeaderOf(source, length), window) IN
           /\ seen.first \in Nat /\ seen.number \in Nat \ {0}
           /\ seen.first + seen.number <= Waveform!CeilDiv(length, Waveform!BucketSize)
           /\ {k \in 0..Waveform!CeilDiv(length, Waveform!BucketSize) - 1 :
                 Waveform!Sounds(k, seen.start, seen.end)}
                 = seen.first..(seen.first + seen.number - 1)
<1> DEFINE h == Waveform!HeaderOf(source, length)
           seen == Waveform!Visible(h, window)
           K == Waveform!BucketSize * Second
           count == Waveform!CeilDiv(length, Waveform!BucketSize)
           duration == Waveform!CeilDiv(length * Second, Rate)
           start == Waveform!Clamp(window.from, 0, duration - 1)
           end == Waveform!Clamp(window.to, start + 1, duration)
           first == (start * Rate) \div K
           up == Waveform!CeilDiv(end * Rate, K)
           last == Waveform!Min({up, count})
           number == Waveform!Max({IF last > first THEN last - first ELSE 0, 1})
<1>1. Waveform!BucketSize \in Nat \ {0}
    <2>1. Rate \div BucketRate \in Nat
        BY Quotient
    <2> QED BY <2>1, GreaterOfTwo DEF Waveform!BucketSize
<1>2. K \in Nat \ {0}
    BY <1>1
<1>3. count \in Nat /\ length <= count * Waveform!BucketSize
    BY <1>1, QuotientUp
<1>4. duration \in Nat \ {0} /\ (duration - 1) * Rate < length * Second
    <2>1. length * Second \in Nat \ {0}
        OBVIOUS
    <2>2. duration \in Nat /\ length * Second <= duration * Rate /\ (duration - 1) * Rate < length * Second
        BY <2>1, QuotientUp
    <2> HIDE DEF duration
    <2>3. duration # 0
        BY <2>1, <2>2
    <2> QED BY <2>2, <2>3
<1>5. seen = [start |-> start, end |-> end, first |-> first, number |-> number]
    BY DEF Waveform!Visible, Waveform!HeaderOf
<1> HIDE DEF K, count, duration, seen
<1>6. start \in Nat /\ start <= duration - 1
    BY <1>4, Clamped DEF Audible
<1> HIDE DEF start
<1>7. end \in Nat /\ start + 1 <= end
    BY <1>4, <1>6, Clamped DEF Audible
<1> HIDE DEF end
<1>8. first \in Nat /\ first * K <= start * Rate /\ start * Rate < (first + 1) * K
    <2>1. start * Rate \in Nat
        BY <1>6
    <2> QED BY <2>1, <1>2, Quotient
<1>9. up \in Nat /\ end * Rate <= up * K /\ (up - 1) * K < end * Rate
    <2>1. end * Rate \in Nat
        BY <1>7
    <2> QED BY <2>1, <1>2, QuotientUp
<1> HIDE DEF first, up
<1>10. first < up
    <2>1. start * Rate < end * Rate
        <3>1. (end - start) * Rate > 0
            BY <1>6, <1>7
        <3>2. end * Rate = start * Rate + (end - start) * Rate
            BY <1>6, <1>7
        <3> QED BY <3>1, <3>2, <1>6, <1>7
    <2>2. first * K < up * K
        BY <2>1, <1>8, <1>9, <1>6, <1>7, <1>2
    <2> QED BY <2>2, <1>2, <1>8, <1>9, Smaller
<1>11. first < count
    <2>1. start * Rate <= (duration - 1) * Rate
        <3>1. (duration - 1 - start) * Rate >= 0
            BY <1>4, <1>6
        <3>2. (duration - 1) * Rate = start * Rate + (duration - 1 - start) * Rate
            BY <1>4, <1>6
        <3> QED BY <3>1, <3>2, <1>4, <1>6
    <2>2. length * Second <= count * K
        <3>1. (count * Waveform!BucketSize - length) * Second >= 0
            BY <1>1, <1>3
        <3>2. count * K = length * Second + (count * Waveform!BucketSize - length) * Second
            BY <1>1, <1>3 DEF K
        <3> QED BY <3>1, <3>2, <1>1, <1>3
    <2>3. first * K < count * K
        BY <2>1, <2>2, <1>8, <1>4, <1>3, <1>2, <1>6
    <2> QED BY <2>3, <1>2, <1>3, <1>8, Smaller
<1>12. last = (IF up <= count THEN up ELSE count)
    BY <1>3, <1>9, LesserOfTwo
<1> HIDE DEF last
<1>13. last \in Nat /\ first < last /\ last <= count
    BY <1>10, <1>11, <1>12, <1>3, <1>8, <1>9
<1>14. number = last - first
    <2>1. last - first \in Nat /\ last - first >= 1 /\ last > first
        BY <1>13, <1>8
    <2> QED BY <2>1, GreaterOfTwo
<1> HIDE DEF number
<1>15. ASSUME NEW k \in Nat
       PROVE  Waveform!Sounds(k, start, end) <=> first <= k /\ k < up
    <2>1. (k + 1) * K > start * Rate <=> first <= k
        <3>1. ASSUME first <= k PROVE (k + 1) * K > start * Rate
            <4>1. (k - first) * K >= 0
                BY <3>1, <1>2, <1>8
            <4>2. (k + 1) * K = (first + 1) * K + (k - first) * K
                BY <1>2, <1>8
            <4> QED BY <4>1, <4>2, <1>2, <1>8, <1>6
        <3>2. ASSUME (k + 1) * K > start * Rate PROVE first <= k
            <4>1. first * K < (k + 1) * K
                BY <3>2, <1>8, <1>2, <1>6
            <4> QED BY <4>1, <1>8, <1>2, Smaller
        <3> QED BY <3>1, <3>2
    <2>2. k * K < end * Rate <=> k < up
        <3>1. ASSUME k < up PROVE k * K < end * Rate
            <4>1. (up - 1 - k) * K >= 0
                BY <3>1, <1>2, <1>9
            <4>2. (up - 1) * K = k * K + (up - 1 - k) * K
                BY <1>2, <1>9
            <4> QED BY <4>1, <4>2, <1>2, <1>9, <1>7
        <3>2. ASSUME k * K < end * Rate PROVE k < up
            <4>1. k * K < up * K
                BY <3>2, <1>9, <1>2, <1>7
            <4> QED BY <4>1, <1>9, <1>2, Smaller
        <3> QED BY <3>1, <3>2
    <2>3. k * Waveform!BucketSize * Second = k * K /\ (k + 1) * Waveform!BucketSize * Second = (k + 1) * K
        BY <1>1 DEF K
    <2> QED BY <2>1, <2>2, <2>3 DEF Waveform!Sounds
<1>16. {k \in 0..count - 1 : Waveform!Sounds(k, start, end)} = first..(last - 1)
    <2>1. \A k \in 0..count - 1 : Waveform!Sounds(k, start, end) <=> first <= k /\ k < up
        BY <1>15, <1>3
    <2>2. \A k : k \in first..(last - 1) <=> k \in 0..count - 1 /\ first <= k /\ k < up
        BY <1>12, <1>13, <1>3, <1>8, <1>9
    <2> QED BY <2>1, <2>2
<1>17. seen.first = first /\ seen.number = number /\ seen.start = start /\ seen.end = end
    BY <1>5
<1> HIDE DEF h
<1>18. /\ first \in Nat /\ number \in Nat \ {0} /\ first + number <= count
       /\ first + number - 1 = last - 1
    BY <1>13, <1>14, <1>8, <1>3
<1> QED BY <1>16, <1>17, <1>18 DEF seen, h, count

SoundSources == Lengths \X Stamps
SoundFiles == [length : Lengths, stamp : Stamps, mark : Nat \ {0}]
CacheHeaders == [source : SoundSources, count : Nat, duration : Nat]
CacheFiles == [header : CacheHeaders \cup {None}, buckets : Seq((Nat \X Nat) \cup {None})]
LoadStages == {"header", "open", "create", "write", "remove", "rename", "read"}
LoadRecords == [at : LoadStages, window : Views, mark : Nat, source : SoundSources,
                header : CacheHeaders \cup {None}, from : SoundFiles \cup {None},
                file : Nat \cup {None}, written : Nat, beside : BOOLEAN]

WaveAssumption ==
    /\ Lengths \subseteq Nat \ {0} /\ Views \subseteq Audible
    /\ {Second, Rate, BucketRate, MinPoints, MaxPoints} \subseteq Nat \ {0}
    /\ None \notin SoundFiles \cup CacheHeaders \cup Nat \cup (Nat \X Nat)

WaveShapes ==
    /\ sounds \in Seq(SoundFiles) /\ Len(sounds) > 0
    /\ \A k \in 1..Len(sounds) : sounds[k].mark = k
    /\ sound \in {None, sounds[Len(sounds)]}
    /\ data \in Seq(CacheFiles)
    /\ names \in [cache : Nat \cup {None}, part : Nat \cup {None}]
    /\ names.cache # None => names.cache \in 1..Len(data)
    /\ names.part # None => names.part \in 1..Len(data) /\ names.part # names.cache
    /\ load \in [WaveLoads -> {Waveform!Idle} \cup LoadRecords]
    /\ alike \in BOOLEAN /\ crossed \in BOOLEAN

SoundsDiffer ==
    ~alike => \A j, k \in 1..Len(sounds) :
        sounds[j].length = sounds[k].length /\ sounds[j].stamp = sounds[k].stamp => j = k

\* What a load knows is of the audio files so far, heard.
Follows(r, heard, size) ==
    /\ r.mark \in 1..Len(heard)
    /\ r.source = <<heard[r.mark].length, heard[r.mark].stamp>>
    /\ r.at \in {"header", "open", "create"} => r.written = 0
    /\ r.at \in {"create", "write", "remove", "rename"} =>
          /\ r.from # None /\ r.from.mark \in r.mark..Len(heard)
          /\ r.from = heard[r.from.mark]
          /\ r.header = Waveform!HeaderOf(r.source, r.from.length)
    /\ r.at \in {"write", "remove", "rename"} =>
          r.file \in 1..size /\ r.written \in 0..r.header.count
LoadsFollow == \A l \in WaveLoads : load[l].at # "idle" => Follows(load[l], sounds, Len(data))

PartIsBuilt == names.part # None => \E l \in WaveLoads : Waveform!Building(l) /\ load[l].file = names.part
OneSound ==
    ~crossed => \A k, l \in WaveLoads :
        Waveform!Building(k) /\ Waveform!Building(l) => load[k].from.mark = load[l].from.mark

\* A load has still to write a position of a file.
Pending(f, i) ==
    \E l \in WaveLoads : load[l].at = "write" /\ load[l].file = f /\ load[l].written <= i
HasBucket(contents, m, i) ==
    i \in 1..Len(contents.buckets) /\ contents.buckets[i] = <<m, i - 1>>
HeaderFits(header, m, heard) ==
    header # None => \E k \in 1..m :
        header = Waveform!HeaderOf(<<heard[k].length, heard[k].stamp>>, heard[m].length)
BucketsOf(length) == Waveform!CeilDiv(length, Waveform!BucketSize)
OfSound(f, m) ==
    /\ HeaderFits(data[f].header, m, sounds)
    /\ Len(data[f].buckets) <= BucketsOf(sounds[m].length)
    /\ \A i \in 1..BucketsOf(sounds[m].length) : Pending(f, i) \/ HasBucket(data[f], m, i)
    /\ \A l \in WaveLoads : Waveform!Building(l) /\ load[l].file = f => load[l].from.mark = m
FilesWhole ==
    ~crossed => \A f \in {names.cache, names.part} :
                   f # None => \E m \in 1..Len(sounds) : OfSound(f, m)

\* What a load finds beside which none builds.
Undisturbed(l, r) ==
    /\ \A o \in WaveLoads \ {l} : ~Waveform!Building(o)
    /\ r.at \in {"write", "remove", "rename"} =>
          /\ names.part = r.file
          /\ r.at # "write" \/ r.written > 0 => data[r.file].header = r.header
    /\ r.at = "read" =>
          /\ names.cache # None /\ r.header # None
          /\ data[names.cache].header = r.header
          /\ r.header.source = r.source
Alone ==
    \A l \in WaveLoads : load[l].at # "idle" /\ ~load[l].beside => Undisturbed(l, load[l])

WaveFacts == WaveShapes /\ SoundsDiffer /\ LoadsFollow /\ PartIsBuilt /\ OneSound /\ FilesWhole /\ Alone
AnswerKnown ==
    answer # None /\ ~answer.beside /\ ~answer.stale /\ ~answer.error => answer.mark \in Nat \ {0}
WaveInv == WaveFacts /\ AnswerKnown /\ Waveform!AnswerWhole

\* How many buckets there are, and what a header says of them.
LEMMA BucketsAre ==
    ASSUME WaveAssumption
    PROVE  /\ Waveform!BucketSize \in Nat \ {0}
           /\ \A n \in Lengths : BucketsOf(n) \in Nat
           /\ \A n \in Lengths, s \in SoundSources :
                 /\ Waveform!HeaderOf(s, n) \in CacheHeaders
                 /\ Waveform!HeaderOf(s, n).source = s /\ Waveform!HeaderOf(s, n).count = BucketsOf(n)
<1>1. Waveform!BucketSize \in Nat \ {0}
    <2>1. Rate \div BucketRate \in Nat
        BY Quotient DEF WaveAssumption
    <2> QED BY <2>1, GreaterOfTwo DEF Waveform!BucketSize
<1>2. ASSUME NEW n \in Lengths PROVE BucketsOf(n) \in Nat /\ Waveform!CeilDiv(n * Second, Rate) \in Nat
    <2>1. n \in Nat /\ n * Second \in Nat /\ Rate \in Nat \ {0}
        BY DEF WaveAssumption
    <2> QED BY <1>1, <2>1, QuotientUp DEF BucketsOf
<1>3. \A n \in Lengths, s \in SoundSources :
         Waveform!HeaderOf(s, n) = [source |-> s, count |-> BucketsOf(n),
                                    duration |-> Waveform!CeilDiv(n * Second, Rate)]
    BY DEF Waveform!HeaderOf, BucketsOf
<1>4. ASSUME NEW n \in Lengths, NEW s \in SoundSources
      PROVE  /\ Waveform!HeaderOf(s, n) \in CacheHeaders
             /\ Waveform!HeaderOf(s, n).source = s /\ Waveform!HeaderOf(s, n).count = BucketsOf(n)
    <2>1. BucketsOf(n) \in Nat /\ Waveform!CeilDiv(n * Second, Rate) \in Nat
        BY <1>2
    <2> HIDE DEF SoundSources
    <2> QED BY <1>3, <2>1 DEF CacheHeaders
<1> QED BY <1>1, <1>2, <1>4

\* A load that is not idle is known.
LEMMA LoadKnown ==
    ASSUME WaveShapes, NEW l \in WaveLoads, load[l].at # "idle" PROVE load[l] \in LoadRecords
BY DEF WaveShapes, Waveform!Idle

\* At first there is an audio file, and nothing else.
LEMMA WaveInitially ==
    ASSUME WaveAssumption, Waveform!WaveInit PROVE WaveInv
<1>1. PICK n \in Lengths, t \in Stamps :
         sound = [length |-> n, stamp |-> t, mark |-> 1] /\ sounds = <<sound>>
    BY DEF Waveform!WaveInit
<1>2. sound \in SoundFiles
    BY <1>1 DEF SoundFiles
<1>3. sounds \in Seq(SoundFiles) /\ Len(sounds) = 1 /\ sounds[1] = sound /\ sound.mark = 1
    BY <1>1, <1>2
<1>4. /\ names = [cache |-> None, part |-> None] /\ data = <<>> /\ answer = None
      /\ load = [l \in WaveLoads |-> Waveform!Idle] /\ alike = FALSE /\ crossed = FALSE
    BY DEF Waveform!WaveInit
<1>5. WaveShapes
    <2>1. data \in Seq(CacheFiles) /\ names.cache = None /\ names.part = None
        BY <1>4
    <2>2. load \in [WaveLoads -> {Waveform!Idle} \cup LoadRecords]
        BY <1>4
    <2>3. (\A k \in 1..Len(sounds) : sounds[k].mark = k) /\ sound = sounds[Len(sounds)]
        BY <1>3
    <2>4. names \in [cache : Nat \cup {None}, part : Nat \cup {None}]
        BY <1>4
    <2>5. alike \in BOOLEAN /\ crossed \in BOOLEAN
        BY <1>4
    <2>6. sounds \in Seq(SoundFiles) /\ Len(sounds) > 0
        BY <1>3
    <2> QED BY <2>1, <2>2, <2>3, <2>4, <2>5, <2>6 DEF WaveShapes
<1>6. \A l \in WaveLoads : load[l].at = "idle" /\ ~Waveform!Building(l)
    BY <1>4 DEF Waveform!Idle, Waveform!Building
<1>7. SoundsDiffer /\ LoadsFollow /\ PartIsBuilt /\ OneSound /\ FilesWhole /\ Alone
    BY <1>3, <1>4, <1>6 DEF SoundsDiffer, LoadsFollow, PartIsBuilt, OneSound, FilesWhole, Alone
<1> QED BY <1>4, <1>5, <1>7 DEF WaveInv, WaveFacts, AnswerKnown, Waveform!AnswerWhole

\* A file stays one of a sound, when neither it nor what is still to write of it changes.
LEMMA FileStays ==
    ASSUME WaveShapes, NEW f, NEW m \in 1..Len(sounds), OfSound(f, m), data'[f] = data[f],
           \A k \in 1..Len(sounds) : sounds'[k] = sounds[k],
           \A i \in Nat : Pending(f, i) => Pending(f, i)',
           \A l \in WaveLoads : Waveform!Building(l)' /\ load'[l].file = f =>
               Waveform!Building(l) /\ load[l].file = f /\ load'[l].from = load[l].from
    PROVE  OfSound(f, m)'
<1>1. \A k \in 1..m : sounds'[k] = sounds[k]
    BY DEF WaveShapes
<1>2. HeaderFits(data[f].header, m, sounds)'
    <2>1. HeaderFits(data[f].header, m, sounds)
        BY DEF OfSound
    <2> QED BY <1>1, <2>1 DEF HeaderFits
<1>3. sounds'[m] = sounds[m]
    OBVIOUS
<1>4. \A i \in 1..BucketsOf(sounds[m].length)' :
        Pending(f, i)' \/ HasBucket(data[f], m, i)'
    <2>1. \A i \in 1..BucketsOf(sounds[m].length) : Pending(f, i) \/ HasBucket(data[f], m, i)
        BY DEF OfSound
    <2> QED BY <1>3, <2>1 DEF HasBucket
<1>5. (Len(data[f].buckets) <= BucketsOf(sounds[m].length))'
    BY <1>3 DEF OfSound
<1>6. \A l \in WaveLoads : Waveform!Building(l)' /\ load'[l].file = f => load'[l].from.mark = m
    BY DEF OfSound
<1> QED BY <1>2, <1>4, <1>5, <1>6 DEF OfSound

\* So do the files, when a load moves that does not build.
LEMMA QuietKeeps ==
    ASSUME WaveAssumption, WaveFacts, NEW l \in WaveLoads, ~Waveform!Building(l),
           NEW r \in {Waveform!Idle} \cup LoadRecords, r.at \notin {"write", "remove", "rename"},
           load' = [load EXCEPT ![l] = r],
           r.at # "idle" => Follows(r, sounds, Len(data)),
           r.at # "idle" /\ ~r.beside => Undisturbed(l, r),
           UNCHANGED <<sound, names, data, sounds, alike, crossed>>
    PROVE  WaveFacts'
<1>1. load'[l] = r /\ \A o \in WaveLoads \ {l} : load'[o] = load[o]
    BY DEF WaveFacts, WaveShapes
<1>2. WaveShapes'
    BY DEF WaveFacts, WaveShapes
<1>3. SoundsDiffer'
    BY DEF WaveFacts, SoundsDiffer
<1>4. LoadsFollow'
    BY <1>1 DEF WaveFacts, LoadsFollow
<1>5. \A o \in WaveLoads : Waveform!Building(o)' <=> Waveform!Building(o)
    BY <1>1 DEF Waveform!Building
<1>6. \A o \in WaveLoads : Waveform!Building(o) => load'[o] = load[o]
    BY <1>1
<1>7. PartIsBuilt'
    BY <1>5, <1>6 DEF WaveFacts, PartIsBuilt
<1>8. OneSound'
    BY <1>5, <1>6 DEF WaveFacts, OneSound
<1>9. FilesWhole'
    <2>1. \A f, i : Pending(f, i) => Pending(f, i)'
        BY <1>6 DEF Pending, Waveform!Building
    <2>2. ASSUME NEW f \in {names.cache, names.part}, f # None, NEW m \in 1..Len(sounds), OfSound(f, m)
          PROVE  OfSound(f, m)'
        BY <1>5, <1>6, <2>1, <2>2, FileStays DEF WaveFacts
    <2> QED BY <2>2 DEF WaveFacts, FilesWhole
<1>10. Alone'
    <2>1. ASSUME NEW o \in WaveLoads, load'[o].at # "idle", ~load'[o].beside
          PROVE  Undisturbed(o, load[o])'
        <3>1. Undisturbed(o, load'[o])
            BY <1>1, <2>1 DEF WaveFacts, Alone
        <3> QED BY <3>1, <1>5 DEF Undisturbed
    <2> QED BY <2>1 DEF Alone
<1> QED BY <1>2, <1>3, <1>4, <1>7, <1>8, <1>9, <1>10 DEF WaveFacts

\* An answer is compared with the audio files so far, of which there are only more.
LEMMA AnswerStays ==
    ASSUME AnswerKnown, Waveform!AnswerWhole, answer' = answer, Len(sounds) \in Nat, Len(sounds') \in Nat,
           Len(sounds') >= Len(sounds), \A k \in 1..Len(sounds) : sounds'[k] = sounds[k]
    PROVE  AnswerKnown' /\ Waveform!AnswerWhole'
<1>1. ASSUME answer.mark \in Nat \ {0}, NEW m \in answer.mark..Len(sounds)
      PROVE  m \in answer.mark..Len(sounds') /\ sounds'[m] = sounds[m]
    <2> DEFINE a == answer.mark
               n == Len(sounds)
               o == Len(sounds')
    <2>1. a \in Nat \ {0} /\ m \in a..n /\ n \in Nat /\ o \in Nat /\ o >= n
        BY <1>1
    <2> HIDE DEF a, n, o
    <2>2. m \in a..o /\ m \in 1..n
        BY <2>1
    <2> QED BY <2>2 DEF a, n, o
<1>2. AnswerKnown'
    BY DEF AnswerKnown
<1>3. SUFFICES ASSUME answer # None /\ ~answer.beside /\ ~answer.stale, ~answer.error
               PROVE  Waveform!AnswerWhole'
    BY <1>2 DEF Waveform!AnswerWhole
<1>4. answer.mark \in Nat \ {0}
    BY <1>3 DEF AnswerKnown
<1> DEFINE peaks == answer.peaks
           seen == UNION {peaks[i] : i \in DOMAIN peaks}
           All(n) == {k \in 0..Waveform!CeilDiv(n, Waveform!BucketSize) - 1 :
                         Waveform!Sounds(k, answer.start, answer.end)}
<1>5. PICK m \in answer.mark..Len(sounds) : seen = {<<m, b>> : b \in All(sounds[m].length)}
    BY <1>3 DEF Waveform!AnswerWhole
<1>6. m \in answer.mark..Len(sounds') /\ seen = {<<m, b>> : b \in All(sounds'[m].length)}
    BY <1>1, <1>4, <1>5
<1> QED BY <1>3, <1>6 DEF Waveform!AnswerWhole

\* A load begins: it knows the audio file there is.
LEMMA LoadBegins ==
    ASSUME WaveAssumption, WaveInv, NEW l \in WaveLoads, NEW w \in Views, Waveform!BeginLoad(l, w)
    PROVE  WaveInv'
<1> DEFINE r == [at |-> "header", window |-> w, mark |-> sound.mark,
                 source |-> <<sound.length, sound.stamp>>, header |-> None,
                 from |-> None, file |-> None, written |-> 0,
                 beside |-> \E o \in WaveLoads : Waveform!Building(o)]
<1>1. /\ load[l].at = "idle" /\ sound # None /\ load' = [load EXCEPT ![l] = r] /\ answer' = None
      /\ UNCHANGED <<sound, names, data, sounds, alike, crossed>>
    BY DEF Waveform!BeginLoad, Waveform!ghosts
<1>2. sound = sounds[Len(sounds)] /\ sound.mark = Len(sounds) /\ sound \in SoundFiles
    BY <1>1 DEF WaveInv, WaveFacts, WaveShapes
<1>3. <<sound.length, sound.stamp>> \in SoundSources /\ sound.mark \in Nat
    BY <1>2 DEF SoundFiles, SoundSources
<1>4. r \in LoadRecords /\ r.at = "header"
    BY <1>3 DEF LoadRecords, LoadStages
<1>5. Follows(r, sounds, Len(data))
    <2>1. Len(sounds) \in 1..Len(sounds)
        BY DEF WaveInv, WaveFacts, WaveShapes
    <2> QED BY <1>2, <2>1 DEF Follows
<1>6. ~r.beside => Undisturbed(l, r)
    BY DEF Undisturbed
<1>7. ~Waveform!Building(l)
    BY <1>1 DEF Waveform!Building
<1> HIDE DEF r
<1>8. WaveFacts'
    BY <1>1, <1>4, <1>5, <1>6, <1>7, QuietKeeps DEF WaveInv
<1> QED BY <1>1, <1>8 DEF WaveInv, AnswerKnown, Waveform!AnswerWhole

\* A load that finds the cache of its audio file reads it.
LEMMA CheckKeeps ==
    ASSUME WaveAssumption, WaveInv, NEW l \in WaveLoads, Waveform!CheckHeader(l)
    PROVE  WaveInv'
<1> DEFINE q == load[l]
           r == IF Waveform!Fresh(Waveform!CacheHeader, q.source)
                THEN [q EXCEPT !.at = "read", !.header = Waveform!CacheHeader]
                ELSE [q EXCEPT !.at = "open"]
<1>1. /\ q.at = "header" /\ load' = [load EXCEPT ![l] = r]
      /\ UNCHANGED <<sound, names, data, answer, sounds, alike, crossed>>
    BY DEF Waveform!CheckHeader, Waveform!ghosts
<1>2. q \in LoadRecords /\ Follows(q, sounds, Len(data)) /\ (~q.beside => Undisturbed(l, q))
    BY <1>1, LoadKnown DEF WaveInv, WaveFacts, LoadsFollow, Alone
<1>3. Waveform!CacheHeader \in CacheHeaders \cup {None} /\ (Waveform!CacheHeader # None =>
      names.cache # None /\ data[names.cache].header = Waveform!CacheHeader)
    <2>1. names.cache # None => data[names.cache] \in CacheFiles
        BY DEF WaveInv, WaveFacts, WaveShapes
    <2> QED BY <2>1 DEF Waveform!CacheHeader, CacheFiles
<1> HIDE DEF q
<1>4. /\ r \in LoadRecords /\ r.at \in {"read", "open"}
      /\ r.mark = q.mark /\ r.source = q.source /\ r.beside = q.beside /\ r.written = q.written
      /\ r.at = "read" => Waveform!Fresh(Waveform!CacheHeader, r.source) /\ r.header = Waveform!CacheHeader
    BY <1>2, <1>3 DEF LoadRecords, LoadStages
<1> HIDE DEF r
<1>5. Follows(r, sounds, Len(data))
    BY <1>1, <1>2, <1>4 DEF Follows
<1>6. ~r.beside => Undisturbed(l, r)
    BY <1>2, <1>3, <1>4 DEF Undisturbed, Waveform!Fresh
<1>7. ~Waveform!Building(l)
    BY <1>1 DEF Waveform!Building, q
<1>8. WaveFacts'
    BY <1>1, <1>4, <1>5, <1>6, <1>7, QuietKeeps DEF WaveInv
<1> QED BY <1>1, <1>8 DEF WaveInv, AnswerKnown, Waveform!AnswerWhole

\* The audio file may be another one than the load began with: it is later, never earlier.
LEMMA OpeningKeeps ==
    ASSUME WaveAssumption, WaveInv, NEW l \in WaveLoads, Waveform!OpenAudio(l)
    PROVE  WaveInv'
<1> DEFINE q == load[l]
<1>1. q.at = "open" /\ UNCHANGED <<sound, names, data, sounds, alike, crossed>>
    BY DEF Waveform!OpenAudio, Waveform!ghosts
<1>2. q \in LoadRecords /\ Follows(q, sounds, Len(data)) /\ (~q.beside => Undisturbed(l, q))
    BY <1>1, LoadKnown DEF WaveInv, WaveFacts, LoadsFollow, Alone
<1>3. ~Waveform!Building(l)
    BY <1>1 DEF Waveform!Building
<1>4. CASE sound = None
    <2>1. load' = [load EXCEPT ![l] = Waveform!Idle] /\ answer' = Waveform!Failed(l)
        BY <1>4 DEF Waveform!OpenAudio, Waveform!Returns
    <2>2. WaveFacts'
        BY <1>1, <1>3, <2>1, QuietKeeps DEF WaveInv, Waveform!Idle
    <2>3. answer'.error /\ answer'.missed
        BY <1>4, <2>1 DEF Waveform!Failed
    <2> QED BY <2>2, <2>3 DEF WaveInv, AnswerKnown, Waveform!AnswerWhole
<1>5. CASE sound # None
    <2> DEFINE r == [q EXCEPT !.at = "create", !.from = sound,
                              !.header = Waveform!HeaderOf(q.source, sound.length)]
    <2>1. load' = [load EXCEPT ![l] = r] /\ answer' = answer
        BY <1>5 DEF Waveform!OpenAudio
    <2>2. /\ sound = sounds[Len(sounds)] /\ sound.mark = Len(sounds) /\ sound \in SoundFiles
          /\ Len(sounds) \in Nat
        BY <1>5 DEF WaveInv, WaveFacts, WaveShapes
    <2>3. Waveform!HeaderOf(q.source, sound.length) \in CacheHeaders
        BY <1>2, <2>2, BucketsAre DEF LoadRecords, SoundFiles
    <2> HIDE DEF q
    <2>4. /\ r \in LoadRecords /\ r.at = "create"
          /\ r.mark = q.mark /\ r.source = q.source /\ r.beside = q.beside /\ r.written = q.written
          /\ r.from = sound /\ r.header = Waveform!HeaderOf(q.source, sound.length)
        BY <1>2, <2>2, <2>3 DEF LoadRecords, LoadStages
    <2> HIDE DEF r
    <2>5. Follows(r, sounds, Len(data))
        <3>1. r.from.mark \in r.mark..Len(sounds) /\ r.from # None
            BY <1>2, <2>2, <2>4, <1>5 DEF Follows
        <3> QED BY <1>1, <1>2, <2>2, <2>4, <3>1 DEF Follows
    <2>6. ~r.beside => Undisturbed(l, r)
        BY <1>2, <2>4 DEF Undisturbed
    <2>7. WaveFacts'
        BY <1>1, <1>3, <2>1, <2>4, <2>5, <2>6, QuietKeeps DEF WaveInv
    <2> QED BY <1>1, <2>1, <2>7 DEF WaveInv, AnswerKnown, Waveform!AnswerWhole
<1> QED BY <1>4, <1>5

\* A load that builds without another beside it is the only one that is not disturbed.
LEMMA OthersDisturbed ==
    ASSUME WaveFacts, NEW l \in WaveLoads, Waveform!Building(l),
           NEW o \in WaveLoads \ {l}, load[o].at # "idle"
    PROVE  load[o].beside
BY DEF WaveFacts, Alone, Undisturbed

\* The cache goes before the part takes its name.
LEMMA RemoveKeeps ==
    ASSUME WaveAssumption, WaveInv, NEW l \in WaveLoads, Waveform!RemoveCache(l)
    PROVE  WaveInv'
<1> DEFINE q == load[l]
           r == [q EXCEPT !.at = "rename"]
<1>1. /\ q.at = "remove" /\ load' = [load EXCEPT ![l] = r] /\ names' = [names EXCEPT !.cache = None]
      /\ UNCHANGED <<sound, data, answer, sounds, alike, crossed>>
    BY DEF Waveform!RemoveCache, Waveform!Step, Waveform!ghosts
<1>2. q \in LoadRecords /\ Follows(q, sounds, Len(data)) /\ (~q.beside => Undisturbed(l, q))
    BY <1>1, LoadKnown DEF WaveInv, WaveFacts, LoadsFollow, Alone
<1>3. Waveform!Building(l)
    BY <1>1 DEF Waveform!Building
<1>4. /\ r \in LoadRecords /\ r.at = "rename" /\ r.mark = q.mark /\ r.source = q.source
      /\ r.beside = q.beside /\ r.written = q.written /\ r.from = q.from /\ r.header = q.header
      /\ r.file = q.file
    <2> HIDE DEF q
    <2> QED BY <1>2 DEF LoadRecords, LoadStages
<1>5. load'[l] = r /\ \A o \in WaveLoads \ {l} : load'[o] = load[o]
    BY <1>1 DEF WaveInv, WaveFacts, WaveShapes
<1>6. names' = [cache |-> None, part |-> names.part]
    BY <1>1 DEF WaveInv, WaveFacts, WaveShapes
<1> HIDE DEF r
<1>7. WaveShapes'
    BY <1>1, <1>4, <1>6 DEF WaveInv, WaveFacts, WaveShapes
<1>8. SoundsDiffer'
    BY <1>1 DEF WaveInv, WaveFacts, SoundsDiffer
<1>9. Follows(r, sounds, Len(data))
    BY <1>1, <1>2, <1>4 DEF Follows
<1>10. LoadsFollow'
    BY <1>1, <1>5, <1>9 DEF WaveInv, WaveFacts, LoadsFollow
<1>11. \A o \in WaveLoads : /\ Waveform!Building(o)' <=> Waveform!Building(o)
                            /\ load'[o].file = load[o].file /\ load'[o].from = load[o].from
    BY <1>1, <1>4, <1>5 DEF Waveform!Building
<1>12. PartIsBuilt'
    BY <1>6, <1>11 DEF WaveInv, WaveFacts, PartIsBuilt
<1>13. OneSound'
    BY <1>1, <1>11 DEF WaveInv, WaveFacts, OneSound
<1>14. FilesWhole'
    <2>1. \A f, i : Pending(f, i) => Pending(f, i)'
        BY <1>1, <1>5 DEF Pending
    <2>2. ASSUME NEW f \in {names.cache, names.part}, f # None, NEW m \in 1..Len(sounds), OfSound(f, m)
          PROVE  OfSound(f, m)'
        BY <1>1, <1>11, <2>1, <2>2, FileStays DEF WaveInv, WaveFacts
    <2> QED BY <1>1, <1>6, <2>2 DEF WaveInv, WaveFacts, FilesWhole
<1>15. Alone'
    <2>1. ASSUME NEW o \in WaveLoads, load'[o].at # "idle", ~load'[o].beside
          PROVE  Undisturbed(o, load[o])'
        <3>1. o = l
            BY <1>3, <1>5, <2>1, OthersDisturbed DEF WaveInv
        <3>2. Undisturbed(l, q) /\ q.at \in {"write", "remove", "rename"} /\ q.at # "write" /\ q.at # "read"
            BY <1>1, <1>2, <1>4, <1>5, <2>1, <3>1
        <3>3. \A k \in WaveLoads \ {l} : ~Waveform!Building(k)'
            BY <1>11, <3>2 DEF Undisturbed
        <3> QED BY <1>1, <1>4, <1>5, <1>6, <3>1, <3>2, <3>3 DEF Undisturbed
    <2> QED BY <2>1 DEF Alone
<1>16. AnswerKnown' /\ Waveform!AnswerWhole'
    BY <1>1 DEF WaveInv, AnswerKnown, Waveform!AnswerWhole
<1> QED BY <1>7, <1>8, <1>10, <1>12, <1>13, <1>14, <1>15, <1>16 DEF WaveInv, WaveFacts

\* A load ends that builds, or all do; the part goes, and the cache may.
LEMMA EndsKeeps ==
    ASSUME WaveAssumption, WaveFacts, NEW L \in SUBSET WaveLoads,
           load' \in [WaveLoads -> {Waveform!Idle} \cup LoadRecords],
           \A o \in WaveLoads \ L : load'[o] = load[o],
           \A o \in L : /\ ~Waveform!Building(o)'
                        /\ load'[o].at # "idle" => Follows(load'[o], sounds, Len(data)),
           \A o \in WaveLoads : load'[o].at # "idle" /\ ~load'[o].beside => Undisturbed(o, load[o])',
           names' \in [cache : {None, names.cache, names.part}, part : {None, names.part}],
           names'.part # None => names'.cache # names.part /\ PartIsBuilt',
           ~crossed' => /\ ~crossed
                        /\ \A o \in L : load[o].at = "write" => load[o].file # names'.cache,
           names'.part = None \/ \A o \in L : load[o].at # "write",
           crossed' \in BOOLEAN, UNCHANGED <<sound, data, sounds, alike>>
    PROVE  WaveFacts'
<1>1. WaveShapes'
    BY DEF WaveFacts, WaveShapes
<1>2. SoundsDiffer'
    BY DEF WaveFacts, SoundsDiffer
<1>3. LoadsFollow'
    BY DEF WaveFacts, LoadsFollow
<1>4. PartIsBuilt'
    BY DEF PartIsBuilt
<1>5. \A o \in WaveLoads : Waveform!Building(o)' => Waveform!Building(o) /\ load'[o] = load[o]
    BY DEF Waveform!Building
<1>6. OneSound'
    BY <1>5 DEF WaveFacts, OneSound
<1>7. FilesWhole'
    <2>1. SUFFICES ASSUME ~crossed', NEW f \in {names'.cache, names'.part}, f # None
                   PROVE  \E m \in 1..Len(sounds') : OfSound(f, m)'
        BY DEF FilesWhole
    <2>2. f \in {names.cache, names.part}
        <3>1. names'.cache \in {None, names.cache, names.part} /\ names'.part \in {None, names.part}
            OBVIOUS
        <3> QED BY <2>1, <3>1
    <2>3. PICK m \in 1..Len(sounds) : OfSound(f, m)
        BY <2>1, <2>2 DEF WaveFacts, FilesWhole
    <2>4. \A o \in L : load[o].at = "write" => load[o].file # f
        BY <2>1
    <2>5. \A i : Pending(f, i) => Pending(f, i)'
        BY <2>4 DEF Pending
    <2>6. OfSound(f, m)'
        BY <1>5, <2>3, <2>5, FileStays DEF WaveFacts
    <2> QED BY <2>6
<1>8. Alone'
    BY DEF Alone
<1> QED BY <1>1, <1>2, <1>3, <1>4, <1>6, <1>7, <1>8 DEF WaveFacts

\* A write fails: the name of the part goes, whoever else writes there.
LEMMA WriteFailsKeeps ==
    ASSUME WaveAssumption, WaveInv, NEW l \in WaveLoads, Waveform!WriteFails(l)
    PROVE  WaveInv'
<1>1. /\ load[l].at = "write" /\ names' = [names EXCEPT !.part = None]
      /\ load' = [load EXCEPT ![l] = Waveform!Idle] /\ answer' = None
      /\ crossed' = (crossed \/ load[l].file = names.cache)
      /\ UNCHANGED <<sound, data, sounds, alike>>
    BY DEF Waveform!WriteFails
<1>2. Waveform!Building(l)
    BY <1>1 DEF Waveform!Building
<1>3. load' \in [WaveLoads -> {Waveform!Idle} \cup LoadRecords] /\ load'[l] = Waveform!Idle
      /\ \A o \in WaveLoads \ {l} : load'[o] = load[o]
    BY <1>1 DEF WaveInv, WaveFacts, WaveShapes
<1>4. names' \in [cache : {None, names.cache, names.part}, part : {None, names.part}]
      /\ names'.part = None /\ names'.cache = names.cache
    BY <1>1 DEF WaveInv, WaveFacts, WaveShapes
<1>5. ~Waveform!Building(l)' /\ load'[l].at = "idle"
    BY <1>3 DEF Waveform!Building, Waveform!Idle
<1>6. ASSUME NEW o \in WaveLoads, load'[o].at # "idle", ~load'[o].beside PROVE Undisturbed(o, load[o])'
    BY <1>2, <1>3, <1>5, <1>6, OthersDisturbed DEF WaveInv
<1>7. crossed' \in BOOLEAN /\ (~crossed' => ~crossed /\ load[l].file # names.cache)
    BY <1>1 DEF WaveInv, WaveFacts, WaveShapes
<1>8. WaveFacts'
    <2> DEFINE L == {l}
    <2>1. /\ L \in SUBSET WaveLoads /\ \A o \in WaveLoads \ L : load'[o] = load[o]
          /\ \A o \in L : ~Waveform!Building(o)' /\ load'[o].at = "idle"
          /\ \A o \in L : load[o].file = load[l].file
        BY <1>3, <1>5
    <2> HIDE DEF L
    <2> QED BY <1>1, <1>3, <1>4, <1>6, <1>7, <2>1, EndsKeeps DEF WaveInv
<1> QED BY <1>1, <1>8 DEF WaveInv, AnswerKnown, Waveform!AnswerWhole

\* All loads end with the process.
LEMMA QuitKeeps ==
    ASSUME WaveAssumption, WaveInv, Waveform!Quit
    PROVE  WaveInv'
<1>1. /\ load' = [o \in WaveLoads |-> Waveform!Idle] /\ names' = [names EXCEPT !.part = None]
      /\ crossed' = (crossed \/ \E l \in WaveLoads : Waveform!Building(l) /\ load[l].file = names.cache)
      /\ UNCHANGED <<sound, data, answer, sounds, alike>>
    BY DEF Waveform!Quit
<1>2. /\ load' \in [WaveLoads -> {Waveform!Idle} \cup LoadRecords]
      /\ \A o \in WaveLoads : ~Waveform!Building(o)' /\ load'[o].at = "idle"
    BY <1>1 DEF Waveform!Building, Waveform!Idle
<1>3. names' \in [cache : {None, names.cache, names.part}, part : {None, names.part}]
      /\ names'.part = None /\ names'.cache = names.cache
    BY <1>1 DEF WaveInv, WaveFacts, WaveShapes
<1>4. ~crossed' => ~crossed /\ \A l \in WaveLoads : load[l].at = "write" => load[l].file # names.cache
    BY <1>1 DEF Waveform!Building
<1>5. crossed' \in BOOLEAN
    BY <1>1 DEF WaveInv, WaveFacts, WaveShapes
<1>6. WaveFacts'
    <2> DEFINE L == WaveLoads
    <2>1. L \in SUBSET WaveLoads /\ WaveLoads \ L = {}
        OBVIOUS
    <2> QED BY <1>1, <1>2, <1>3, <1>4, <1>5, <2>1, EndsKeeps DEF WaveInv
<1> QED BY <1>1, <1>6 DEF WaveInv, AnswerKnown, Waveform!AnswerWhole

\* The part becomes the cache: the one of this load, unless another builds beside it.
LEMMA RenameKeeps ==
    ASSUME WaveAssumption, WaveInv, NEW l \in WaveLoads, Waveform!RenamePart(l)
    PROVE  WaveInv'
<1> DEFINE q == load[l]
<1>1. q.at = "rename" /\ UNCHANGED <<sound, data, sounds, alike, crossed>>
    BY DEF Waveform!RenamePart, Waveform!ghosts
<1>2. q \in LoadRecords /\ Follows(q, sounds, Len(data)) /\ (~q.beside => Undisturbed(l, q))
    BY <1>1, LoadKnown DEF WaveInv, WaveFacts, LoadsFollow, Alone
<1>3. Waveform!Building(l)
    BY <1>1 DEF Waveform!Building
<1> DEFINE L == {l}
<1>4. CASE names.part = None
    <2>1. load' = [load EXCEPT ![l] = Waveform!Idle] /\ answer' = Waveform!Failed(l) /\ names' = names
        BY <1>4 DEF Waveform!RenamePart, Waveform!Returns
    <2>2. /\ load' \in [WaveLoads -> {Waveform!Idle} \cup LoadRecords] /\ load'[l] = Waveform!Idle
          /\ \A o \in WaveLoads \ {l} : load'[o] = load[o]
        BY <2>1 DEF WaveInv, WaveFacts, WaveShapes
    <2>3. ~Waveform!Building(l)' /\ load'[l].at = "idle"
        BY <2>2 DEF Waveform!Building, Waveform!Idle
    <2>4. ASSUME NEW o \in WaveLoads, load'[o].at # "idle", ~load'[o].beside PROVE Undisturbed(o, load[o])'
        BY <1>3, <2>2, <2>3, <2>4, OthersDisturbed DEF WaveInv
    <2>5. names' \in [cache : {None, names.cache, names.part}, part : {None, names.part}]
          /\ names'.part = None
        BY <1>4, <2>1 DEF WaveInv, WaveFacts, WaveShapes
    <2>6. /\ L \in SUBSET WaveLoads /\ \A o \in WaveLoads \ L : load'[o] = load[o]
          /\ \A o \in L : ~Waveform!Building(o)' /\ load'[o].at = "idle" /\ load[o].at # "write"
        BY <1>1, <2>2, <2>3
    <2>7. crossed' \in BOOLEAN
        BY <1>1 DEF WaveInv, WaveFacts, WaveShapes
    <2>8. WaveFacts'
        <3> HIDE DEF L, q
        <3> QED BY <1>1, <2>2, <2>4, <2>5, <2>6, <2>7, EndsKeeps DEF WaveInv
    <2>9. q.beside
        <3>1. ~q.beside => names.part = q.file /\ q.file \in 1..Len(data)
            BY <1>1, <1>2 DEF Undisturbed, Follows
        <3>2. \A n \in 1..Len(data) : n # None
            BY DEF WaveAssumption
        <3> QED BY <1>4, <3>1, <3>2
    <2>10. answer'.beside = q.beside
        BY <2>1 DEF Waveform!Failed
    <2> QED BY <2>8, <2>9, <2>10 DEF WaveInv, AnswerKnown, Waveform!AnswerWhole
<1>5. CASE names.part # None
    <2> DEFINE r == [q EXCEPT !.at = "read"]
    <2>1. load' = [load EXCEPT ![l] = r] /\ answer' = answer /\ names' = [cache |-> names.part, part |-> None]
        BY <1>5 DEF Waveform!RenamePart, Waveform!Step
    <2>2. /\ r \in LoadRecords /\ r.at = "read" /\ r.mark = q.mark /\ r.source = q.source
          /\ r.beside = q.beside /\ r.header = q.header
        <3> HIDE DEF q
        <3> QED BY <1>2 DEF LoadRecords, LoadStages
    <2>3. /\ load' \in [WaveLoads -> {Waveform!Idle} \cup LoadRecords] /\ load'[l] = r
          /\ \A o \in WaveLoads \ {l} : load'[o] = load[o]
        <3> HIDE DEF r
        <3> QED BY <2>1, <2>2 DEF WaveInv, WaveFacts, WaveShapes
    <2> HIDE DEF r
    <2>4. ~Waveform!Building(l)' /\ Follows(r, sounds, Len(data))
        BY <1>1, <1>2, <2>2, <2>3 DEF Waveform!Building, Follows
    <2>5. ASSUME NEW o \in WaveLoads, load'[o].at # "idle", ~load'[o].beside PROVE Undisturbed(o, load[o])'
        <3>1. o = l
            BY <1>3, <2>3, <2>5, OthersDisturbed DEF WaveInv
        <3>2. Undisturbed(l, q)
            BY <1>2, <2>2, <2>3, <2>5, <3>1
        <3>3. \A k \in WaveLoads \ {l} : ~Waveform!Building(k)'
            BY <2>3, <3>2 DEF Undisturbed, Waveform!Building
        <3>4. names.part = q.file /\ data[q.file].header = q.header
            BY <1>1, <3>2 DEF Undisturbed
        <3>5. q.header.source = q.source /\ q.header # None
            <4>1. q.from # None /\ q.header = Waveform!HeaderOf(q.source, q.from.length)
                BY <1>1, <1>2 DEF Follows
            <4>2. q.from \in SoundFiles /\ q.source \in SoundSources
                BY <1>2, <4>1 DEF LoadRecords
            <4>3. q.from.length \in Lengths
                BY <4>2 DEF SoundFiles
            <4>4. q.header \in CacheHeaders /\ q.header.source = q.source
                BY <4>1, <4>2, <4>3, BucketsAre
            <4>5. \A h \in CacheHeaders : h # None
                BY DEF WaveAssumption
            <4> QED BY <4>4, <4>5
        <3>6. names'.cache = names.part
            BY <2>1
        <3> QED BY <1>1, <1>5, <2>2, <2>3, <3>1, <3>3, <3>4, <3>5, <3>6 DEF Undisturbed
    <2>6. names' \in [cache : {None, names.cache, names.part}, part : {None, names.part}]
          /\ names'.part = None
        BY <2>1
    <2>7. /\ L \in SUBSET WaveLoads /\ \A o \in WaveLoads \ L : load'[o] = load[o]
          /\ \A o \in L : /\ ~Waveform!Building(o)' /\ load[o].at # "write"
                          /\ Follows(load'[o], sounds, Len(data))
        BY <1>1, <2>3, <2>4
    <2>8. crossed' \in BOOLEAN
        BY <1>1 DEF WaveInv, WaveFacts, WaveShapes
    <2>9. WaveFacts'
        <3> HIDE DEF L, q
        <3> QED BY <1>1, <2>3, <2>5, <2>6, <2>7, <2>8, EndsKeeps DEF WaveInv
    <2> QED BY <1>1, <2>1, <2>9 DEF WaveInv, AnswerKnown, Waveform!AnswerWhole
<1> QED BY <1>4, <1>5

\* A part is made, or emptied: all others that are under way are then disturbed.
LEMMA PartIsBegun ==
    ASSUME WaveAssumption, WaveInv, NEW l \in WaveLoads, Waveform!CreatePart(l)
    PROVE  WaveInv'
<1> DEFINE q == load[l]
           file == IF names.part = None THEN Len(data) + 1 ELSE names.part
           blank == [header |-> None, buckets |-> <<>>]
           r == [q EXCEPT !.at = "write", !.file = file,
                          !.beside = @ \/ \E k \in WaveLoads \ {l} : Waveform!Building(k)]
           other(o) == [load[o] EXCEPT !.beside = TRUE]
<1>1. /\ q.at = "create"
      /\ data' = IF file > Len(data) THEN Append(data, blank) ELSE [data EXCEPT ![file] = blank]
      /\ names' = [names EXCEPT !.part = file]
      /\ load' = [o \in WaveLoads |-> IF o = l THEN r
                                      ELSE IF load[o].at = "idle" THEN load[o] ELSE other(o)]
      /\ crossed' = (crossed \/ \E o \in WaveLoads \ {l} :
                        Waveform!Building(o) /\ load[o].from.mark # load[l].from.mark)
      /\ UNCHANGED <<sound, answer, sounds, alike>>
    BY DEF Waveform!CreatePart
<1>2. q \in LoadRecords /\ Follows(q, sounds, Len(data)) /\ (~q.beside => Undisturbed(l, q))
    BY <1>1, LoadKnown DEF WaveInv, WaveFacts, LoadsFollow, Alone
<1>3. ~Waveform!Building(l)
    BY <1>1 DEF Waveform!Building
<1>4. /\ file \in Nat \ {0} /\ file # None /\ file # names.cache
      /\ Len(data) \in Nat /\ file \in 1..Len(data) + 1
    <2>1. Len(data) \in Nat /\ Len(data) + 1 \in Nat \ {0}
        BY DEF WaveInv, WaveFacts, WaveShapes
    <2>2. names.part # None => names.part \in 1..Len(data) /\ names.part # names.cache
        BY DEF WaveInv, WaveFacts, WaveShapes
    <2>3. names.cache # None => names.cache \in 1..Len(data)
        BY DEF WaveInv, WaveFacts, WaveShapes
    <2>4. \A n \in Nat : n # None
        BY DEF WaveAssumption
    <2>5. CASE names.part = None
        BY <2>1, <2>3, <2>4, <2>5
    <2>6. CASE names.part # None
        BY <2>1, <2>2, <2>4, <2>6
    <2> QED BY <2>5, <2>6
<1>5. /\ data' \in Seq(CacheFiles) /\ Len(data') >= Len(data) /\ Len(data') \in Nat
      /\ file \in 1..Len(data') /\ data'[file] = blank
      /\ \A f \in 1..Len(data) : f # file => data'[f] = data[f]
    <2>1. blank \in CacheFiles
        BY DEF CacheFiles
    <2>2. data \in Seq(CacheFiles)
        BY DEF WaveInv, WaveFacts, WaveShapes
    <2>0. data' = IF file > Len(data) THEN Append(data, blank) ELSE [data EXCEPT ![file] = blank]
        BY <1>1
    <2> HIDE DEF blank, file
    <2>3. CASE file > Len(data)
        <3>1. data' = Append(data, blank) /\ file = Len(data) + 1
            BY <1>4, <2>0, <2>3
        <3> QED BY <1>4, <2>1, <2>2, <3>1
    <2>4. CASE ~(file > Len(data))
        <3>1. data' = [data EXCEPT ![file] = blank] /\ file \in 1..Len(data)
            BY <1>4, <2>0, <2>4
        <3>2. data' \in Seq(CacheFiles) /\ Len(data') = Len(data)
            BY <2>1, <2>2, <3>1
        <3>3. data'[file] = blank /\ \A f \in 1..Len(data) : f # file => data'[f] = data[f]
            BY <2>2, <3>1
        <3> QED BY <1>4, <3>1, <3>2, <3>3
    <2> QED BY <2>3, <2>4
<1>6. /\ r \in LoadRecords /\ r.at = "write" /\ r.mark = q.mark /\ r.source = q.source
      /\ r.from = q.from /\ r.header = q.header /\ r.file = file /\ r.written = q.written
      /\ r.beside = (q.beside \/ \E k \in WaveLoads \ {l} : Waveform!Building(k))
    <2> DEFINE b == q.beside \/ \E k \in WaveLoads \ {l} : Waveform!Building(k)
               f == file
    <2>1. r = [q EXCEPT !.at = "write", !.file = f, !.beside = b] /\ f \in Nat
        BY <1>4
    <2>2. b \in BOOLEAN
        BY <1>2 DEF LoadRecords
    <2> HIDE DEF q, b, f, r
    <2>3. /\ r \in LoadRecords /\ r.at = "write" /\ r.mark = q.mark /\ r.source = q.source
          /\ r.from = q.from /\ r.header = q.header /\ r.file = f /\ r.written = q.written
          /\ r.beside = b
        BY <1>2, <2>1, <2>2 DEF LoadRecords, LoadStages
    <2> QED BY <2>3 DEF b, f
<1>7. ASSUME NEW o \in WaveLoads, load[o].at # "idle"
      PROVE  /\ other(o) \in LoadRecords /\ other(o).at = load[o].at /\ other(o).mark = load[o].mark
             /\ other(o).source = load[o].source /\ other(o).from = load[o].from
             /\ other(o).header = load[o].header /\ other(o).file = load[o].file
             /\ other(o).written = load[o].written /\ other(o).beside = TRUE
    <2>1. load[o] \in LoadRecords
        BY <1>7, LoadKnown DEF WaveInv, WaveFacts
    <2> DEFINE p == load[o]
    <2> HIDE DEF p
    <2>2. p \in LoadRecords
        BY <2>1 DEF p
    <2>3. /\ [p EXCEPT !.beside = TRUE] \in LoadRecords
          /\ [p EXCEPT !.beside = TRUE].at = p.at /\ [p EXCEPT !.beside = TRUE].mark = p.mark
          /\ [p EXCEPT !.beside = TRUE].source = p.source /\ [p EXCEPT !.beside = TRUE].from = p.from
          /\ [p EXCEPT !.beside = TRUE].header = p.header /\ [p EXCEPT !.beside = TRUE].file = p.file
          /\ [p EXCEPT !.beside = TRUE].written = p.written /\ [p EXCEPT !.beside = TRUE].beside = TRUE
        BY <2>2 DEF LoadRecords
    <2> QED BY <2>3 DEF p
<1> HIDE DEF r, other, file
<1>8. load'[l] = r /\ \A o \in WaveLoads \ {l} : load'[o] = IF load[o].at = "idle" THEN load[o] ELSE other(o)
    BY <1>1
<1>9. \A o \in WaveLoads \ {l} : /\ load'[o].at = load[o].at
                                 /\ load[o].at # "idle" => /\ load'[o].from = load[o].from
                                                           /\ load'[o].file = load[o].file
                                                           /\ load'[o].written = load[o].written
                                                           /\ load'[o].mark = load[o].mark
                                                           /\ load'[o].source = load[o].source
                                                           /\ load'[o].header = load[o].header
                                                           /\ load'[o].beside = TRUE
    <2> TAKE o \in WaveLoads \ {l}
    <2>1. CASE load[o].at = "idle"
        BY <1>8, <2>1
    <2>2. CASE load[o].at # "idle"
        <3>1. load'[o] = other(o)
            BY <1>8, <2>2
        <3> QED BY <1>7, <2>2, <3>1
    <2> QED BY <2>1, <2>2
<1>10. names' = [cache |-> names.cache, part |-> file]
    BY <1>1 DEF WaveInv, WaveFacts, WaveShapes
<1>11. WaveShapes'
    <2>1. load' \in [WaveLoads -> {Waveform!Idle} \cup LoadRecords]
        <3>1. \A o \in WaveLoads \ {l} : load'[o] \in {Waveform!Idle} \cup LoadRecords
            BY <1>7, <1>8 DEF WaveInv, WaveFacts, WaveShapes
        <3>2. load'[l] \in LoadRecords
            BY <1>6, <1>8
        <3>3. load' = [o \in WaveLoads |-> load'[o]]
            BY <1>1
        <3> QED BY <3>1, <3>2, <3>3
    <2>2. /\ names' \in [cache : Nat \cup {None}, part : Nat \cup {None}]
          /\ names'.part \in 1..Len(data') /\ names'.part # names'.cache
          /\ names'.cache # None => names'.cache \in 1..Len(data')
        BY <1>4, <1>5, <1>10 DEF WaveInv, WaveFacts, WaveShapes
    <2>3. crossed' \in BOOLEAN
        BY <1>1 DEF WaveInv, WaveFacts, WaveShapes
    <2> QED BY <1>1, <1>5, <2>1, <2>2, <2>3 DEF WaveInv, WaveFacts, WaveShapes
<1>12. SoundsDiffer'
    BY <1>1 DEF WaveInv, WaveFacts, SoundsDiffer
<1>13. LoadsFollow'
    <2>1. Follows(r, sounds', Len(data'))
        <3>1. r.from # None /\ r.from.mark \in r.mark..Len(sounds) /\ r.from = sounds[r.from.mark]
              /\ r.header = Waveform!HeaderOf(r.source, r.from.length) /\ r.written = 0
              /\ r.mark \in 1..Len(sounds) /\ r.source = <<sounds[r.mark].length, sounds[r.mark].stamp>>
            BY <1>1, <1>2, <1>6 DEF Follows
        <3>2. r.header \in CacheHeaders
            <4>1. r.from \in SoundFiles /\ r.source \in SoundSources
                BY <1>6, <3>1 DEF LoadRecords
            <4> QED BY <3>1, <4>1, BucketsAre DEF SoundFiles
        <3>3. r.written \in 0..r.header.count
            BY <3>1, <3>2 DEF CacheHeaders
        <3> QED BY <1>1, <1>5, <1>6, <3>1, <3>3 DEF Follows
    <2>2. ASSUME NEW o \in WaveLoads \ {l}, load'[o].at # "idle"
          PROVE  Follows(load'[o], sounds', Len(data'))
        <3>1. Follows(load[o], sounds, Len(data)) /\ load[o].at # "idle"
            BY <1>9, <2>2 DEF WaveInv, WaveFacts, LoadsFollow
        <3>2. /\ load'[o].at = load[o].at /\ load'[o].from = load[o].from
              /\ load'[o].file = load[o].file /\ load'[o].written = load[o].written
              /\ load'[o].mark = load[o].mark /\ load'[o].source = load[o].source
              /\ load'[o].header = load[o].header
            BY <1>9, <3>1
        <3>3. Follows(load[o], sounds, Len(data'))
            <4>1. \A f \in 1..Len(data) : f \in 1..Len(data')
                BY <1>4, <1>5
            <4> QED BY <3>1, <4>1 DEF Follows
        <3>4. Follows(load'[o], sounds, Len(data'))
            BY <3>2, <3>3 DEF Follows
        <3> QED BY <1>1, <3>4
    <2> QED BY <1>8, <2>1, <2>2 DEF LoadsFollow
<1>14. Waveform!Building(l)' /\ load'[l].file = file /\ load'[l].from = q.from /\ load'[l].written = 0
    BY <1>1, <1>2, <1>6, <1>8 DEF Waveform!Building, Follows
<1>15. \A o \in WaveLoads \ {l} : Waveform!Building(o)' <=> Waveform!Building(o)
    BY <1>9 DEF Waveform!Building
<1>16. PartIsBuilt'
    BY <1>10, <1>14 DEF PartIsBuilt
<1>17. ASSUME ~crossed'
       PROVE  ~crossed /\ \A o \in WaveLoads : Waveform!Building(o)' => load'[o].from.mark = q.from.mark
    <2>1. ~crossed /\ \A o \in WaveLoads \ {l} : Waveform!Building(o) => load[o].from.mark = q.from.mark
        BY <1>1, <1>17
    <2>2. \A o \in WaveLoads \ {l} : Waveform!Building(o) => load[o].at # "idle"
        BY DEF Waveform!Building
    <2>3. \A o \in WaveLoads \ {l} : Waveform!Building(o)' => load'[o].from.mark = q.from.mark
        BY <1>9, <1>15, <2>1, <2>2
    <2> QED BY <1>14, <2>1, <2>3
<1>18. OneSound'
    BY <1>17 DEF OneSound
<1>19. FilesWhole'
    <2>1. SUFFICES ASSUME ~crossed', NEW f \in {names'.cache, names'.part}, f # None
                   PROVE  \E m \in 1..Len(sounds') : OfSound(f, m)'
        BY DEF FilesWhole
    <2>2. CASE f = file
        <3>0. q.from.mark \in 1..Len(sounds)
            BY <1>1, <1>2 DEF Follows, WaveInv, WaveFacts, WaveShapes
        <3>1. PICK m \in 1..Len(sounds) : m = q.from.mark /\ sounds[m] \in SoundFiles
            BY <3>0 DEF WaveInv, WaveFacts, WaveShapes
        <3>2. BucketsOf(sounds[m].length) \in Nat
            BY <3>1, BucketsAre DEF SoundFiles
        <3>3. data'[f].header = None /\ Len(data'[f].buckets) = 0
            BY <1>5, <2>2
        <3>4. \A i \in Nat : Pending(f, i)'
            BY <1>6, <1>8, <1>14, <2>2 DEF Pending
        <3>5. HeaderFits(data'[f].header, m, sounds')
            BY <3>3 DEF HeaderFits
        <3>6. \A o \in WaveLoads : Waveform!Building(o)' => load'[o].from.mark = m
            BY <1>17, <2>1, <3>1
        <3>7. \A i \in 1..BucketsOf(sounds'[m].length) : Pending(f, i)'
            BY <1>1, <3>2, <3>4
        <3>8. (Len(data[f].buckets) <= BucketsOf(sounds[m].length))'
            <4>1. sounds' = sounds
                BY <1>1
            <4>2. \A n \in Nat : 0 <= n
                OBVIOUS
            <4> QED BY <3>2, <3>3, <4>1, <4>2
        <3>9. OfSound(f, m)'
            BY <3>5, <3>6, <3>7, <3>8 DEF OfSound
        <3>10. m \in 1..Len(sounds')
            BY <1>1, <3>1
        <3> QED BY <3>9, <3>10
    <2>3. CASE f # file
        <3>1. f = names.cache /\ f \in 1..Len(data)
            BY <1>10, <2>1, <2>3 DEF WaveInv, WaveFacts, WaveShapes
        <3>2. PICK m \in 1..Len(sounds) : OfSound(f, m)
            BY <1>17, <2>1, <3>1 DEF WaveInv, WaveFacts, FilesWhole
        <3>3. data'[f] = data[f]
            BY <1>5, <2>3, <3>1
        <3>4. \A i : Pending(f, i) => Pending(f, i)'
            BY <1>1, <1>9 DEF Pending
        <3>5. \A o \in WaveLoads : Waveform!Building(o)' /\ load'[o].file = f =>
                  Waveform!Building(o) /\ load[o].file = f /\ load'[o].from = load[o].from
            BY <1>9, <1>14, <1>15, <2>3 DEF Waveform!Building
        <3>6. OfSound(f, m)'
            BY <1>1, <3>2, <3>3, <3>4, <3>5, FileStays DEF WaveInv, WaveFacts
        <3> QED BY <1>1, <3>2, <3>6
    <2> QED BY <2>2, <2>3
<1>20. Alone'
    <2>1. ASSUME NEW o \in WaveLoads, load'[o].at # "idle", ~load'[o].beside
          PROVE  Undisturbed(o, load[o])'
        <3>1. o = l
            BY <1>9, <2>1
        <3>2. \A k \in WaveLoads \ {l} : ~Waveform!Building(k)'
            BY <1>6, <1>8, <1>15, <2>1, <3>1
        <3>3. load'[l].at = "write" /\ ~(load'[l].written > 0) /\ names'.part = load'[l].file
            BY <1>6, <1>8, <1>10, <1>14
        <3> QED BY <3>1, <3>2, <3>3 DEF Undisturbed
    <2> QED BY <2>1 DEF Alone
<1>21. AnswerKnown' /\ Waveform!AnswerWhole'
    BY <1>1 DEF WaveInv, AnswerKnown, Waveform!AnswerWhole
<1> QED BY <1>11, <1>12, <1>13, <1>16, <1>18, <1>19, <1>20, <1>21 DEF WaveInv, WaveFacts

\* What a write makes of a file.
LEMMA PutFacts ==
    ASSUME WaveAssumption, NEW l \in WaveLoads, load[l] \in LoadRecords, NEW old \in CacheFiles,
           load[l].header \in CacheHeaders, load[l].from \in SoundFiles
    PROVE  LET k == load[l].written  new == Waveform!Put(old, l) IN
           /\ new \in CacheFiles
           /\ k = 0 => new.header = load[l].header /\ new.buckets = old.buckets
           /\ k # 0 => /\ new.header = old.header
                       /\ Len(new.buckets) = IF k >= Len(old.buckets) THEN k ELSE Len(old.buckets)
                       /\ new.buckets[k] = <<load[l].from.mark, k - 1>>
                       /\ \A i \in 1..Len(old.buckets) : i # k => new.buckets[i] = old.buckets[i]
<1> DEFINE k == load[l].written
           new == Waveform!Put(old, l)
           S == (Nat \X Nat) \cup {None}
           item == <<load[l].from.mark, k - 1>>
<1>1. k \in Nat /\ load[l].from.mark \in Nat \ {0}
    BY DEF LoadRecords, SoundFiles
<1>2. old.buckets \in Seq(S) /\ old.header \in CacheHeaders \cup {None}
    BY DEF CacheFiles
<1>3. CASE k = 0
    <2>1. new = [old EXCEPT !.header = load[l].header]
        BY <1>3 DEF Waveform!Put
    <2> DEFINE h == load[l].header
    <2>2. h \in CacheHeaders \cup {None}
        OBVIOUS
    <2> HIDE DEF new, h
    <2>3. new = [old EXCEPT !.header = h]
        BY <2>1 DEF h
    <2>4. new \in CacheFiles /\ new.header = h /\ new.buckets = old.buckets
        BY <2>2, <2>3 DEF CacheFiles
    <2> QED BY <1>3, <2>4 DEF h, new
<1>4. CASE k # 0
    <2> DEFINE n == IF k >= Len(old.buckets) THEN k ELSE Len(old.buckets)
               b == [i \in 1..n |-> IF i = k THEN item
                                    ELSE IF i <= Len(old.buckets) THEN old.buckets[i] ELSE None]
    <2>1. Len(old.buckets) \in Nat
        BY <1>2
    <2>2. Waveform!Max({k, Len(old.buckets)}) = n /\ n \in Nat
        BY <1>1, <2>1, GreaterOfTwo
    <2>3. new = [old EXCEPT !.buckets = b]
        <3> HIDE DEF n
        <3> QED BY <1>4, <2>2 DEF Waveform!Put
    <2>4. item \in S
        BY <1>1, <1>4
    <2>5. /\ b \in Seq(S) /\ Len(b) = n /\ b[k] = item
          /\ \A i \in 1..Len(old.buckets) : i # k => b[i] = old.buckets[i]
        <3>1. k \in 1..n /\ \A i \in 1..Len(old.buckets) : i \in 1..n
            BY <1>1, <1>4, <2>1
        <3> HIDE DEF n, item, S
        <3>2. \A i \in 1..n : b[i] \in S
            <4>1. \A i \in 1..Len(old.buckets) : old.buckets[i] \in S
                BY <1>2
            <4>2. None \in S
                BY DEF S
            <4> QED BY <2>1, <2>2, <2>4, <4>1, <4>2
        <3>3. DOMAIN b = 1..n
            OBVIOUS
        <3>4. b \in Seq(S) /\ Len(b) = n
            <4>1. b = [i \in 1..n |-> b[i]]
                OBVIOUS
            <4> HIDE DEF b
            <4>2. b \in [1..n -> S] /\ n \in Nat
                BY <2>2, <3>2, <4>1
            <4>3. b \in Seq(S)
                BY <4>2, SeqDef
            <4>4. 1..Len(b) = 1..n /\ Len(b) \in Nat
                BY <4>2, <4>3, LenProperties
            <4> QED BY <4>2, <4>3, <4>4
        <3>5. b[k] = item
            BY <3>1
        <3>6. \A i \in 1..Len(old.buckets) : i # k => b[i] = old.buckets[i]
            BY <2>1, <3>1
        <3> HIDE DEF b
        <3> QED BY <3>4, <3>5, <3>6
    <2> HIDE DEF new, b, n
    <2>6. b \in Seq(S)
        BY <2>5
    <2>7. new \in CacheFiles /\ new.header = old.header /\ new.buckets = b
        BY <2>3, <2>6 DEF CacheFiles
    <2> QED BY <1>4, <2>5, <2>7 DEF n, new
<1> QED BY <1>1, <1>3, <1>4

\* A position is written: what is left to write of the file is one less.
LEMMA WriteKeeps ==
    ASSUME WaveAssumption, WaveInv, NEW l \in WaveLoads, Waveform!Write(l)
    PROVE  WaveInv'
<1> DEFINE q == load[l]
           k == q.written
           g == q.file
           r == IF k = q.header.count THEN [q EXCEPT !.at = "remove"] ELSE [q EXCEPT !.written = k + 1]
<1>1. /\ q.at = "write" /\ load' = [load EXCEPT ![l] = r]
      /\ data' = [data EXCEPT ![g] = Waveform!Put(data[g], l)]
      /\ UNCHANGED <<sound, names, answer, sounds, alike, crossed>>
    BY DEF Waveform!Write, Waveform!ghosts
<1>2. q \in LoadRecords /\ Follows(q, sounds, Len(data)) /\ (~q.beside => Undisturbed(l, q))
    BY <1>1, LoadKnown DEF WaveInv, WaveFacts, LoadsFollow, Alone
<1>3. Waveform!Building(l)
    BY <1>1 DEF Waveform!Building
<1>4. /\ q.from \in SoundFiles /\ q.from.mark \in q.mark..Len(sounds) /\ q.from = sounds[q.from.mark]
      /\ q.source = <<sounds[q.mark].length, sounds[q.mark].stamp>> /\ q.mark \in 1..Len(sounds)
      /\ q.header = Waveform!HeaderOf(q.source, q.from.length) /\ q.header \in CacheHeaders
      /\ q.header.count = BucketsOf(q.from.length) /\ q.header.count \in Nat
      /\ g \in 1..Len(data) /\ k \in 0..q.header.count
    <2>1. /\ q.from # None /\ q.from.mark \in q.mark..Len(sounds) /\ q.from = sounds[q.from.mark]
          /\ q.source = <<sounds[q.mark].length, sounds[q.mark].stamp>> /\ q.mark \in 1..Len(sounds)
          /\ q.header = Waveform!HeaderOf(q.source, q.from.length)
          /\ g \in 1..Len(data) /\ k \in 0..q.header.count
        BY <1>1, <1>2 DEF Follows
    <2>2. q.from \in SoundFiles /\ q.source \in SoundSources
        BY <1>2, <2>1 DEF LoadRecords
    <2>3. q.from.length \in Lengths
        BY <2>2 DEF SoundFiles
    <2>4. q.header \in CacheHeaders /\ q.header.count = BucketsOf(q.from.length)
        BY <2>1, <2>2, <2>3, BucketsAre
    <2>5. q.header.count \in Nat
        BY <2>4 DEF CacheHeaders
    <2> QED BY <2>1, <2>2, <2>4, <2>5
<1>5. /\ r \in LoadRecords /\ r.mark = q.mark /\ r.source = q.source /\ r.header = q.header
      /\ r.beside = q.beside /\ r.from = q.from /\ r.file = g
      /\ \/ r.at = "remove" /\ r.written = k /\ k = q.header.count
         \/ r.at = "write" /\ r.written = k + 1 /\ k # q.header.count
    <2>1. k \in Nat
        BY <1>4
    <2> HIDE DEF q
    <2>2. CASE k = q.header.count
        <3>1. r = [q EXCEPT !.at = "remove"]
            BY <2>2
        <3> QED BY <1>1, <1>2, <2>2, <3>1 DEF LoadRecords, LoadStages
    <2>3. CASE k # q.header.count
        <3>1. r = [q EXCEPT !.written = k + 1] /\ k + 1 \in Nat
            BY <2>1, <2>3
        <3> HIDE DEF r
        <3> QED BY <1>1, <1>2, <2>3, <3>1 DEF LoadRecords, LoadStages
    <2> QED BY <2>2, <2>3
<1> HIDE DEF r
<1>6. load'[l] = r /\ \A o \in WaveLoads \ {l} : load'[o] = load[o]
    BY <1>1 DEF WaveInv, WaveFacts, WaveShapes
<1>7. data[g] \in CacheFiles
    BY <1>4 DEF WaveInv, WaveFacts, WaveShapes
<1>8. PICK old, new \in CacheFiles :
          /\ old = data[g] /\ new = Waveform!Put(old, l)
          /\ k = 0 => new.header = q.header /\ new.buckets = old.buckets
          /\ k # 0 => /\ new.header = old.header
                      /\ Len(new.buckets) = IF k >= Len(old.buckets) THEN k ELSE Len(old.buckets)
                      /\ new.buckets[k] = <<q.from.mark, k - 1>>
                      /\ \A i \in 1..Len(old.buckets) : i # k => new.buckets[i] = old.buckets[i]
    BY <1>2, <1>4, <1>7, PutFacts
<1>9. /\ data' \in Seq(CacheFiles) /\ Len(data') = Len(data) /\ data'[g] = new
      /\ \A f \in 1..Len(data) : f # g => data'[f] = data[f]
    <2>1. data \in Seq(CacheFiles)
        BY DEF WaveInv, WaveFacts, WaveShapes
    <2>2. data' = [data EXCEPT ![g] = new]
        BY <1>1, <1>8
    <2> HIDE DEF q, g
    <2> QED BY <1>4, <2>1, <2>2
<1>10. WaveShapes'
    <2>1. load' \in [WaveLoads -> {Waveform!Idle} \cup LoadRecords]
        BY <1>1, <1>5 DEF WaveInv, WaveFacts, WaveShapes
    <2> QED BY <1>1, <1>9, <2>1 DEF WaveInv, WaveFacts, WaveShapes
<1>11. SoundsDiffer'
    BY <1>1 DEF WaveInv, WaveFacts, SoundsDiffer
<1>12. LoadsFollow'
    <2>1. r.written \in 0..r.header.count
        BY <1>4, <1>5
    <2>2. Follows(r, sounds, Len(data))
        BY <1>1, <1>2, <1>5, <2>1 DEF Follows
    <2> QED BY <1>1, <1>6, <1>9, <2>2 DEF WaveInv, WaveFacts, LoadsFollow
<1>13. \A o \in WaveLoads : /\ Waveform!Building(o)' <=> Waveform!Building(o)
                            /\ load'[o].file = load[o].file /\ load'[o].from = load[o].from
    BY <1>1, <1>5, <1>6 DEF Waveform!Building
<1>14. PartIsBuilt'
    BY <1>1, <1>13 DEF WaveInv, WaveFacts, PartIsBuilt
<1>15. OneSound'
    BY <1>1, <1>13 DEF WaveInv, WaveFacts, OneSound
<1>16. ASSUME NEW f \in 1..Len(data), NEW m \in 1..Len(sounds), OfSound(f, m) PROVE OfSound(f, m)'
    <2>1. CASE f # g
        <3>1. \A i : Pending(f, i) => Pending(f, i)'
            <4>1. \A o \in WaveLoads : load[o].file = f => o # l
                BY <2>1
            <4> QED BY <1>6, <4>1 DEF Pending
        <3> QED BY <1>1, <1>9, <1>13, <1>16, <2>1, <3>1, FileStays DEF WaveInv, WaveFacts
    <2>2. CASE f = g
        <3>1. q.from.mark = m
            BY <1>3, <1>16, <2>2 DEF OfSound
        <3>2. sounds[m].length = q.from.length /\ BucketsOf(sounds[m].length) = q.header.count
            BY <1>4, <3>1
        <3>3. q.mark \in 1..m
            BY <1>4, <3>1
        <3>4. HeaderFits(new.header, m, sounds)
            <4>1. HeaderFits(old.header, m, sounds)
                BY <1>8, <1>16, <2>2 DEF OfSound
            <4>2. HeaderFits(q.header, m, sounds)
                BY <1>4, <3>2, <3>3 DEF HeaderFits
            <4> QED BY <1>8, <4>1, <4>2
        <3>5. Len(old.buckets) \in Nat
            BY <1>8 DEF CacheFiles
        <3>6. Len(old.buckets) <= q.header.count
            BY <1>8, <1>16, <2>2, <3>2 DEF OfSound
        <3>7. Len(new.buckets) <= q.header.count
            <4> HIDE DEF q, k
            <4> QED BY <1>4, <1>8, <3>5, <3>6
        <3>14. k # 0 => /\ Len(new.buckets) \in Nat /\ k <= Len(new.buckets)
                        /\ Len(old.buckets) <= Len(new.buckets)
            <4>1. k \in Nat
                BY <1>4
            <4> HIDE DEF q, k
            <4> QED BY <1>8, <3>5, <4>1
        <3>8. ASSUME NEW i \in 1..q.header.count PROVE Pending(f, i)' \/ HasBucket(new, m, i)
            <4>1. Pending(f, i) \/ HasBucket(old, m, i)
                BY <1>8, <1>16, <2>2, <3>2 DEF OfSound
            <4>2. CASE k # 0 /\ i = k
                <5>1. i \in 1..Len(new.buckets)
                    <6> HIDE DEF q, k
                    <6> QED BY <1>4, <3>14, <4>2
                <5>2. new.buckets[i] = <<m, i - 1>>
                    BY <1>8, <3>1, <4>2
                <5> QED BY <5>1, <5>2 DEF HasBucket
            <4>3. CASE HasBucket(old, m, i) /\ i # k
                <5>1. i \in 1..Len(old.buckets) /\ old.buckets[i] = <<m, i - 1>>
                    BY <4>3 DEF HasBucket
                <5>2. new.buckets[i] = <<m, i - 1>> \/ k = 0
                    <6> HIDE DEF q, k
                    <6> QED BY <1>8, <4>3, <5>1
                <5>3. CASE k = 0
                    BY <1>8, <5>1, <5>3 DEF HasBucket
                <5>4. CASE k # 0
                    <6>1. i \in 1..Len(new.buckets)
                        <7> HIDE DEF q, k
                        <7> QED BY <3>5, <3>14, <5>1, <5>4
                    <6> QED BY <5>2, <5>4, <6>1 DEF HasBucket
                <5> QED BY <5>3, <5>4
            <4>4. CASE Pending(f, i) /\ i # k
                <5>1. PICK o \in WaveLoads : load[o].at = "write" /\ load[o].file = f /\ load[o].written <= i
                    BY <4>4 DEF Pending
                <5>2. CASE o # l
                    BY <1>6, <5>1, <5>2 DEF Pending
                <5>3. CASE o = l
                    <6>1. k <= i
                        BY <5>1, <5>3
                    <6>2. k # q.header.count /\ k + 1 <= i
                        <7> HIDE DEF q, k
                        <7> QED BY <1>4, <4>4, <6>1
                    <6>3. load'[l].at = "write" /\ load'[l].file = f /\ load'[l].written <= i
                        BY <1>5, <1>6, <2>2, <6>2
                    <6> QED BY <6>3 DEF Pending
                <5> QED BY <5>2, <5>3
            <4>5. i # k \/ k # 0
                BY <1>4
            <4> QED BY <4>1, <4>2, <4>3, <4>4, <4>5
        <3>9. \A o \in WaveLoads : Waveform!Building(o)' /\ load'[o].file = f => load'[o].from.mark = m
            BY <1>13, <1>16 DEF OfSound
        <3>10. sounds' = sounds /\ data'[f] = new
            BY <1>1, <1>9, <2>2
        <3>11. HeaderFits(data[f].header, m, sounds)'
            BY <3>4, <3>10 DEF HeaderFits
        <3>12. \A i \in 1..BucketsOf(sounds'[m].length) : Pending(f, i)' \/ HasBucket(data'[f], m, i)
            BY <3>2, <3>8, <3>10
        <3>13. Len(data'[f].buckets) <= BucketsOf(sounds'[m].length)
            BY <3>2, <3>7, <3>10
        <3> QED BY <3>9, <3>11, <3>12, <3>13 DEF OfSound, HasBucket
    <2> QED BY <2>1, <2>2
<1>17. FilesWhole'
    <2>1. SUFFICES ASSUME ~crossed', NEW f \in {names'.cache, names'.part}, f # None
                   PROVE  \E m \in 1..Len(sounds') : OfSound(f, m)'
        BY DEF FilesWhole
    <2>2. f \in {names.cache, names.part} /\ f \in 1..Len(data)
        BY <1>1, <2>1 DEF WaveInv, WaveFacts, WaveShapes
    <2>3. PICK m \in 1..Len(sounds) : OfSound(f, m)
        BY <1>1, <2>1, <2>2 DEF WaveInv, WaveFacts, FilesWhole
    <2> QED BY <1>1, <1>16, <2>2, <2>3
<1>18. Alone'
    <2>1. ASSUME NEW o \in WaveLoads, load'[o].at # "idle", ~load'[o].beside
          PROVE  Undisturbed(o, load[o])'
        <3>1. o = l
            BY <1>3, <1>6, <2>1, OthersDisturbed DEF WaveInv
        <3>2. Undisturbed(l, q)
            BY <1>2, <1>5, <1>6, <2>1, <3>1
        <3>3. \A p \in WaveLoads \ {l} : ~Waveform!Building(p)'
            BY <1>13, <3>2 DEF Undisturbed
        <3>4. names.part = g /\ (k > 0 => data[g].header = q.header)
            BY <1>1, <3>2 DEF Undisturbed
        <3>5. data'[g].header = q.header
            <4>1. k = 0 \/ k > 0
                BY <1>4
            <4> QED BY <1>8, <1>9, <3>4, <4>1
        <3> QED BY <1>1, <1>5, <1>6, <3>1, <3>3, <3>4, <3>5 DEF Undisturbed
    <2> QED BY <2>1 DEF Alone
<1>19. AnswerKnown' /\ Waveform!AnswerWhole'
    <2>1. answer' = answer /\ sounds' = sounds
        BY <1>1
    <2>2. AnswerKnown'
        BY <2>1 DEF WaveInv, AnswerKnown
    <2>3. Waveform!AnswerWhole'
        BY <2>1 DEF WaveInv, Waveform!AnswerWhole
    <2> QED BY <2>2, <2>3
<1> QED BY <1>10, <1>11, <1>12, <1>14, <1>15, <1>17, <1>18, <1>19 DEF WaveInv, WaveFacts

\* Without a build under way, the file that is named is whole.
LEMMA NoBuildsWhole ==
    ASSUME WaveAssumption, WaveFacts, ~crossed, \A l \in WaveLoads : ~Waveform!Building(l), names.cache # None
    PROVE  \E m \in 1..Len(sounds) :
              /\ HeaderFits(data[names.cache].header, m, sounds)
              /\ data[names.cache].buckets =
                    [i \in 1..BucketsOf(sounds[m].length) |-> <<m, i - 1>>]
              /\ Len(data[names.cache].buckets) = BucketsOf(sounds[m].length)
<1>1. PICK m \in 1..Len(sounds) : OfSound(names.cache, m)
    BY DEF WaveFacts, FilesWhole
<1>2. PICK n, b : n = BucketsOf(sounds[m].length) /\ b = data[names.cache].buckets
    OBVIOUS
<1>3. n \in Nat
    <2>1. sounds[m] \in SoundFiles
        BY DEF WaveFacts, WaveShapes
    <2> QED BY <1>2, <2>1, BucketsAre DEF SoundFiles
<1>4. b \in Seq((Nat \X Nat) \cup {None})
    <2>1. data[names.cache] \in CacheFiles
        BY DEF WaveFacts, WaveShapes
    <2> QED BY <1>2, <2>1 DEF CacheFiles
<1>5. \A i : ~Pending(names.cache, i)
    BY DEF Pending, Waveform!Building
<1>6. Len(b) <= n /\ \A i \in 1..n : i \in 1..Len(b) /\ b[i] = <<m, i - 1>>
    BY <1>1, <1>2, <1>5 DEF OfSound, HasBucket
<1>7. Len(b) \in Nat
    BY <1>4
<1>8. Len(b) = n
    <2>1. n # 0 => n \in 1..n
        BY <1>3
    <2>2. n # 0 => n <= Len(b)
        BY <1>3, <1>6, <1>7, <2>1
    <2> QED BY <1>3, <1>6, <1>7, <2>2
<1>9. b = [i \in 1..n |-> <<m, i - 1>>]
    <2>1. DOMAIN b = 1..n
        BY <1>4, <1>8
    <2>2. b = [i \in 1..n |-> b[i]]
        BY <1>4, <2>1
    <2> QED BY <1>6, <2>2
<1> QED BY <1>1, <1>2, <1>8, <1>9 DEF OfSound

\* What a load returns of the buckets, and what it should.
PeaksOf(buckets, points) == [i \in DOMAIN points |-> {buckets[b + 1] : b \in points[i]}]
ShowsAll(peaks, m, length, start, end) ==
    LET all == UNION {peaks[i] : i \in DOMAIN peaks} IN
    /\ None \notin all
    /\ all = {<<m, b>> : b \in {k \in 0..Waveform!CeilDiv(length, Waveform!BucketSize) - 1 :
                                   Waveform!Sounds(k, start, end)}}
    /\ \A i, j \in DOMAIN peaks : \A x \in peaks[i], y \in peaks[j] : i < j => x[2] < y[2]

\* A window of the buckets of a whole cache: each bucket that sounds in it, once and in order.
LEMMA WindowWhole ==
    ASSUME WaveAssumption, NEW m \in Nat, NEW length \in Lengths, NEW source, NEW window \in Views
    PROVE  LET buckets == [i \in 1..BucketsOf(length) |-> <<m, i - 1>>]
               seen == Waveform!Visible(Waveform!HeaderOf(source, length), window)
               points == Waveform!PointsOf(seen, window)
           IN  /\ ~(seen.first + seen.number > BucketsOf(length))
               /\ ShowsAll(PeaksOf(buckets, points), m, length, seen.start, seen.end)
<1> DEFINE n == BucketsOf(length)
           buckets == [i \in 1..n |-> <<m, i - 1>>]
           seen == Waveform!Visible(Waveform!HeaderOf(source, length), window)
           points == Waveform!PointsOf(seen, window)
           peaks == [i \in DOMAIN points |-> {buckets[b + 1] : b \in points[i]}]
           all == UNION {peaks[i] : i \in DOMAIN peaks}
           heard == {k \in 0..Waveform!CeilDiv(length, Waveform!BucketSize) - 1 :
                        Waveform!Sounds(k, seen.start, seen.end)}
<1>1. /\ seen.first \in Nat /\ seen.number \in Nat \ {0} /\ seen.first + seen.number <= n
      /\ heard = seen.first..(seen.first + seen.number - 1)
    <2>1. length \in Nat \ {0} /\ window \in Audible /\ {Second, Rate, BucketRate} \subseteq Nat \ {0}
        BY DEF WaveAssumption
    <2> QED BY <2>1, SeenSounds DEF BucketsOf
<1>2. n \in Nat
    BY BucketsAre
<1> HIDE DEF seen, n
<1>3. PICK k \in Nat :
         /\ points = [i \in 1..k |-> points[i]]
         /\ UNION {points[i] : i \in 1..k} = seen.first..(seen.first + seen.number - 1)
         /\ \A i, j \in 1..k : \A x \in points[i], y \in points[j] : i < j => x < y
    <2>1. window \in Audible /\ MinPoints \in Nat \ {0} /\ MaxPoints \in Nat \ {0}
        BY DEF WaveAssumption
    <2> QED BY <1>1, <2>1, PointsTile
<1> HIDE DEF points, heard
<1>4. DOMAIN points = 1..k
    BY <1>3
<1>5. ASSUME NEW i \in 1..k, NEW b \in points[i] PROVE b \in Nat /\ buckets[b + 1] = <<m, b>>
    <2>1. b \in seen.first..(seen.first + seen.number - 1)
        BY <1>3
    <2>2. b \in Nat /\ b + 1 \in 1..n /\ b + 1 - 1 = b
        BY <1>1, <1>2, <2>1
    <2>3. buckets[b + 1] = <<m, b + 1 - 1>>
        BY <2>2
    <2> QED BY <2>2, <2>3
<1> HIDE DEF buckets
<1>6. DOMAIN peaks = 1..k /\ \A i \in 1..k : peaks[i] = {<<m, b>> : b \in points[i]}
    <2>1. \A i \in 1..k : peaks[i] = {buckets[b + 1] : b \in points[i]}
        BY <1>4
    <2> QED BY <1>4, <1>5, <2>1
<1> HIDE DEF peaks
<1>7. all = {<<m, b>> : b \in heard}
    <2>1. heard = UNION {points[i] : i \in 1..k}
        BY <1>1, <1>3
    <2>2. ASSUME NEW x \in all PROVE x \in {<<m, b>> : b \in heard}
        <3>1. PICK i \in 1..k : x \in peaks[i]
            BY <1>6
        <3>2. PICK b \in points[i] : x = <<m, b>>
            BY <1>6, <3>1
        <3>3. b \in heard
            BY <2>1
        <3> QED BY <3>2, <3>3
    <2>3. ASSUME NEW b \in heard PROVE <<m, b>> \in all
        <3>1. PICK i \in 1..k : b \in points[i]
            BY <2>1
        <3>2. <<m, b>> \in peaks[i]
            BY <1>6, <3>1
        <3> QED BY <1>6, <3>2
    <2> HIDE DEF all
    <2> QED BY <2>2, <2>3
<1> HIDE DEF all
<1>8. None \notin all
    <2>1. \A b \in heard : b \in Nat
        BY <1>1
    <2>2. \A b \in Nat : <<m, b>> # None
        BY DEF WaveAssumption
    <2> QED BY <1>7, <2>1, <2>2
<1>9. ASSUME NEW i \in DOMAIN peaks, NEW j \in DOMAIN peaks, NEW x \in peaks[i], NEW y \in peaks[j], i < j
      PROVE  x[2] < y[2]
    <2>1. i \in 1..k /\ j \in 1..k
        BY <1>6
    <2>2. PICK b \in points[i] : x = <<m, b>>
        BY <1>6, <2>1
    <2>3. PICK c \in points[j] : y = <<m, c>>
        BY <1>6, <2>1
    <2>4. b < c
        BY <1>3, <1>9, <2>1
    <2> QED BY <2>2, <2>3, <2>4
<1>10. ~(seen.first + seen.number > n)
    BY <1>1, <1>2
<1> QED BY <1>7, <1>8, <1>9, <1>10 DEF n, seen, points, peaks, all, heard, buckets, ShowsAll, PeaksOf

\* Of a load beside which none builds, the cache is whole and of no earlier audio file.
LEMMA ReadKeeps ==
    ASSUME WaveAssumption, WaveInv, NEW l \in WaveLoads, Waveform!ReadWindow(l)
    PROVE  WaveInv'
<1>1. PICK q : q = load[l]
    OBVIOUS
<1>2. PICK header, seen, points, buckets :
         /\ header = q.header /\ seen = Waveform!Visible(header, q.window)
         /\ points = Waveform!PointsOf(seen, q.window)
         /\ buckets = IF names.cache = None THEN <<>> ELSE data[names.cache].buckets
    OBVIOUS
<1> DEFINE whole == [error |-> FALSE, mark |-> q.mark, start |-> seen.start, end |-> seen.end,
                     peaks |-> [i \in DOMAIN points |-> {buckets[b + 1] : b \in points[i]}],
                     beside |-> q.beside, stale |-> alike \/ crossed]
<1>3. /\ q.at = "read" /\ load' = [load EXCEPT ![l] = Waveform!Idle]
      /\ answer' = IF seen.first + seen.number > Len(buckets) THEN Waveform!Failed(l) ELSE whole
      /\ UNCHANGED <<sound, names, data, sounds, alike, crossed>>
    BY <1>1, <1>2 DEF Waveform!ReadWindow, Waveform!Returns, Waveform!ghosts
<1>4. q \in LoadRecords /\ Follows(q, sounds, Len(data)) /\ (~q.beside => Undisturbed(l, q))
    BY <1>1, <1>3, LoadKnown DEF WaveInv, WaveFacts, LoadsFollow, Alone
<1>5. ~Waveform!Building(l)
    BY <1>1, <1>3 DEF Waveform!Building
<1>6. WaveFacts'
    BY <1>3, <1>5, QuietKeeps DEF WaveInv, Waveform!Idle
<1>7. CASE q.beside \/ alike \/ crossed
    <2>1. answer'.beside = q.beside /\ answer'.stale = (alike \/ crossed)
        BY <1>1, <1>3 DEF Waveform!Failed
    <2>2. answer'.beside \/ answer'.stale
        BY <1>7, <2>1
    <2> QED BY <1>6, <2>2 DEF WaveInv, AnswerKnown, Waveform!AnswerWhole
<1>8. CASE ~(q.beside \/ alike \/ crossed)
    <2>1. /\ names.cache # None /\ q.header # None /\ q.header = data[names.cache].header
          /\ q.header.source = q.source
        BY <1>3, <1>4, <1>8 DEF Undisturbed
    <2>2. \A o \in WaveLoads : ~Waveform!Building(o)
        BY <1>4, <1>5, <1>8 DEF Undisturbed
    <2>3. PICK m \in 1..Len(sounds) :
              /\ HeaderFits(data[names.cache].header, m, sounds)
              /\ data[names.cache].buckets = [i \in 1..BucketsOf(sounds[m].length) |-> <<m, i - 1>>]
              /\ Len(data[names.cache].buckets) = BucketsOf(sounds[m].length)
        BY <1>8, <2>1, <2>2, NoBuildsWhole DEF WaveInv
    <2>4. PICK k \in 1..m :
             q.header = Waveform!HeaderOf(<<sounds[k].length, sounds[k].stamp>>, sounds[m].length)
        BY <2>1, <2>3 DEF HeaderFits
    <2>5. Len(sounds) \in Nat /\ \A j \in 1..Len(sounds) : sounds[j] \in SoundFiles
        BY DEF WaveInv, WaveFacts, WaveShapes
    <2>6. k \in 1..Len(sounds) /\ m \in Nat \ {0} /\ sounds[m].length \in Lengths
        BY <2>5 DEF SoundFiles
    <2>7. q.mark = k
        <3>1. /\ q.mark \in 1..Len(sounds)
              /\ q.source = <<sounds[q.mark].length, sounds[q.mark].stamp>>
            BY <1>4 DEF Follows
        <3>2. q.header.source = <<sounds[k].length, sounds[k].stamp>>
            BY <2>4 DEF Waveform!HeaderOf
        <3>3. sounds[q.mark].length = sounds[k].length /\ sounds[q.mark].stamp = sounds[k].stamp
            BY <2>1, <3>1, <3>2
        <3> QED BY <1>8, <2>6, <3>1, <3>3 DEF WaveInv, WaveFacts, SoundsDiffer
    <2>8. PICK length, source : length = sounds[m].length /\ source = <<sounds[k].length, sounds[k].stamp>>
        OBVIOUS
    <2>9. /\ buckets = [i \in 1..BucketsOf(length) |-> <<m, i - 1>>]
          /\ Len(buckets) = BucketsOf(length)
          /\ seen = Waveform!Visible(Waveform!HeaderOf(source, length), q.window) /\ length \in Lengths
        BY <1>2, <2>1, <2>3, <2>4, <2>6, <2>8
    <2>10. q.window \in Views
        BY <1>4 DEF LoadRecords
    <2> DEFINE peaks == PeaksOf(buckets, points)
    <2>11. /\ ~(seen.first + seen.number > BucketsOf(length))
           /\ ShowsAll(peaks, m, length, seen.start, seen.end)
        <3>1. m \in Nat /\ points = Waveform!PointsOf(seen, q.window)
            BY <1>2, <2>6
        <3> QED BY <2>9, <2>10, <3>1, WindowWhole
    <2>12. /\ answer'.error = FALSE /\ answer'.mark = q.mark /\ answer'.start = seen.start
           /\ answer'.end = seen.end /\ answer'.peaks = peaks
        BY <1>3, <2>9, <2>11 DEF PeaksOf
    <2>13. AnswerKnown'
        BY <2>6, <2>7, <2>12 DEF AnswerKnown
    <2>14. m \in q.mark..Len(sounds) /\ sounds[m].length = length
        BY <2>5, <2>6, <2>7, <2>8
    <2> HIDE DEF peaks
    <2>15. Waveform!AnswerWhole'
        <3>1. PICK p : p = peaks
            OBVIOUS
        <3>2. sounds' = sounds
            BY <1>3
        <3>3. ShowsAll(p, m, sounds[m].length, seen.start, seen.end)
            BY <2>11, <2>14, <3>1
        <3>4. answer'.peaks = p
            BY <2>12, <3>1
        <3> HIDE DEF peaks
        <3> QED BY <2>12, <2>14, <3>2, <3>3, <3>4 DEF Waveform!AnswerWhole, ShowsAll
    <2> QED BY <1>6, <2>13, <2>15 DEF WaveInv
<1> QED BY <1>7, <1>8

\* More audio files: what is of one of them stays so.
LEMMA SoundReplaced ==
    ASSUME WaveAssumption, WaveInv, NEW n \in Lengths, NEW t \in Stamps, Waveform!ReplaceAudio(n, t)
    PROVE  WaveInv'
<1>1. PICK new : new = [length |-> n, stamp |-> t, mark |-> Len(sounds) + 1]
    OBVIOUS
<1>2. /\ sound' = new /\ sounds' = Append(sounds, new)
      /\ alike' = (alike \/ \E k \in DOMAIN sounds : sounds[k].length = n /\ sounds[k].stamp = t)
      /\ UNCHANGED <<names, data, load, answer, crossed>>
    BY <1>1 DEF Waveform!ReplaceAudio
<1>3. sounds \in Seq(SoundFiles) /\ Len(sounds) \in Nat /\ Len(sounds) > 0
    BY DEF WaveInv, WaveFacts, WaveShapes
<1>4. new \in SoundFiles /\ new.length = n /\ new.stamp = t /\ new.mark = Len(sounds) + 1
    BY <1>1, <1>3 DEF SoundFiles
<1>5. /\ sounds' \in Seq(SoundFiles) /\ Len(sounds') = Len(sounds) + 1 /\ sounds'[Len(sounds) + 1] = new
      /\ \A k \in 1..Len(sounds) : sounds'[k] = sounds[k]
    BY <1>2, <1>3, <1>4
<1>6. 1..Len(sounds') = 1..Len(sounds) \cup {Len(sounds) + 1}
    <2>1. \A i \in Nat : 1..i + 1 = 1..i \cup {i + 1}
        OBVIOUS
    <2> QED BY <1>3, <1>5, <2>1
<1>7. WaveShapes'
    <2>1. \A k \in 1..Len(sounds') : sounds'[k].mark = k
        BY <1>4, <1>5, <1>6 DEF WaveInv, WaveFacts, WaveShapes
    <2>2. Len(sounds') > 0 /\ sound' = sounds'[Len(sounds')]
        BY <1>2, <1>3, <1>5
    <2>3. alike' \in BOOLEAN
        BY <1>2 DEF WaveInv, WaveFacts, WaveShapes
    <2> QED BY <1>2, <1>5, <2>1, <2>2, <2>3 DEF WaveInv, WaveFacts, WaveShapes
<1>8. SoundsDiffer'
    <2>1. SUFFICES ASSUME ~alike', NEW j \in 1..Len(sounds'), NEW k \in 1..Len(sounds'),
                          sounds'[j].length = sounds'[k].length, sounds'[j].stamp = sounds'[k].stamp
                   PROVE  j = k
        BY DEF SoundsDiffer
    <2>2. \A i \in 1..Len(sounds) : ~(sounds[i].length = n /\ sounds[i].stamp = t)
        <3>1. ~ \E i \in DOMAIN sounds : sounds[i].length = n /\ sounds[i].stamp = t
            BY <1>2, <2>1
        <3>2. DOMAIN sounds = 1..Len(sounds)
            BY <1>3
        <3> QED BY <3>1, <3>2
    <2>3. ~alike
        BY <1>2, <2>1
    <2>4. CASE j \in 1..Len(sounds) /\ k \in 1..Len(sounds)
        BY <1>5, <2>1, <2>3, <2>4 DEF WaveInv, WaveFacts, SoundsDiffer
    <2>5. CASE j \in 1..Len(sounds) /\ k = Len(sounds) + 1
        BY <1>4, <1>5, <2>1, <2>2, <2>5
    <2>6. CASE k \in 1..Len(sounds) /\ j = Len(sounds) + 1
        BY <1>4, <1>5, <2>1, <2>2, <2>6
    <2> QED BY <1>6, <2>4, <2>5, <2>6
<1>9. LoadsFollow'
    <2>1. ASSUME NEW o \in WaveLoads, load[o].at # "idle" PROVE Follows(load[o], sounds', Len(data'))
        <3>1. PICK r : r = load[o] /\ Follows(r, sounds, Len(data))
            BY <2>1 DEF WaveInv, WaveFacts, LoadsFollow
        <3>2. r.mark \in 1..Len(sounds) /\ r.mark \in 1..Len(sounds')
            BY <1>6, <3>1 DEF Follows
        <3>3. \A i \in r.mark..Len(sounds) : i \in r.mark..Len(sounds') /\ sounds'[i] = sounds[i]
            BY <1>3, <1>5, <3>2
        <3> QED BY <1>2, <1>5, <3>1, <3>2, <3>3 DEF Follows
    <2> QED BY <1>2, <2>1 DEF LoadsFollow
<1>10. \A o \in WaveLoads : Waveform!Building(o)' <=> Waveform!Building(o)
    BY <1>2 DEF Waveform!Building
<1>11. PartIsBuilt' /\ OneSound'
    BY <1>2, <1>10 DEF WaveInv, WaveFacts, PartIsBuilt, OneSound
<1>12. FilesWhole'
    <2>1. SUFFICES ASSUME ~crossed', NEW f \in {names'.cache, names'.part}, f # None
                   PROVE  \E m \in 1..Len(sounds') : OfSound(f, m)'
        BY DEF FilesWhole
    <2>2. PICK m \in 1..Len(sounds) : OfSound(f, m)
        BY <1>2, <2>1 DEF WaveInv, WaveFacts, FilesWhole
    <2>3. \A i : Pending(f, i) => Pending(f, i)'
        BY <1>2 DEF Pending
    <2>4. OfSound(f, m)'
        BY <1>2, <1>5, <1>10, <2>2, <2>3, FileStays DEF WaveInv, WaveFacts
    <2> QED BY <1>6, <2>4
<1>13. Alone'
    BY <1>2, <1>10 DEF WaveInv, WaveFacts, Alone, Undisturbed
<1>14. AnswerKnown' /\ Waveform!AnswerWhole'
    <2>1. Len(sounds') \in Nat /\ Len(sounds') >= Len(sounds) /\ answer' = answer
        BY <1>2, <1>3, <1>5
    <2> QED BY <1>3, <1>5, <2>1, AnswerStays DEF WaveInv
<1> QED BY <1>7, <1>8, <1>9, <1>11, <1>12, <1>13, <1>14 DEF WaveInv, WaveFacts

\* Only the shapes speak of the audio file itself.
LEMMA SoundGoes ==
    ASSUME WaveAssumption, WaveInv, sound' \in {None, sound},
           UNCHANGED <<names, data, load, answer, sounds, alike, crossed>>
    PROVE  WaveInv'
<1>1. WaveShapes'
    BY DEF WaveInv, WaveFacts, WaveShapes
<1>2. SoundsDiffer' /\ LoadsFollow' /\ AnswerKnown'
    BY DEF WaveInv, WaveFacts, SoundsDiffer, LoadsFollow, AnswerKnown
<1>3. \A o \in WaveLoads : Waveform!Building(o)' <=> Waveform!Building(o)
    BY DEF Waveform!Building
<1>4. PartIsBuilt' /\ OneSound'
    BY <1>3 DEF WaveInv, WaveFacts, PartIsBuilt, OneSound
<1>5. FilesWhole'
    <2>1. \A f, i : Pending(f, i) => Pending(f, i)'
        BY DEF Pending
    <2>2. ASSUME NEW f, NEW m \in 1..Len(sounds), OfSound(f, m) PROVE OfSound(f, m)'
        BY <1>3, <2>1, <2>2, FileStays DEF WaveInv, WaveFacts
    <2> QED BY <2>2 DEF WaveInv, WaveFacts, FilesWhole
<1>6. Alone'
    BY <1>3 DEF WaveInv, WaveFacts, Alone, Undisturbed
<1>7. Waveform!AnswerWhole'
    BY DEF WaveInv, Waveform!AnswerWhole
<1> QED BY <1>1, <1>2, <1>4, <1>5, <1>6, <1>7 DEF WaveInv, WaveFacts

\* No cache is trusted that is not of the audio file there is.
LEMMA TrustedIsWhole ==
    ASSUME WaveAssumption, WaveInv PROVE Waveform!WaveformHonest
<1>1. SUFFICES ASSUME ~alike, ~crossed, \A l \in WaveLoads : ~Waveform!Building(l), sound # None,
                      Waveform!Fresh(Waveform!CacheHeader, <<sound.length, sound.stamp>>)
               PROVE  data[names.cache].buckets =
                     [k \in 1..Waveform!CeilDiv(sound.length, Waveform!BucketSize) |-> <<sound.mark, k - 1>>]
    BY DEF WaveInv, Waveform!WaveformHonest, Waveform!CacheWhole
<1>2. /\ names.cache # None /\ data[names.cache].header # None
      /\ data[names.cache].header.source = <<sound.length, sound.stamp>>
    BY <1>1 DEF Waveform!Fresh, Waveform!CacheHeader
<1>3. PICK m \in 1..Len(sounds) :
          /\ HeaderFits(data[names.cache].header, m, sounds)
          /\ data[names.cache].buckets = [i \in 1..BucketsOf(sounds[m].length) |-> <<m, i - 1>>]
    BY <1>1, <1>2, NoBuildsWhole DEF WaveInv
<1>4. PICK k \in 1..m : data[names.cache].header =
                           Waveform!HeaderOf(<<sounds[k].length, sounds[k].stamp>>, sounds[m].length)
    BY <1>2, <1>3 DEF HeaderFits
<1>5. Len(sounds) \in Nat /\ Len(sounds) > 0 /\ sound = sounds[Len(sounds)]
      /\ sounds[Len(sounds)].mark = Len(sounds)
    BY <1>1 DEF WaveInv, WaveFacts, WaveShapes
<1>6. k = Len(sounds)
    <2>1. data[names.cache].header.source = <<sounds[k].length, sounds[k].stamp>>
        BY <1>4 DEF Waveform!HeaderOf
    <2>2. sounds[k].length = sounds[Len(sounds)].length /\ sounds[k].stamp = sounds[Len(sounds)].stamp
        BY <1>2, <1>5, <2>1
    <2>3. k \in 1..Len(sounds) /\ Len(sounds) \in 1..Len(sounds)
        BY <1>5
    <2> QED BY <1>1, <2>2, <2>3 DEF WaveInv, WaveFacts, SoundsDiffer
<1>7. m = Len(sounds) /\ sounds[m] = sound /\ sound.mark = m
    BY <1>5, <1>6
<1> QED BY <1>3, <1>7 DEF BucketsOf

\* Every answer without a build beside it is whole, and every cache that is trusted.
THEOREM WaveformStaysHonest ==
    ASSUME WaveAssumption PROVE Waveform!WaveSpec => []Waveform!WaveformHonest
<1>1. Waveform!WaveInit => WaveInv
    BY WaveInitially
<1>2. WaveInv /\ [Waveform!WaveNext]_Waveform!waveVars => WaveInv'
    <2>1. SUFFICES ASSUME WaveInv, [Waveform!WaveNext]_Waveform!waveVars PROVE WaveInv'
        OBVIOUS
    <2>2. ASSUME NEW l \in WaveLoads, NEW w \in Views, Waveform!BeginLoad(l, w) PROVE WaveInv'
        BY <2>1, <2>2, LoadBegins
    <2>3. ASSUME NEW l \in WaveLoads, Waveform!CheckHeader(l) PROVE WaveInv'
        BY <2>1, <2>3, CheckKeeps
    <2>4. ASSUME NEW l \in WaveLoads, Waveform!OpenAudio(l) PROVE WaveInv'
        BY <2>1, <2>4, OpeningKeeps
    <2>5. ASSUME NEW l \in WaveLoads, Waveform!CreatePart(l) PROVE WaveInv'
        BY <2>1, <2>5, PartIsBegun
    <2>6. ASSUME NEW l \in WaveLoads, Waveform!Write(l) PROVE WaveInv'
        BY <2>1, <2>6, WriteKeeps
    <2>7. ASSUME NEW l \in WaveLoads, Waveform!WriteFails(l) PROVE WaveInv'
        BY <2>1, <2>7, WriteFailsKeeps
    <2>8. ASSUME NEW l \in WaveLoads, Waveform!RemoveCache(l) PROVE WaveInv'
        BY <2>1, <2>8, RemoveKeeps
    <2>9. ASSUME NEW l \in WaveLoads, Waveform!RenamePart(l) PROVE WaveInv'
        BY <2>1, <2>9, RenameKeeps
    <2>10. ASSUME NEW l \in WaveLoads, Waveform!ReadWindow(l) PROVE WaveInv'
        BY <2>1, <2>10, ReadKeeps
    <2>11. ASSUME NEW n \in Lengths, NEW t \in Stamps, Waveform!ReplaceAudio(n, t) PROVE WaveInv'
        BY <2>1, <2>11, SoundReplaced
    <2>12. ASSUME Waveform!RemoveAudio PROVE WaveInv'
        BY <2>1, <2>12, SoundGoes DEF Waveform!RemoveAudio, Waveform!ghosts
    <2>13. ASSUME Waveform!Quit PROVE WaveInv'
        BY <2>1, <2>13, QuitKeeps
    <2>14. ASSUME UNCHANGED Waveform!waveVars PROVE WaveInv'
        BY <2>1, <2>14, SoundGoes DEF Waveform!waveVars
    <2> QED BY <2>1, <2>2, <2>3, <2>4, <2>5, <2>6, <2>7, <2>8, <2>9, <2>10, <2>11, <2>12, <2>13, <2>14
            DEF Waveform!WaveNext
<1>3. WaveInv => Waveform!WaveformHonest
    BY TrustedIsWhole
<1> QED BY <1>1, <1>2, <1>3, PTL DEF Waveform!WaveSpec
===============================================================================
