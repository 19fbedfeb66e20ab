----------------------------- MODULE WaveformCache -----------------------------
(***************************************************************************)
(* The waveform of a task's audio (waveform.rs): the least and greatest    *)
(* sample of each bucket are kept in a cache beside the audio, and a       *)
(* window of them is read for the editor.  Loads run side by side          *)
(* (waveform_window spawns each of them); a load that finds no cache of    *)
(* the audio's length and time builds one.  The temporary file of a build  *)
(* is named after the process, so that two builds of one task share it.    *)
(*                                                                         *)
(* Files are what their names stand for: two names of one file, and a      *)
(* handle of a renamed one, see the same contents.  A file holds a header  *)
(* and the buckets; <<mark, b>> is bucket b of the audio with that mark.   *)
(***************************************************************************)
EXTENDS Naturals, Sequences, FiniteSets, FiniteSetsExt

CONSTANTS
    None,
    Loads,              \* loads that may be under way at a time
    Lengths,            \* of an audio file, in samples
    Stamps,             \* the seconds in which an audio file may be written
    Windows,            \* [from, to, points] that the editor asks for
    Second, Rate,       \* units of time in a second, samples in a second
    BucketRate,         \* TARGET_BUCKETS_PER_SECOND
    MinPoints, MaxPoints,
    MaxLoads, MaxTroubles    \* bounds

VARIABLES
    sound,         \* [length, stamp, mark] of the audio file, or None
    names,         \* the files called "cache" and "part", None where there is none
    data,          \* [header, buckets] of each file, in the order they were made
    load,          \* of each load: where it is, and what it has read
    answer,        \* what the last load returned, None while one begins
    sounds,        \* [length, stamp, mark] of the audio files so far
    alike,         \* ghost: an audio file had the length and second of an earlier one
    crossed,       \* ghost: builds of two audio files shared a file, or were cut in it
    begun,         \* loads so far
    troubles       \* replaced and removed files, failed writes, ends of the process

waveVars == <<sound, names, data, load, answer, sounds, alike, crossed, begun, troubles>>
ghosts == <<alike, crossed>>
bounds == <<begun, troubles>>

Idle == [at |-> "idle"]
WaveInit ==
    /\ \E n \in Lengths, t \in Stamps : 
         /\ sound = [length |-> n, stamp |-> t, mark |-> 1] /\ sounds = <<sound>>
    /\ names = [cache |-> None, part |-> None] /\ data = <<>>
    /\ load = [l \in Loads |-> Idle] /\ answer = None
    /\ alike = FALSE /\ crossed = FALSE /\ begun = 0 /\ troubles = 0

CeilDiv(n, k) == (n + k - 1) \div k
BucketSize == Max({Rate \div BucketRate, 1})
Clamp(n, low, high) == Min({Max({n, low}), high})

\* What build_cache finds in the audio file.
HeaderOf(source, length) ==
    [source |-> source, count |-> CeilDiv(length, BucketSize),
     duration |-> CeilDiv(length * Second, Rate)]

\* read_window: the first and the last bucket, the number of points, the buckets of each.
Visible(header, window) ==
    LET start == Clamp(window.from, 0, header.duration - 1)
        end == Clamp(window.to, start + 1, header.duration)
        first == (start * Rate) \div (BucketSize * Second)
        last == Min({CeilDiv(end * Rate, BucketSize * Second), header.count})
    IN  [start |-> start, end |-> end, first |-> first,
         number |-> Max({IF last > first THEN last - first ELSE 0, 1})]
PointsOf(seen, window) ==
    LET n == seen.number
        k == Min({Clamp(window.points, MinPoints, MaxPoints), n})
        From(i) == ((i - 1) * n) \div k
        To(i) == Max({(i * n) \div k, From(i) + 1})
    IN  [i \in 1..k |-> {seen.first + j : j \in From(i)..To(i) - 1}]

Building(l) == load[l].at \in {"write", "remove", "rename"}
Step(l, to) == load' = [load EXCEPT ![l].at = to]
Returns(l, result) ==
    /\ load' = [load EXCEPT ![l] = Idle]
    /\ answer' = result
Failed(l) == [error |-> TRUE, missed |-> sound = None, beside |-> load[l].beside,
              stale |-> alike \/ crossed]

(***************************************************************************)
(* A load.                                                                 *)
(***************************************************************************)
BeginLoad(l, window) ==
    /\ load[l].at = "idle" /\ sound # None
    /\ begun < MaxLoads /\ begun' = begun + 1
    /\ load' = [load EXCEPT ![l] =
                  [at |-> "header", window |-> window, mark |-> sound.mark,
                   source |-> <<sound.length, sound.stamp>>, header |-> None,
                   from |-> None, file |-> None, written |-> 0,
                   beside |-> \E o \in Loads : Building(o)]]
    /\ answer' = None
    /\ UNCHANGED <<sound, names, data, sounds, ghosts, troubles>>

CacheHeader == IF names.cache = None THEN None ELSE data[names.cache].header
\* Mutant of Fresh: the time of the audio is left out.
SameLength(header, source) == header # None /\ header.source[1] = source[1]
Fresh(header, source) == header # None /\ header.source = source

CheckHeader(l) ==
    /\ load[l].at = "header"
    /\ load' = IF Fresh(CacheHeader, load[l].source)
               THEN [load EXCEPT ![l].at = "read", ![l].header = CacheHeader]
               ELSE [load EXCEPT ![l].at = "open"]
    /\ UNCHANGED <<sound, names, data, answer, sounds, ghosts, bounds>>

OpenAudio(l) ==
    /\ load[l].at = "open"
    /\ IF sound = None THEN Returns(l, Failed(l))
       ELSE /\ load' = [load EXCEPT ![l].at = "create", ![l].from = sound,
                                    ![l].header = HeaderOf(load[l].source, sound.length)]
            /\ UNCHANGED answer
    /\ UNCHANGED <<sound, names, data, sounds, ghosts, bounds>>

\* A part that is there is emptied, whoever writes it.
CreatePart(l) ==
    /\ load[l].at = "create"
    /\ LET file == IF names.part = None THEN Len(data) + 1 ELSE names.part
           blank == [header |-> None, buckets |-> <<>>] IN
       /\ data' = IF file > Len(data) THEN Append(data, blank)
                                      ELSE [data EXCEPT ![file] = blank]
       /\ names' = [names EXCEPT !.part = file]
       /\ load' = [o \in Loads |->
            IF o = l THEN [load[l] EXCEPT !.at = "write", !.file = file,
                            !.beside = @ \/ \E k \in Loads \ {l} : Building(k)]
            ELSE IF load[o].at = "idle" THEN load[o] ELSE [load[o] EXCEPT !.beside = TRUE]]
       /\ crossed' = (crossed \/ \E o \in Loads \ {l} :
                        Building(o) /\ load[o].from.mark # load[l].from.mark)
    /\ UNCHANGED <<sound, answer, sounds, alike, bounds>>

\* Position 0 is the header.  Bytes that were never written before it read as none.
Put(contents, l) ==
    LET k == load[l].written
        old == contents.buckets IN
    IF k = 0 THEN [contents EXCEPT !.header = load[l].header]
    ELSE [contents EXCEPT !.buckets =
            [i \in 1..Max({k, Len(old)}) |->
                IF i = k THEN <<load[l].from.mark, k - 1>>
                ELSE IF i <= Len(old) THEN old[i] ELSE None]]
Write(l) ==
    /\ load[l].at = "write"
    /\ data' = [data EXCEPT ![load[l].file] = Put(@, l)]
    /\ load' = IF load[l].written = load[l].header.count
               THEN [load EXCEPT ![l].at = "remove"]
               ELSE [load EXCEPT ![l].written = @ + 1]
    /\ UNCHANGED <<sound, names, answer, sounds, ghosts, bounds>>

\* The name goes, also when another build writes there.
WriteFails(l) ==
    /\ load[l].at = "write" /\ troubles < MaxTroubles
    /\ names' = [names EXCEPT !.part = None]
    /\ load' = [load EXCEPT ![l] = Idle] /\ answer' = None
    /\ troubles' = troubles + 1
    /\ crossed' = (crossed \/ load[l].file = names.cache)
    /\ UNCHANGED <<sound, data, sounds, alike, begun>>

RemoveCache(l) ==
    /\ load[l].at = "remove"
    /\ names' = [names EXCEPT !.cache = None]
    /\ Step(l, "rename")
    /\ UNCHANGED <<sound, data, answer, sounds, ghosts, bounds>>

RenamePart(l) ==
    /\ load[l].at = "rename"
    /\ IF names.part = None THEN Returns(l, Failed(l)) /\ UNCHANGED names
       ELSE /\ names' = [cache |-> names.part, part |-> None]
            /\ Step(l, "read") /\ UNCHANGED answer
    /\ UNCHANGED <<sound, data, sounds, ghosts, bounds>>

\* The file is opened again; the header is the one this load has.
ReadWindow(l) ==
    /\ load[l].at = "read"
    /\ LET header == load[l].header
           seen == Visible(header, load[l].window)
           points == PointsOf(seen, load[l].window)
           buckets == IF names.cache = None THEN <<>> ELSE data[names.cache].buckets IN
       Returns(l, IF seen.first + seen.number > Len(buckets) THEN Failed(l)
                  ELSE [error |-> FALSE, mark |-> load[l].mark, start |-> seen.start,
                        end |-> seen.end,
                        peaks |-> [i \in DOMAIN points |->
                                     {buckets[b + 1] : b \in points[i]}],
                        beside |-> load[l].beside, stale |-> alike \/ crossed])
    /\ UNCHANGED <<sound, names, data, sounds, ghosts, bounds>>

(***************************************************************************)
(* The rest of the world.                                                  *)
(***************************************************************************)
\* The task is retried: prepare_audio renames a new file into place.
ReplaceAudio(length, stamp) ==
    /\ troubles < MaxTroubles /\ troubles' = troubles + 1
    /\ sound # None => stamp >= sound.stamp
    /\ sound' = [length |-> length, stamp |-> stamp, mark |-> Len(sounds) + 1]
    /\ sounds' = Append(sounds, sound')
    /\ alike' = (alike \/ \E k \in DOMAIN sounds : /\ sounds[k].length = length
                                                 /\ sounds[k].stamp = stamp)
    /\ UNCHANGED <<names, data, load, answer, crossed, begun>>

RemoveAudio ==
    /\ sound # None /\ troubles < MaxTroubles
    /\ troubles' = troubles + 1
    /\ sound' = None
    /\ UNCHANGED <<names, data, load, answer, sounds, ghosts, begun>>

\* The next process has a name of its own for its parts.
Quit ==
    /\ troubles < MaxTroubles /\ \E l \in Loads : load[l].at # "idle"
    /\ troubles' = troubles + 1
    /\ load' = [l \in Loads |-> Idle]
    /\ names' = [names EXCEPT !.part = None]
    /\ crossed' = (crossed \/ \E l \in Loads : Building(l) /\ load[l].file = names.cache)
    /\ UNCHANGED <<sound, data, answer, sounds, alike, begun>>

WaveNext ==
    \/ \E l \in Loads :
          \/ \E w \in Windows : BeginLoad(l, w)
          \/ CheckHeader(l) \/ OpenAudio(l) \/ CreatePart(l) \/ Write(l) \/ WriteFails(l)
          \/ RemoveCache(l) \/ RenamePart(l) \/ ReadWindow(l)
    \/ \E n \in Lengths, t \in Stamps : ReplaceAudio(n, t)
    \/ RemoveAudio \/ Quit

WaveSpec == WaveInit /\ [][WaveNext]_waveVars

WaveTypeOK ==
    /\ begun \in 0..MaxLoads /\ troubles \in 0..MaxTroubles
    /\ \A n \in {names.cache, names.part} \ {None} : n \in DOMAIN data
    /\ \A l \in Loads : Building(l) => load[l].file \in DOMAIN data

\* Bucket b has samples that sound between start and end.
Sounds(b, start, end) ==
    /\ b * BucketSize * Second < end * Rate
    /\ (b + 1) * BucketSize * Second > start * Rate

\* A load beside which none builds answers with the buckets of its window, each of them
\* once and in order, all of one audio file that is no older than the one it began with,
\* and fails only without audio (waveform.rs:139).
AnswerWhole ==
    answer # None /\ ~answer.beside /\ ~answer.stale =>
        IF answer.error THEN answer.missed
        ELSE LET peaks == answer.peaks
                 seen == UNION {peaks[i] : i \in DOMAIN peaks} IN
             /\ None \notin seen
             /\ \E mark \in answer.mark..Len(sounds) :
                   seen = {<<mark, b>> : b \in
                             {k \in 0..CeilDiv(sounds[mark].length, BucketSize) - 1 :
                                Sounds(k, answer.start, answer.end)}}
             /\ \A i, j \in DOMAIN peaks : \A x \in peaks[i], y \in peaks[j] :
                   i < j => x[2] < y[2]

\* A cache that is trusted, by its length and its time, has every bucket of the audio
\* there is (waveform.rs:58).
CacheWhole ==
    (/\ ~alike /\ ~crossed /\ \A l \in Loads : ~Building(l)
     /\ sound # None /\ Fresh(CacheHeader, <<sound.length, sound.stamp>>))
    => data[names.cache].buckets =
         [k \in 1..CeilDiv(sound.length, BucketSize) |-> <<sound.mark, k - 1>>]

\* Answers and caches are whole.
WaveformHonest == AnswerWhole /\ CacheWhole
=============================================================================
