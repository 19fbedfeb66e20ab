--------------------------- MODULE CloudRecognition ----------------------------
(***************************************************************************)
(* The recognition of a task's audio by a cloud service (gemini_asr.rs):   *)
(* the audio is uploaded a chunk at a time, the service is asked for the   *)
(* words of the uploaded file, and the file is deleted again whatever it   *)
(* answered.  The recognition may be dropped wherever it waits, and the    *)
(* audio may be replaced beside it.                                        *)
(*                                                                         *)
(* Byte k of the audio with a mark is <<mark, k>>.                         *)
(***************************************************************************)
EXTENDS Naturals, Sequences, FiniteSetsExt

CONSTANTS
    None,
    Lengths,       \* of an audio file
    ChunkSize,     \* 8 MiB
    WordCounts,    \* how many words the service may hear
    MaxCalls, MaxTroubles    \* bounds

VARIABLES
    audio,         \* [length, mark], or None
    call,          \* where the recognition is: [at, ...]
    session,       \* what the service has of an upload that is not finished, or None
    stored,        \* [upload, bytes]: the files the service keeps
    answer,        \* [words, heard] of the last recognition, no words when it failed, or
                   \* None
    abandoned,     \* ghost: the files left behind: the answer to the last chunk was lost,
                   \* the deletion failed, or the recognition was dropped
    replaced,      \* ghost: the audio was replaced since the recognition began
    calls, troubles

cloudVars == <<audio, call, session, stored, answer, abandoned, replaced, calls, troubles>>

Idle == [at |-> "idle"]
Failed == [words |-> 0, heard |-> <<>>]
Audio(length, mark) == [length |-> length, mark |-> mark]
BytesOf(a) == [k \in 1..a.length |-> <<a.mark, k>>]

CloudInit ==
    /\ audio \in {None} \cup {Audio(n, 1) : n \in Lengths}
    /\ call = Idle /\ session = None /\ stored = {} /\ answer = None
    /\ abandoned = {} /\ replaced = FALSE /\ calls = 0 /\ troubles = 0

Trouble == troubles < MaxTroubles /\ troubles' = troubles + 1
Ends(with) == call' = Idle /\ answer' = with
Steps(with) == call' = with /\ UNCHANGED answer
service == <<session, stored, abandoned>>

\* Only with the user's consent to the upload, and with timestamps of words.
Begin(authorized) ==
    /\ call = Idle /\ calls < MaxCalls
    /\ calls' = calls + 1 /\ replaced' = FALSE
    /\ IF authorized
       THEN /\ call' = [at |-> "inspect", total |-> 0, offset |-> 0, file |-> None,
                        words |-> None]
            /\ answer' = None
       ELSE Ends(Failed)
    /\ UNCHANGED <<audio, service, troubles>>

\* The length that is uploaded is the one the file had then.
Inspect ==
    /\ call.at = "inspect"
    /\ IF audio = None THEN Ends(Failed)
       ELSE Steps([call EXCEPT !.at = "start", !.total = audio.length])
    /\ UNCHANGED <<audio, service, replaced, calls, troubles>>

StartUpload ==
    /\ call.at = "start"
    /\ \/ session' = <<>> /\ Steps([call EXCEPT !.at = "open"]) /\ UNCHANGED troubles
       \/ Trouble /\ Ends(Failed) /\ UNCHANGED session
    /\ UNCHANGED <<audio, stored, abandoned, replaced, calls>>

OpenAudio ==
    /\ call.at = "open"
    /\ IF audio = None THEN Ends(Failed) ELSE Steps([call EXCEPT !.at = "send"])
    /\ UNCHANGED <<audio, service, replaced, calls, troubles>>

ChunkLength == Min({call.total - call.offset, ChunkSize})

\* read_exact fails when the file ends before.  The last chunk makes the upload a file,
\* which stays when its answer is lost.
SendChunk ==
    LET end == call.offset + ChunkLength
        final == end = call.total
        file == [upload |-> calls,
                 bytes |-> session \o SubSeq(BytesOf(audio), call.offset + 1, end)] IN
    /\ call.at = "send"
    /\ IF audio = None \/ end > audio.length
       THEN Ends(Failed) /\ UNCHANGED <<service, troubles>>
       ELSE /\ session' = IF final THEN None ELSE file.bytes
            /\ stored' = IF final THEN stored \cup {file} ELSE stored
            /\ \/ /\ Steps(IF final THEN [call EXCEPT !.at = "ask", !.file = file]
                                     ELSE [call EXCEPT !.offset = @ + ChunkSize])
                  /\ UNCHANGED <<abandoned, troubles>>
               \/ /\ Trouble /\ Ends(Failed)
                  /\ abandoned' = IF final THEN abandoned \cup {file} ELSE abandoned
    /\ UNCHANGED <<audio, replaced, calls>>

\* The chunk does not arrive.
UploadFails ==
    /\ call.at = "send" /\ Trouble
    /\ Ends(Failed)
    /\ UNCHANGED <<audio, service, replaced, calls>>

\* An error is kept until the file is deleted.
AskWords ==
    /\ call.at = "ask"
    /\ \/ \E n \in WordCounts :
             Steps([call EXCEPT !.at = "delete", !.words = n]) /\ UNCHANGED troubles
       \/ Trouble /\ Steps([call EXCEPT !.at = "delete"])
    /\ UNCHANGED <<audio, service, replaced, calls>>

\* Mutant of DeleteFile: after an error the file is not deleted.
DeleteAnswered ==
    /\ call.at = "delete"
    /\ \/ /\ stored' = IF call.words = None THEN stored ELSE stored \ {call.file}
          /\ UNCHANGED <<abandoned, troubles>>
       \/ Trouble /\ abandoned' = abandoned \cup {call.file} /\ UNCHANGED stored
    /\ Steps([call EXCEPT !.at = "parse"])
    /\ UNCHANGED <<audio, session, replaced, calls>>
\* A failure is only logged.
DeleteFile ==
    /\ call.at = "delete"
    /\ \/ stored' = stored \ {call.file} /\ UNCHANGED <<abandoned, troubles>>
       \/ Trouble /\ abandoned' = abandoned \cup {call.file} /\ UNCHANGED stored
    /\ Steps([call EXCEPT !.at = "parse"])
    /\ UNCHANGED <<audio, session, replaced, calls>>

\* The service's error, or an answer without words, is the recognition's.
ParseWords ==
    /\ call.at = "parse"
    /\ Ends(IF call.words \in {None, 0} THEN Failed
            ELSE [words |-> call.words, heard |-> call.file.bytes])
    /\ UNCHANGED <<audio, service, replaced, calls, troubles>>

\* The task or the candidate is cancelled, or the program quits: the call is dropped where
\* it waits.
Cancel ==
    /\ call # Idle /\ Trouble
    /\ Ends(Failed)
    /\ abandoned' = IF call.at \in {"ask", "delete"} THEN abandoned \cup {call.file}
                    ELSE abandoned
    /\ UNCHANGED <<audio, session, stored, replaced, calls>>

\* Somebody else extracts the audio again, over the file.
ReplaceAudio(length) ==
    /\ audio # None /\ Trouble
    /\ audio.mark = 1 /\ audio' = Audio(length, 2)
    /\ replaced' = TRUE
    /\ UNCHANGED <<call, service, answer, calls>>

CloudNext ==
    \/ \E authorized \in BOOLEAN : Begin(authorized)
    \/ Inspect \/ StartUpload \/ OpenAudio \/ SendChunk \/ UploadFails
    \/ AskWords \/ DeleteFile \/ ParseWords \/ Cancel
    \/ \E n \in Lengths : ReplaceAudio(n)

CloudSpec == CloudInit /\ [][CloudNext]_cloudVars

\* The words of an answer are those of the whole audio file, byte by byte, unless it was
\* replaced meanwhile; and between the recognitions the service keeps no file but those
\* that were left behind by a failure or by a cancellation (gemini_asr.rs:84).
CloudHonest ==
    /\ answer \notin {None, Failed} /\ ~replaced => answer.heard = BytesOf(audio)
    /\ call = Idle => stored \subseteq abandoned
=============================================================================
