----------------------------- MODULE MediaServing -----------------------------
(***************************************************************************)
(* The media server that the player reads from: a registered file is       *)
(* opened for each request, its length is read once, the ranges asked for  *)
(* are checked against it, and the body is read piece by piece from that   *)
(* handle, while the file may be rewritten, cut or replaced.               *)
(*                                                                         *)
(* A file is the length and the mark of what was written to it last; a     *)
(* byte of a body is <<position, mark>>, the framing between the ranges of *)
(* a multipart body is one Frame for each piece of it.  Requests are       *)
(* independent of each other, so that one is answered at a time.           *)
(***************************************************************************)
EXTENDS Naturals, Sequences, SequencesExt

CONSTANTS
    None, Frame,
    Lengths,     \* lengths a file may have
    Ranges,      \* what the Range header may hold: sequences of [first, last]
    MaxRanges,   \* ranges answered in one response
    ReadSize,
    MaxWrites    \* bound of the changes of the file

VARIABLES
    file,        \* the file at the path: [number, length, mark], or None
    registered,  \* the path has a token
    handle,      \* the open file: [number, length, mark], or None
    reply,       \* [status, declared, asked, length, mark] of the answer, or None
    pieces,      \* what is left to send: Frame or <<start, left>>
    body,        \* what was sent
    ending,      \* None, "complete" or "error"
    writes

mediaVars == <<file, registered, handle, reply, pieces, body, ending, writes>>
answer == <<handle, reply, pieces, body, ending>>

Least(x, y) == IF x < y THEN x ELSE y

MediaInit ==
    /\ \E n \in Lengths : file = [number |-> 1, length |-> n, mark |-> 0]
    /\ registered = FALSE
    /\ handle = None /\ reply = None /\ pieces = <<>> /\ body = <<>> /\ ending = None
    /\ writes = 0

(***************************************************************************)
(* parse_byte_ranges: inclusive positions, or <<>> when any part is wrong. *)
(***************************************************************************)
Span(part, length) ==
    IF part.first = None
    THEN <<length - Least(part.last, length), length - 1>>
    ELSE <<part.first, IF part.last = None THEN length - 1 ELSE Least(part.last, length - 1)>>

Sound(part, length) ==
    /\ part.first = None => part.last # None /\ part.last > 0
    /\ Span(part, length)[1] < length
    /\ Span(part, length)[1] <= Span(part, length)[2]

\* Mutant of ParseByteRanges: an end past the file is kept.
ParseUnclamped(asked, length) ==
    IF \/ length = 0 \/ Len(asked) > MaxRanges
       \/ \E k \in DOMAIN asked : ~Sound(asked[k], length)
    THEN <<>>
    ELSE [k \in DOMAIN asked |->
            IF asked[k].first # None /\ asked[k].last # None
            THEN <<asked[k].first, asked[k].last>> ELSE Span(asked[k], length)]

ParseByteRanges(asked, length) ==
    IF \/ length = 0 \/ Len(asked) > MaxRanges
       \/ \E k \in DOMAIN asked : ~Sound(asked[k], length)
    THEN <<>>
    ELSE [k \in DOMAIN asked |-> Span(asked[k], length)]

Size(span) == span[2] - span[1] + 1
Whole(span) == <<span[1], Size(span)>>
\* Each range of a multipart body has a frame before and after it, the body one at its end.
Framed(ranges) ==
    FlattenSeq([k \in DOMAIN ranges |-> <<Frame, Whole(ranges[k]), Frame>>]) \o <<Frame>>
SizeOf(rest) ==
    LET total[k \in 0..Len(rest)] ==
            IF k = 0 THEN 0
            ELSE total[k - 1] + (IF rest[k] = Frame THEN 1 ELSE rest[k][2])
    IN  total[Len(rest)]

Register ==
    /\ file # None
    /\ registered' = TRUE
    /\ UNCHANGED <<file, answer, writes>>

Replies(status, asked, rest) ==
    /\ reply' = [status |-> status, declared |-> SizeOf(rest), asked |-> asked,
                 length |-> file.length, mark |-> file.mark]
    /\ pieces' = rest

\* serve: an unknown token or a missing file is 404, which starts no body.
Serve(asked) ==
    /\ registered /\ file # None /\ handle = None
    /\ handle' = file /\ body' = <<>> /\ ending' = None
    /\ LET spans == ParseByteRanges(asked, file.length) IN
       CASE asked = <<>> -> Replies(200, asked, <<<<0, file.length>>>>)
         [] asked # <<>> /\ spans = <<>> -> Replies(416, asked, <<>>)
         [] Len(spans) = 1 -> Replies(206, asked, <<Whole(spans[1])>>)
         [] Len(spans) > 1 -> Replies(206, asked, Framed(spans))
    /\ UNCHANGED <<file, registered, writes>>

(***************************************************************************)
(* stream_file: each poll sends one chunk.                                 *)
(***************************************************************************)
Sent(start, n) == [k \in 1..n |-> <<start + k - 1, handle.mark>>]

SendFrame ==
    /\ handle # None /\ ending = None /\ pieces # <<>> /\ Head(pieces) = Frame
    /\ body' = Append(body, Frame) /\ pieces' = Tail(pieces)
    /\ UNCHANGED <<file, registered, handle, reply, ending, writes>>

\* A read may return fewer bytes than it was asked for, and none past the end.
SendBytes ==
    /\ handle # None /\ ending = None /\ pieces # <<>> /\ Head(pieces) # Frame
    /\ LET start == Head(pieces)[1]
           left == Head(pieces)[2]
           available == IF start < handle.length THEN handle.length - start ELSE 0 IN
       IF left = 0
       THEN pieces' = Tail(pieces) /\ UNCHANGED <<body, ending>>
       ELSE IF available = 0
       THEN ending' = "error" /\ UNCHANGED <<body, pieces>>
       ELSE \E n \in 1..Least(Least(left, ReadSize), available) :
               /\ body' = body \o Sent(start, n)
               /\ pieces' = IF left > n THEN <<<<start + n, left - n>>>> \o Tail(pieces)
                                        ELSE Tail(pieces)
               /\ UNCHANGED ending
    /\ UNCHANGED <<file, registered, handle, reply, writes>>

ReadFails ==
    /\ handle # None /\ ending = None /\ pieces # <<>> /\ Head(pieces) # Frame
    /\ Head(pieces)[2] > 0
    /\ writes < MaxWrites /\ writes' = writes + 1
    /\ ending' = "error"
    /\ UNCHANGED <<file, registered, handle, reply, pieces, body>>

Complete ==
    /\ handle # None /\ ending = None /\ pieces = <<>>
    /\ ending' = "complete"
    /\ UNCHANGED <<file, registered, handle, reply, pieces, body, writes>>

\* The player closes a finished connection, or drops one that is not.
CloseConnection ==
    /\ handle # None
    /\ handle' = None /\ reply' = None /\ pieces' = <<>> /\ body' = <<>> /\ ending' = None
    /\ UNCHANGED <<file, registered, writes>>

(***************************************************************************)
(* The file, in the hands of other programs.  A handle sees what is        *)
(* written into its file, not that another took its place.                 *)
(***************************************************************************)
WriteInPlace(n) ==
    /\ file # None /\ writes < MaxWrites /\ writes' = writes + 1
    /\ \E mark \in {file.mark, writes'} :
          file' = [file EXCEPT !.length = n, !.mark = IF n < file.length THEN @ ELSE mark]
    /\ handle' = IF handle # None /\ handle.number = file.number THEN file' ELSE handle
    /\ UNCHANGED <<registered, reply, pieces, body, ending>>

ReplaceFile(n) ==
    /\ writes < MaxWrites /\ writes' = writes + 1
    /\ \/ file' = [number |-> writes' + 1, length |-> n, mark |-> writes']
       \/ file # None /\ file' = None
    /\ UNCHANGED <<registered, answer>>

MediaNext ==
    \/ Register \/ \E asked \in Ranges : Serve(asked)
    \/ SendFrame \/ SendBytes \/ ReadFails \/ Complete \/ CloseConnection
    \/ \E n \in Lengths : WriteInPlace(n) \/ ReplaceFile(n)

MediaSpec == MediaInit /\ [][MediaNext]_mediaVars

MediaTypeOK ==
    /\ registered \in BOOLEAN /\ ending \in {None, "complete", "error"}
    /\ handle = None <=> reply = None
    /\ reply # None => reply.status \in {200, 206, 416} /\ reply.declared \in Nat

\* The positions that a part of a Range header names in a file.
Named(part, length) ==
    IF part.first = None
    THEN IF part.last = None THEN {}
         ELSE {k \in 0..length : k < length /\ k + part.last >= length}
    ELSE {k \in part.first..length : k < length /\ (part.last # None => k <= part.last)}

\* The positions of an interval, in order.
InOrder(interval) == [k \in 1..Cardinality(interval) |-> Min(interval) + k - 1]

\* A request is refused when one of its parts names no position.
Refused(asked, length) ==
    /\ asked # <<>>
    /\ Len(asked) > MaxRanges \/ \E k \in DOMAIN asked : Named(asked[k], length) = {}

\* The positions that an answer is to hold.
Promised(asked, length) ==
    IF Refused(asked, length) THEN <<>>
    ELSE IF asked = <<>> THEN [k \in 1..length |-> k - 1]
    ELSE IF Len(asked) = 1 THEN InOrder(Named(asked[1], length))
    ELSE FlattenSeq([k \in DOMAIN asked |->
                        <<Frame>> \o InOrder(Named(asked[k], length)) \o <<Frame>>]) \o <<Frame>>

\* The positions of bytes.
Places(bytes) == [k \in DOMAIN bytes |-> IF bytes[k] = Frame THEN Frame ELSE bytes[k][1]]

\* What the headers promise is what the body holds: each range is exactly the positions
\* asked for that the file had when it was opened, in the order asked for, and
\* none is answered when one of them names no position; a body that ends without an
\* error is as long as declared; every byte comes from its position, of the file
\* that was opened even if another took its place, and of one writing of it unless it
\* was written in place (media_server.rs:292).
ServedAsDeclared ==
    reply # None =>
        LET promised == Promised(reply.asked, reply.length) IN
        /\ reply.status = 416 <=> Refused(reply.asked, reply.length)
        /\ reply.declared = Len(promised)
        /\ IsPrefix(Places(body), promised)
        /\ ending = "complete" => Len(body) = reply.declared
        /\ ending = "error" => writes > 0
        /\ \A k \in DOMAIN body :
              body[k] # Frame /\ body[k][2] # reply.mark => handle.mark # reply.mark
=============================================================================
