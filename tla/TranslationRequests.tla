--------------------------- MODULE TranslationRequests ---------------------------
(***************************************************************************)
(* Requests for translation that are sent together: BatchingProvider       *)
(* (translation_batching.rs) over the adapter of an OpenAI-compatible      *)
(* service (openai_compatible.rs), as execute_translation_group calls it   *)
(* (translation_use_case.rs).                                              *)
(*                                                                         *)
(* A request is [options, targets, context]: targets a sequence and        *)
(* context a set of <<id, text>>.  A translation is known by its text.     *)
(***************************************************************************)
EXTENDS Integers, Sequences, FiniteSets, SequencesExt

CONSTANTS
    None,
    Callers,
    Requests,         \* what a caller may ask
    UnknownId,        \* an ID that no request has
    MaxTargets,       \* MAX_TARGETS; characters and bytes are counted with it
    MaxFailures       \* bound: requests that fail or are answered wrongly

VARIABLES
    call,             \* of a caller: [stage, request, answer]
    waiting,          \* pending: sequence of callers
    collecting,       \* the launched worker sleeps before it takes them
    batches,          \* sent: set of [callers, body, try]
    failures

requestVars == <<call, waiting, collecting, batches, failures>>

RequestInit ==
    /\ call = [c \in Callers |-> [stage |-> "idle", request |-> None, answer |-> None]]
    /\ waiting = <<>> /\ collecting = FALSE
    /\ batches = {}
    /\ failures = 0

\* is_closed: the future of the caller was dropped.
Closed(c) == call[c].stage = "dropped"
Targets(callers) == FlattenSeq([n \in DOMAIN callers |-> call[callers[n]].request.targets])
Ids(targets) == {targets[n][1] : n \in DOMAIN targets}
Texts(request) == request.context \cup ToSet(request.targets)

(***************************************************************************)
(* Callers.                                                                *)
(***************************************************************************)
\* translate: the first to wait launches the worker.
Request(c, request) ==
    /\ call[c].stage = "idle"
    /\ call' = [call EXCEPT ![c] = [stage |-> "waiting", request |-> request, answer |-> None]]
    /\ waiting' = Append(waiting, c)
    /\ collecting' = (collecting \/ waiting = <<>>)
    /\ UNCHANGED <<batches, failures>>

\* A task that is cancelled or paused drops its future.
Drop(c) ==
    /\ call[c].stage = "waiting"
    /\ call' = [call EXCEPT ![c].stage = "dropped"]
    /\ UNCHANGED <<waiting, collecting, batches, failures>>

(***************************************************************************)
(* Batches.                                                                *)
(***************************************************************************)
\* Mutant of OneText: only the texts to translate are compared.
OneTargetText(callers, next) ==
    \A c \in ToSet(callers) : \A p \in ToSet(call[c].request.targets), q \in Texts(call[next].request) :
        p[1] = q[1] => p[2] = q[2]
\* No ID with two texts, whether to translate or as context.
OneText(callers, next) ==
    \A p, q \in UNION {Texts(call[c].request) : c \in ToSet(callers) \cup {next}} :
        p[1] = q[1] => p[2] = q[2]
\* compatible
Compatible(callers, next) ==
    LET request == call[next].request IN
    /\ call[callers[1]].request.options = request.options
    /\ Len(Targets(callers)) + Len(request.targets) <= MaxTargets
    /\ Ids(Targets(callers)) \cap Ids(request.targets) = {}
    /\ OneText(callers, next)
\* pack: in the order of arrival, a caller with the last batch or in one of its own.
Packed ==
    LET queue == SelectSeq(waiting, LAMBDA c : ~Closed(c))
        add(packed, c) ==
            LET open == {b \in ToSet(packed) : b = Last(packed) /\ Compatible(b, c)} IN
            IF open = {} THEN Append(packed, <<c>>)
            ELSE Append(Front(packed), Append(Last(packed), c)) IN
    FoldLeft(add, <<>>, queue)
\* combined: the text the service is given for an ID, and for which it is asked.
Body(callers) ==
    IF Len(callers) = 1 THEN call[callers[1]].request
    ELSE LET targets == Targets(callers)
             context == UNION {call[c].request.context : c \in ToSet(callers)} IN
         [options |-> call[callers[1]].request.options,
          targets |-> targets,
          context |-> {p \in context : p[1] \notin Ids(targets)}]
SendBatches ==
    /\ collecting
    /\ waiting' = <<>> /\ collecting' = FALSE
    /\ batches' = batches \cup
                     {[callers |-> b, body |-> Body(b), try |-> 1] : b \in ToSet(Packed)}
    /\ UNCHANGED <<call, failures>>

(***************************************************************************)
(* The service and its adapter.                                            *)
(***************************************************************************)
\* An answer: a sequence of <<id, translation>>, with IDs missing, doubled, unknown or in
\* another order.
Answers(body) ==
    LET given == ToSet(body.targets) \cup {<<UnknownId, None>>} IN
    UNION {[1..n -> given] : n \in {Len(body.targets) - 1, Len(body.targets)}}

\* decode_response, and validate_translation_results after it: every ID, once.
Complete(answer, ids) == Len(answer) = Cardinality(ids) /\ Ids(answer) = ids

\* send_batch: what a caller is given of the answer.
ForCaller(answer, c) ==
    SelectSeq(answer, LAMBDA t : t[1] \in Ids(call[c].request.targets))

\* send_batch and execute_translation_group.
Answered(b, answer) ==
    call' = [c \in Callers |->
        IF c \notin ToSet(b.callers) \/ Closed(c) THEN call[c]
        ELSE IF Complete(ForCaller(answer, c), Ids(call[c].request.targets))
        THEN [call[c] EXCEPT !.stage = "answered", !.answer = ForCaller(answer, c)]
        ELSE [call[c] EXCEPT !.stage = "failed"]]
AnswerBatch(b) ==
    /\ batches' = batches \ {b}
    /\ \E answer \in Answers(b.body) :
          Complete(answer, Ids(b.body.targets)) /\ Answered(b, answer)
    /\ UNCHANGED <<waiting, collecting, failures>>

\* retry_once: a request that fails, or whose answer is not complete or lacks a protected
\* term (restore_terms), is sent once more; then every caller is told.
FailBatch(b) ==
    /\ failures < MaxFailures
    /\ failures' = failures + 1
    /\ \/ b.try = 1
          /\ batches' = (batches \ {b}) \cup {[b EXCEPT !.try = 2]}
          /\ UNCHANGED call
       \/ b.try = 2
          /\ batches' = batches \ {b}
          /\ call' = [c \in Callers |->
                IF c \notin ToSet(b.callers) \/ Closed(c) THEN call[c]
                ELSE [call[c] EXCEPT !.stage = "failed"]]
    /\ UNCHANGED <<waiting, collecting>>

\* send_batch: the request is given up when nobody waits for it.
AbandonBatch(b) ==
    /\ \A c \in ToSet(b.callers) : Closed(c)
    /\ batches' = batches \ {b}
    /\ UNCHANGED <<call, waiting, collecting, failures>>

Batches == (\E b \in batches : AbandonBatch(b) \/ AnswerBatch(b)) \/ SendBatches
RequestNext ==
    \/ Batches
    \/ \E b \in batches : FailBatch(b)
    \/ \E c \in Callers : Drop(c) \/ \E request \in Requests : Request(c, request)
\* The worker wakes up, and the service answers or fails within the time limit of the client.
RequestFairness == WF_requestVars(Batches)
RequestSpec == RequestInit /\ [][RequestNext]_requestVars /\ RequestFairness

(***************************************************************************)
(* Properties.                                                             *)
(***************************************************************************)
\* What is sent together is for every caller what it would have asked alone: its options,
\* every ID of its own with the text it gave, within the limits of a request; and a
\* caller is answered with exactly its own targets, translated from its own texts
\* (compatible, combined, send_batch).
RequestsOwn ==
    /\ \A b \in batches :
        LET body == b.body IN
        /\ Cardinality(Ids(body.targets)) = Len(body.targets)
        /\ Len(body.targets) <= MaxTargets \/ Len(b.callers) = 1
        /\ \A c \in ToSet(b.callers) :
            /\ call[c].request.options = body.options
            /\ ToSet(call[c].request.targets) \subseteq ToSet(body.targets)
            /\ call[c].request.context \subseteq Texts(body)
        /\ \A p, q \in Texts(body) : p[1] = q[1] => p = q
    /\ \A c \in Callers : call[c].stage = "answered" =>
        /\ ToSet(call[c].answer) = ToSet(call[c].request.targets)
        /\ Len(call[c].answer) = Len(call[c].request.targets)

\* A caller that waits is answered, refused or gone (translate, send_batch).
RequestsRest == \A c \in Callers : call[c].stage # "waiting"
RequestsEnd == []<>RequestsRest
=============================================================================
