--------------------------- MODULE TranslationServer ---------------------------
(***************************************************************************)
(* The translation server that the program manages itself                  *)
(* (local_llama.rs): a translation makes sure that a llama-server is       *)
(* there, under the lock of its handle, and sends its request when the     *)
(* lock is given back.  A server that does not answer is stopped and       *)
(* another one started at the same address.  A translation may be dropped  *)
(* wherever it waits.                                                      *)
(* The model is of one runtime, the callers of one provider; each task has *)
(* a provider of its own (task_provider), and what two of them do to one   *)
(* address is left out.                                                    *)
(*                                                                         *)
(* A process is loading, ready, hung, dying once it was killed, or dead.   *)
(* Callers that wait for the lock are the ones that are about to take it.  *)
(***************************************************************************)
EXTENDS Naturals, Sequences

CONSTANTS None, Callers, MaxCalls, MaxUpsets

VARIABLES
    process,       \* the state of each process that was started
    handle,        \* the process of the handle, or None
    lock,          \* the caller that holds the handle
    at,            \* of each caller: where it is
    sent,          \* of each caller: the process its request went to, or None
    outcome,       \* of each caller: how its last call ended, None while it runs
    calls,
    upsets         \* processes that die or hang, answers that are late, missing files

serverVars == <<process, handle, lock, at, sent, outcome, calls, upsets>>

ServerInit ==
    /\ process = <<>> /\ handle = None /\ lock = None
    /\ at = [c \in Callers |-> "idle"] /\ sent = [c \in Callers |-> None]
    /\ outcome = [c \in Callers |-> None] /\ calls = 0 /\ upsets = 0

Upset == upsets < MaxUpsets /\ upsets' = upsets + 1
Listening == {p \in DOMAIN process : process[p] # "dead"}
Serves(p) == p # None /\ process[p] = "ready"

\* The caller goes on, with or without the lock.
Goes(c, to) == at' = [at EXCEPT ![c] = to] /\ UNCHANGED <<lock, outcome>>
Unlocks(c, to) == /\ at' = [at EXCEPT ![c] = to] /\ UNCHANGED outcome
                  /\ lock' = None
Ends(c, how) ==
    /\ at' = [at EXCEPT ![c] = "idle"] /\ outcome' = [outcome EXCEPT ![c] = how]
    /\ lock' = IF lock = c THEN None ELSE lock

(***************************************************************************)
(* ensure_started and the request.                                         *)
(***************************************************************************)
Call(c) ==
    /\ at[c] = "idle" /\ calls < MaxCalls /\ calls' = calls + 1
    /\ \/ /\ at' = [at EXCEPT ![c] = "lock"] /\ outcome' = [outcome EXCEPT ![c] = None]
          /\ UNCHANGED <<lock, upsets>>
       \/ Upset /\ Ends(c, "failed")
    /\ UNCHANGED <<process, handle, sent>>

\* Mutant of Free: the lock is not held while a server starts.
FreeWhileStarting(c) == lock # None => at[lock] = "poll"
Free(c) == lock = None
Lock(c) ==
    /\ at[c] = "lock" /\ Free(c)
    /\ lock' = c
    /\ at' = [at EXCEPT ![c] = IF handle = None THEN "start" ELSE "inspect"]
    /\ UNCHANGED <<process, handle, sent, outcome, calls, upsets>>

Inspect(c) ==
    /\ at[c] = "inspect"
    /\ IF process[handle] = "dead" THEN handle' = None /\ Goes(c, "start")
                                   ELSE Goes(c, "health") /\ UNCHANGED handle
    /\ UNCHANGED <<process, sent, calls, upsets>>

\* A server that is ready may be too busy to answer in time.
Health(c) ==
    /\ at[c] = "health"
    /\ \/ Serves(handle) /\ Unlocks(c, "send") /\ UNCHANGED <<process, upsets>>
       \/ /\ IF Serves(handle) THEN Upset ELSE UNCHANGED upsets
          /\ process' = [process EXCEPT ![handle] = IF @ = "dead" THEN @ ELSE "dying"]
          /\ Goes(c, "stop")
    /\ UNCHANGED <<handle, sent, calls>>

Stop(c) ==
    /\ at[c] = "stop" /\ process[handle] = "dead"
    /\ handle' = None
    /\ Goes(c, "start")
    /\ UNCHANGED <<process, sent, calls, upsets>>

\* Of two processes at the address only the first can listen; a process cannot be
\* started without the file of the server.
Start(c) ==
    /\ at[c] = "start"
    /\ \/ /\ process' = Append(process, IF Listening = {} THEN "loading" ELSE "dead")
          /\ handle' = Len(process')
          /\ Goes(c, "poll") /\ UNCHANGED upsets
       \/ Upset /\ Ends(c, "failed") /\ UNCHANGED <<process, handle>>
    /\ UNCHANGED <<sent, calls>>

\* Every quarter of a second for a minute.
Poll(c) ==
    /\ at[c] = "poll"
    /\ \/ /\ process[handle] = "dead"
          /\ handle' = None /\ Ends(c, "failed")
       \/ Serves(handle) /\ Unlocks(c, "send") /\ UNCHANGED handle
    /\ UNCHANGED <<process, sent, calls, upsets>>

PollEnds(c) ==
    /\ at[c] = "poll" /\ ~Serves(handle)
    /\ IF process[handle] = "hung" THEN UNCHANGED upsets ELSE Upset
    /\ process' = [process EXCEPT ![handle] = IF @ = "dead" THEN @ ELSE "dying"]
    /\ Goes(c, "give up")
    /\ UNCHANGED <<handle, sent, calls>>

GiveUp(c) ==
    /\ at[c] = "give up" /\ process[handle] = "dead"
    /\ handle' = None
    /\ Ends(c, "failed")
    /\ UNCHANGED <<process, sent, calls, upsets>>

\* The request goes to the process that listens by then, and once more if it fails;
\* the server is not looked after in between.
RequestFails(c, again) == IF again THEN Ends(c, "failed") ELSE Goes(c, "send again")
Send(c, again) ==
    /\ at[c] = IF again THEN "send again" ELSE "send"
    /\ IF Listening = {} THEN RequestFails(c, again) /\ UNCHANGED sent
       ELSE /\ sent' = [sent EXCEPT ![c] = CHOOSE p \in Listening : TRUE]
            /\ Goes(c, IF again THEN "answer again" ELSE "answer")
    /\ UNCHANGED <<process, handle, calls, upsets>>

\* A process that hangs, or still loads, gives no answer in a minute.
Answer(c, again) ==
    /\ at[c] = IF again THEN "answer again" ELSE "answer"
    /\ IF Serves(sent[c]) THEN Ends(c, "translated") ELSE RequestFails(c, again)
    /\ sent' = [sent EXCEPT ![c] = None]
    /\ UNCHANGED <<process, handle, calls, upsets>>

\* The translation is cancelled: what it waits for is dropped, and with it the lock.
Cancel(c) ==
    /\ at[c] \in {"lock", "health", "stop", "poll", "give up", "answer", "answer again"}
    /\ Ends(c, "cancelled")
    /\ sent' = [sent EXCEPT ![c] = None]
    /\ UNCHANGED <<process, handle, calls, upsets>>

(***************************************************************************)
(* The process.                                                            *)
(***************************************************************************)
Becomes(p, to) ==
    /\ process' = [process EXCEPT ![p] = to]
    /\ UNCHANGED <<handle, lock, at, sent, outcome, calls>>
Loads(p) == process[p] = "loading" /\ Becomes(p, "ready") /\ UNCHANGED upsets
Exits(p) == process[p] = "dying" /\ Becomes(p, "dead") /\ UNCHANGED upsets
Breaks(p) ==
    \/ process[p] \in {"loading", "ready", "hung"} /\ Upset /\ Becomes(p, "dead")
    \/ process[p] \in {"loading", "ready"} /\ Upset /\ Becomes(p, "hung")

\* The settings are changed and no call uses the server: with its handle the process goes,
\* and the next one gets an address of its own.
Close ==
    /\ handle # None /\ \A c \in Callers : at[c] = "idle"
    /\ process' = <<>> /\ handle' = None
    /\ UNCHANGED <<lock, at, sent, outcome, calls, upsets>>

Proceeds(c) ==
    \/ Lock(c) \/ Inspect(c) \/ Health(c) \/ Stop(c) \/ Start(c)
    \/ Poll(c) \/ GiveUp(c) \/ \E again \in BOOLEAN : Send(c, again) \/ Answer(c, again)

ServerNext ==
    \/ \E c \in Callers : Call(c) \/ Proceeds(c) \/ PollEnds(c) \/ Cancel(c)
    \/ \E p \in DOMAIN process : Loads(p) \/ Exits(p) \/ Breaks(p)
    \/ Close

\* A server that hangs is given up after its minute.
Served ==
    \/ \E c \in Callers : Proceeds(c) \/ (PollEnds(c) /\ process[handle] = "hung")
    \/ \E p \in DOMAIN process : Loads(p) \/ Exits(p)

ServerSpec == ServerInit /\ [][ServerNext]_serverVars /\ WF_serverVars(Served)

ServerTypeOK ==
    /\ calls \in 0..MaxCalls /\ upsets \in 0..MaxUpsets
    /\ handle \in DOMAIN process \cup {None}
    /\ \A c \in Callers : at[c] \in {"inspect", "health", "stop", "start", "poll",
                                     "give up"} <=> lock = c

\* No two processes live at the address, and none lives that no handle can stop; as long
\* as no server dies, hangs or is late, every translation that is not cancelled
\* succeeds, however the calls and the cancelled ones interleave (local_llama.rs:116).
ServerKept ==
    /\ \A p, q \in Listening : p = q
    /\ \A p \in Listening : process[p] # "dying" => p = handle
    /\ upsets = 0 => \A c \in Callers : outcome[c] # "failed"

CallsRest == \A c \in Callers : at[c] = "idle"
CallsSettle == []<>CallsRest
=============================================================================
