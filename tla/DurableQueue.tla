---------------------------- MODULE DurableQueue ----------------------------
(***************************************************************************)
(* A host's durable queue and the SDK calls that deliver its events: the   *)
(* part privacy mutations, typed comments and erasures have in common.     *)
(* What the bytes say, what Pack does with them and what the host does     *)
(* with a result are left to the modules that extend this one.             *)
(*                                                                         *)
(* A call is SignedRequest's in larger steps (see QueuedCall): an attempt  *)
(* is sent, served, and then received in full or cut, unless the call is   *)
(* abandoned.  All three kinds of events classify errors alike; they       *)
(* differ in the attempts they are given.                                  *)
(***************************************************************************)
EXTENDS Dispositions

CONSTANTS
  Events,         \* user actions, each with the UUID of its event
  AttemptLimit,   \* max_attempts of the call that delivers them
  CrashLimit      \* bound on host crashes

ASSUME QueueAssumption ==
  /\ AttemptLimit \in 1..3
  /\ CrashLimit \in Nat
  /\ None \notin Events

VARIABLES
  late,      \* requests no call awaits any more that may still reach Pack
  queue,     \* host, durable: per event None or its request bytes
  status,    \* host, durable: per event "open", "settled" or "dropped"
  call,      \* host, volatile: per event None or the call that delivers it
  crashes    \* host crashes so far

queueVars == << late, queue, status, call, crashes >>

InitQueue ==
  /\ late = {}
  /\ queue = [e \in Events |-> None]
  /\ status = [e \in Events |-> "open"]
  /\ call = [e \in Events |-> None]
  /\ crashes = 0

-----------------------------------------------------------------------------
(***************************************************************************)
(* The host's worker: persist the event's bytes, then deliver the event    *)
(* restored from them, again after every call that left it open.           *)
(***************************************************************************)
Enqueue(e, bytes) ==
  /\ queue[e] = None
  /\ queue' = [queue EXCEPT ![e] = bytes]
  /\ UNCHANGED << late, status, call, crashes >>

NewCall(bytes) ==
  [ bytes |-> bytes, attempt |-> 0, pc |-> "send", reply |-> None,
    terminal_status |-> None ]

Deliver(e, bytes) ==
  /\ queue[e] # None
  /\ status[e] = "open"
  /\ call[e] = None
  /\ call' = [call EXCEPT ![e] = NewCall(bytes)]
  /\ UNCHANGED << late, queue, status, crashes >>

(***************************************************************************)
(* The host goes on with a result it has.                                  *)
(***************************************************************************)
Proceed(e, from, to) ==
  /\ call[e] # None
  /\ call[e].pc = from
  /\ call' = [call EXCEPT ![e].pc = to]
  /\ UNCHANGED << late, queue, status, crashes >>

Delete(e) ==
  /\ call[e] # None
  /\ call[e].pc = "delete"
  /\ status' = [status EXCEPT ![e] = "settled"]
  /\ call' = [call EXCEPT ![e] = None]
  /\ UNCHANGED << late, queue, crashes >>

Unseen == { e \in Events : call[e] # None /\ call[e].pc = "await" /\ call[e].reply = None }

Crash ==
  /\ crashes < CrashLimit
  /\ crashes' = crashes + 1
  /\ late' = late \cup { [event |-> e, bytes |-> call[e].bytes] : e \in Unseen }
  /\ call' = [e \in Events |-> None]
  /\ UNCHANGED << queue, status >>

-----------------------------------------------------------------------------
(***************************************************************************)
(* The SDK call.                                                           *)
(***************************************************************************)
Transmit(e) ==
  /\ call[e] # None
  /\ call[e].pc = "send"
  /\ call' = [call EXCEPT ![e].pc = "await", ![e].reply = None]
  /\ UNCHANGED << late, queue, status, crashes >>

Reply(s, c, r) == [status |-> s, code |-> c, result |-> r]

\* Seeded fault: an off-by-one in the retry test.
OneTooMany(c) == c.attempt < AttemptLimit
MayRetry(c) == c.attempt + 1 < AttemptLimit
NextAttempt(c) == [c EXCEPT !.attempt = c.attempt + 1, !.pc = "send"]

(***************************************************************************)
(* The call is over without a result: the host keeps, or drops, the event. *)
(***************************************************************************)
Conclude(e, disposition) ==
  /\ call' = [call EXCEPT ![e] = None]
  /\ status' = [status EXCEPT ![e] =
       IF disposition = "retry_same_event" THEN "open" ELSE "dropped"]

(***************************************************************************)
(* A response received to its end.  A status left behind by an earlier     *)
(* attempt that was cut still decides when this one succeeded.             *)
(***************************************************************************)
Receive(e) ==
  LET c == call[e] IN
  /\ c # None /\ c.pc = "await" /\ c.reply # None
  /\ CASE c.reply.status = 503 /\ MayRetry(c) ->
            call' = [call EXCEPT ![e] = NextAttempt(c)] /\ UNCHANGED status
       [] c.reply.status = 200 /\ c.terminal_status = None ->
            call' = [call EXCEPT ![e].pc = "result"] /\ UNCHANGED status
       [] c.reply.status = 200 /\ c.terminal_status # None ->
            Conclude(e, Disposition(c.terminal_status, None))
       [] OTHER ->
            Conclude(e, Disposition(c.reply.status, c.reply.code))
  /\ UNCHANGED << late, queue, crashes >>

(***************************************************************************)
(* A transport error: before Pack saw the request (which may then reach it *)
(* later), before the response's headers, or while its body was read.      *)
(***************************************************************************)
StatusKept(c, body_cut) ==
  IF body_cut /\ c.reply.status = 409 THEN 409 ELSE c.terminal_status

Cut(e) ==
  LET c == call[e] IN
  /\ c # None /\ c.pc = "await"
  /\ late' = IF c.reply = None
             THEN late \cup {[event |-> e, bytes |-> c.bytes]} ELSE late
  /\ \E body_cut \in {FALSE} \cup (IF c.reply = None THEN {} ELSE {TRUE}) :
       IF MayRetry(c)
       THEN /\ call' = [call EXCEPT ![e] =
                 [NextAttempt(c) EXCEPT !.terminal_status = StatusKept(c, body_cut)]]
            /\ UNCHANGED status
       ELSE Conclude(e, "retry_same_event")
  /\ UNCHANGED << queue, crashes >>

(***************************************************************************)
(* The call ends early or without a disposition, and the event stays in    *)
(* the queue: the worker cancels it, the HTTP client cannot be opened or   *)
(* closed, or the answer is a refused authentication or a success that     *)
(* this SDK cannot decode.                                                 *)
(***************************************************************************)
Abandon(e) ==
  /\ call[e] # None
  /\ call[e].pc \in {"send", "await"}
  /\ late' = IF e \in Unseen
             THEN late \cup {[event |-> e, bytes |-> call[e].bytes]} ELSE late
  /\ Conclude(e, "retry_same_event")
  /\ UNCHANGED << queue, crashes >>

-----------------------------------------------------------------------------
(***************************************************************************)
(* Pack's end of an exchange: an answer, or a refusal that says nothing    *)
(* final - Pack is busy with the event, or a gateway gave up on a request  *)
(* that Pack may yet handle.                                               *)
(***************************************************************************)
Busy == Reply(409, "privacy_operation_in_progress", None)
Unavailable == Reply(503, None, None)
Transient == {Busy, Unavailable}

Answer(e, reply) ==
  /\ e \in Unseen
  /\ call' = [call EXCEPT ![e].reply = reply]
  /\ UNCHANGED << late, queue, status, crashes >>

AnswerLater(e) ==
  /\ e \in Unseen
  /\ \E reply \in Transient : call' = [call EXCEPT ![e].reply = reply]
  /\ late' = late \cup {[event |-> e, bytes |-> call[e].bytes]}
  /\ UNCHANGED << queue, status, crashes >>

(***************************************************************************)
(* The types of the queue, for events of the given bytes and answers.      *)
(***************************************************************************)
Calls(bytes, answers) ==
  [ bytes : bytes, attempt : 0..(AttemptLimit - 1),
    pc : {"send", "await", "result", "present", "delete"},
    reply : answers \cup Transient \cup {None}, terminal_status : {None, 409} ]

QueueTypeOK(bytes, answers) ==
  /\ late \subseteq [event : Events, bytes : bytes]
  /\ queue \in [Events -> bytes \cup {None}]
  /\ status \in [Events -> {"open", "settled", "dropped"}]
  /\ call \in [Events -> Calls(bytes, answers) \cup {None}]
  /\ crashes \in 0..CrashLimit
=============================================================================
