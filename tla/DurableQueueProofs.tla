------------------------- MODULE DurableQueueProofs -------------------------
(***************************************************************************)
(* What every step of DurableQueue keeps, whatever the events say and      *)
(* whatever Pack answers: the lemmas the proofs of the three queues share. *)
(***************************************************************************)
EXTENDS DurableQueue, TLAPS

(***************************************************************************)
(* A call delivers the bytes its event was queued with, and so does a late *)
(* copy; only a queued event is called or concluded, and only an open one  *)
(* is called; a host that goes on with a result has a success.             *)
(***************************************************************************)
Successful(c) ==
  c.pc \in {"result", "present", "delete"} => c.reply # None /\ c.reply.status = 200

CallSound(e) ==
  call[e] # None =>
    /\ queue[e] # None
    /\ status[e] = "open"
    /\ call[e].bytes = queue[e]
    /\ Successful(call[e])

QueueSound ==
  /\ \A e \in Events : CallSound(e)
  /\ \A e \in Events : status[e] # "open" => queue[e] # None
  /\ \A copy \in late : copy.bytes = queue[copy.event]

\* The answer some call had when the host acted on it was a refusal for good.
Refused(reply) ==
  reply.status = 200 \/ Disposition(reply.status, reply.code) # "retry_same_event"

(***************************************************************************)
(* What a step adds to no call: no answer, no result the host went on      *)
(* with, and no verdict but that of a refusal.                             *)
(***************************************************************************)
NothingNew ==
  /\ queue' = queue
  /\ \A f \in Events : call'[f] # None =>
       /\ call'[f].reply # None => call[f] # None /\ call'[f].reply = call[f].reply
       /\ call'[f].pc \in {"present", "delete"} =>
            call[f] # None /\ call'[f].pc = call[f].pc
  /\ \A f \in Events : status'[f] # status[f] =>
       /\ status'[f] = "dropped"
       /\ call[f] # None /\ call[f].reply # None
       /\ Refused(call[f].reply)

-----------------------------------------------------------------------------
\* The initial queue is empty, and sound.
LEMMA InitSound ==
  ASSUME NEW bytes, NEW answers, InitQueue
  PROVE  QueueTypeOK(bytes, answers) /\ QueueSound
BY QueueAssumption DEF InitQueue, QueueTypeOK, QueueSound, CallSound

\* A status kept from an earlier attempt is a conflict's or none.
LEMMA TypedCall ==
  ASSUME NEW bytes, NEW answers, QueueTypeOK(bytes, answers),
         NEW e \in Events, call[e] # None
  PROVE  /\ call[e] \in Calls(bytes, answers)
         /\ call[e].bytes \in bytes
BY DEF QueueTypeOK, Calls

\* Setting the pc of a call to another one keeps the queue's types.
LEMMA TypedPc ==
  ASSUME NEW bytes, NEW answers, NEW c \in Calls(bytes, answers),
         NEW pc \in {"send", "await", "result", "present", "delete"}
  PROVE  /\ [c EXCEPT !.pc = pc] \in Calls(bytes, answers)
         /\ [c EXCEPT !.pc = pc].reply = c.reply
         /\ [c EXCEPT !.pc = pc].bytes = c.bytes
         /\ [c EXCEPT !.pc = pc].pc = pc
BY DEF Calls

\* Another attempt of a call is a call, with the answer it had.
LEMMA TypedAttempt ==
  ASSUME NEW bytes, NEW answers, NEW c \in Calls(bytes, answers), MayRetry(c)
  PROVE  /\ NextAttempt(c) \in Calls(bytes, answers)
         /\ NextAttempt(c).reply = c.reply
         /\ NextAttempt(c).bytes = c.bytes
         /\ NextAttempt(c).pc = "send"
<1> DEFINE d == [c EXCEPT !.attempt = c.attempt + 1]
<1>1. c.attempt \in 0..(AttemptLimit - 1) /\ c.attempt + 1 < AttemptLimit
  BY DEF Calls, MayRetry
<1>2. c.attempt + 1 \in 0..(AttemptLimit - 1)
  BY <1>1, QueueAssumption
<1>3. d \in Calls(bytes, answers) /\ d.reply = c.reply /\ d.bytes = c.bytes
  BY <1>2 DEF Calls
<1>4. NextAttempt(c) = [d EXCEPT !.pc = "send"]
  BY DEF NextAttempt, Calls
<1> HIDE DEF d
<1>5. [d EXCEPT !.pc = "send"] \in Calls(bytes, answers)
  BY <1>3, TypedPc
<1>6. LET n == [d EXCEPT !.pc = "send"] IN
        n.reply = d.reply /\ n.bytes = d.bytes /\ n.pc = "send"
  BY <1>3, TypedPc
<1> QED
  BY <1>3, <1>4, <1>5, <1>6

\* A call may keep a conflict's status, or none.
LEMMA TypedStatus ==
  ASSUME NEW bytes, NEW answers, NEW c \in Calls(bytes, answers), NEW s \in {None, 409}
  PROVE  LET d == [c EXCEPT !.terminal_status = s] IN
         /\ d \in Calls(bytes, answers)
         /\ d.reply = c.reply /\ d.bytes = c.bytes /\ d.pc = c.pc
BY DEF Calls

\* An answer that is filled in leaves the rest of a call.
LEMMA TypedReply ==
  ASSUME NEW bytes, NEW answers, NEW c \in Calls(bytes, answers),
         NEW r \in answers \cup Transient \cup {None}
  PROVE  LET d == [c EXCEPT !.reply = r] IN
         /\ d \in Calls(bytes, answers)
         /\ d.reply = r /\ d.bytes = c.bytes /\ d.pc = c.pc
BY DEF Calls

(***************************************************************************)
(* A step of one call: it gives the call or its event's status a new value *)
(* and leaves at most its own request behind.                              *)
(***************************************************************************)
LEMMA OneCall ==
  ASSUME NEW bytes, NEW answers, QueueTypeOK(bytes, answers), QueueSound,
         NEW e \in Events, NEW c \in Calls(bytes, answers) \cup {None},
         NEW s \in {"open", "settled", "dropped"},
         queue[e] # None, queue' = queue, crashes' = crashes,
         call' = [call EXCEPT ![e] = c], status' = [status EXCEPT ![e] = s],
         late' \subseteq late \cup {[event |-> e, bytes |-> queue[e]]},
         c # None => s = "open" /\ c.bytes = queue[e] /\ Successful(c)
  PROVE  QueueTypeOK(bytes, answers)' /\ QueueSound'
<1>1. queue[e] \in bytes
  BY DEF QueueTypeOK
<1>2. \A f \in Events : /\ call'[f] = IF f = e THEN c ELSE call[f]
                        /\ status'[f] = IF f = e THEN s ELSE status[f]
  BY DEF QueueTypeOK
<1>3. QueueTypeOK(bytes, answers)'
  BY <1>1, <1>2 DEF QueueTypeOK
<1>4. \A f \in Events : CallSound(f)'
  BY <1>2 DEF QueueSound, CallSound
<1>5. \A f \in Events : status'[f] # "open" => queue'[f] # None
  BY <1>2 DEF QueueSound
<1>6. \A copy \in late' : copy.bytes = queue'[copy.event]
  BY DEF QueueSound
<1> QED
  BY <1>3, <1>4, <1>5, <1>6 DEF QueueSound

\* A delivery starts a call with the bytes its event was queued with.
LEMMA DeliverKeeps ==
  ASSUME NEW bytes, NEW answers, QueueTypeOK(bytes, answers), QueueSound,
         NEW e \in Events, Deliver(e, queue[e])
  PROVE  QueueTypeOK(bytes, answers)' /\ QueueSound' /\ NothingNew
<1> DEFINE c == NewCall(queue[e])
<1>1. queue[e] # None /\ queue[e] \in bytes /\ status[e] = "open"
  BY DEF Deliver, QueueTypeOK
<1>2. c \in Calls(bytes, answers)
  BY <1>1, QueueAssumption DEF Calls, NewCall
<1>3. c.bytes = queue[e] /\ c.pc = "send" /\ c.reply = None /\ Successful(c)
  BY DEF Successful, NewCall
<1>4. call' = [call EXCEPT ![e] = c] /\ UNCHANGED << late, queue, status, crashes >>
  BY DEF Deliver
<1> HIDE DEF c
<1>5. status' = [status EXCEPT ![e] = "open"]
  BY <1>1, <1>4 DEF QueueTypeOK
<1>6. QueueTypeOK(bytes, answers)' /\ QueueSound'
  BY <1>1, <1>2, <1>3, <1>4, <1>5, OneCall
<1> QED
  BY <1>3, <1>4, <1>6 DEF NothingNew, QueueTypeOK

\* Going on with a result changes only how far the host is.
LEMMA ProceedKeeps ==
  ASSUME NEW bytes, NEW answers, QueueTypeOK(bytes, answers), QueueSound,
         NEW e \in Events, NEW from \in {"result", "present"},
         NEW to \in {"present", "delete"}, Proceed(e, from, to)
  PROVE  /\ QueueTypeOK(bytes, answers)' /\ QueueSound'
         /\ call[e] # None /\ call[e].pc = from
         /\ call[e].reply # None /\ call[e].reply.status = 200
         /\ UNCHANGED << queue, status, late, crashes >>
         /\ \A f \in Events : call'[f] # None =>
              /\ call[f] # None /\ call'[f].reply = call[f].reply
              /\ call'[f].pc = IF f = e THEN to ELSE call[f].pc
<1> DEFINE c == [call[e] EXCEPT !.pc = to]
<1>1. call[e] # None /\ call[e].pc = from
  BY DEF Proceed
<1>2. /\ queue[e] # None /\ status[e] = "open" /\ call[e].bytes = queue[e]
      /\ call[e].reply # None /\ call[e].reply.status = 200
  BY <1>1 DEF QueueSound, CallSound, Successful
<1>3. call[e] \in Calls(bytes, answers)
  BY <1>1, TypedCall
<1>4. c \in Calls(bytes, answers) /\ c.pc = to /\ c.bytes = call[e].bytes
      /\ c.reply # None /\ c.reply = call[e].reply /\ c.reply.status = 200
  BY <1>2, <1>3 DEF Calls
<1>5. call' = [call EXCEPT ![e] = c] /\ UNCHANGED << late, queue, status, crashes >>
  BY DEF Proceed
<1> HIDE DEF c
<1>6. status' = [status EXCEPT ![e] = "open"]
  BY <1>2, <1>5 DEF QueueTypeOK
<1>7. QueueTypeOK(bytes, answers)' /\ QueueSound'
  <2>1. c \in Calls(bytes, answers) /\ c.bytes = queue[e] /\ Successful(c)
    BY <1>2, <1>4 DEF Successful
  <2>2. queue[e] # None
    BY <1>2
  <2> QED
    BY <1>5, <1>6, <2>1, <2>2, OneCall
<1> QED
  BY <1>1, <1>2, <1>4, <1>5, <1>7 DEF QueueTypeOK

\* A queued event's bytes are its own from then on.
LEMMA EnqueueKeeps ==
  ASSUME NEW bytes, NEW answers, QueueTypeOK(bytes, answers), QueueSound,
         None \notin bytes,
         NEW e \in Events, NEW payload \in bytes, Enqueue(e, payload)
  PROVE  /\ QueueTypeOK(bytes, answers)' /\ QueueSound'
         /\ queue[e] = None
         /\ queue' = [queue EXCEPT ![e] = payload]
         /\ UNCHANGED << late, status, call, crashes >>
<1>1. /\ queue[e] = None
      /\ queue' = [queue EXCEPT ![e] = payload]
      /\ UNCHANGED << late, status, call, crashes >>
  BY DEF Enqueue
<1>2. \A f \in Events : queue'[f] = IF f = e THEN payload ELSE queue[f]
  BY <1>1 DEF QueueTypeOK
<1>3. QueueTypeOK(bytes, answers)'
  BY <1>1 DEF QueueTypeOK
<1>4. \A f \in Events : CallSound(f)'
  BY <1>1, <1>2 DEF QueueSound, CallSound
<1>5. \A f \in Events : status'[f] # "open" => queue'[f] # None
  BY <1>1, <1>2 DEF QueueSound
<1>6. \A copy \in late' : copy.bytes = queue'[copy.event]
  <2> SUFFICES ASSUME NEW copy \in late' PROVE copy.bytes = queue'[copy.event]
    OBVIOUS
  <2>1. copy \in late /\ copy.bytes = queue[copy.event]
    BY <1>1 DEF QueueSound
  <2>2. copy.event \in Events /\ copy.bytes \in bytes
    BY <2>1 DEF QueueTypeOK
  <2> QED
    BY <1>1, <1>2, <2>1, <2>2
<1> QED
  BY <1>1, <1>3, <1>4, <1>5, <1>6 DEF QueueSound

\* Deleting an event settles it, after a success.
LEMMA DeleteKeeps ==
  ASSUME NEW bytes, NEW answers, QueueTypeOK(bytes, answers), QueueSound,
         NEW e \in Events, Delete(e)
  PROVE  /\ QueueTypeOK(bytes, answers)' /\ QueueSound'
         /\ call[e] # None /\ call[e].pc = "delete"
         /\ queue[e] # None /\ status[e] = "open"
         /\ call' = [call EXCEPT ![e] = None]
         /\ status' = [status EXCEPT ![e] = "settled"]
         /\ UNCHANGED << late, queue, crashes >>
<1>1. call[e] # None /\ call[e].pc = "delete"
  BY DEF Delete
<1>2. queue[e] # None /\ status[e] = "open"
  BY <1>1 DEF QueueSound, CallSound
<1>3. /\ call' = [call EXCEPT ![e] = None]
      /\ status' = [status EXCEPT ![e] = "settled"]
      /\ UNCHANGED << late, queue, crashes >>
  BY DEF Delete
<1>4. QueueTypeOK(bytes, answers)' /\ QueueSound'
  BY <1>2, <1>3, OneCall
<1> QED
  BY <1>1, <1>2, <1>3, <1>4

\* A crash ends every call and leaves the requests no answer came for.
LEMMA CrashKeeps ==
  ASSUME NEW bytes, NEW answers, QueueTypeOK(bytes, answers), QueueSound, Crash
  PROVE  /\ QueueTypeOK(bytes, answers)' /\ QueueSound'
         /\ call' = [e \in Events |-> None]
         /\ UNCHANGED << queue, status >>
         /\ crashes' = crashes + 1
<1>1. /\ crashes < CrashLimit /\ crashes' = crashes + 1
      /\ call' = [e \in Events |-> None]
      /\ UNCHANGED << queue, status >>
      /\ late' = late \cup { [event |-> e, bytes |-> call[e].bytes] : e \in Unseen }
  BY DEF Crash
<1>2. \A e \in Unseen : e \in Events /\ call[e].bytes \in bytes /\ call[e].bytes = queue[e]
  BY TypedCall DEF Unseen, QueueSound, CallSound
<1>3. \A copy \in late' : /\ copy \in [event : Events, bytes : bytes]
                          /\ copy.bytes = queue[copy.event]
  BY <1>1, <1>2 DEF QueueTypeOK, QueueSound
<1>4. QueueTypeOK(bytes, answers)'
  BY <1>1, <1>3, QueueAssumption DEF QueueTypeOK
<1>5. QueueSound'
  BY <1>1, <1>3 DEF QueueSound, CallSound
<1> QED
  BY <1>1, <1>4, <1>5

\* A request goes out without an answer yet.
LEMMA TransmitKeeps ==
  ASSUME NEW bytes, NEW answers, QueueTypeOK(bytes, answers), QueueSound,
         NEW e \in Events, Transmit(e)
  PROVE  QueueTypeOK(bytes, answers)' /\ QueueSound' /\ NothingNew
<1> DEFINE c == [call[e] EXCEPT !.pc = "await", !.reply = None]
<1>1. call[e] # None /\ call[e] \in Calls(bytes, answers)
  BY TypedCall DEF Transmit
<1>2. queue[e] # None /\ status[e] = "open" /\ call[e].bytes = queue[e]
  BY <1>1 DEF QueueSound, CallSound
<1>3. c \in Calls(bytes, answers) /\ c.bytes = call[e].bytes
  BY <1>1 DEF Calls
<1>4. c.pc = "await" /\ c.reply = None
  BY <1>1 DEF Calls
<1>5. call' = [call EXCEPT ![e] = c] /\ UNCHANGED << late, queue, status, crashes >>
  BY <1>1 DEF Transmit, QueueTypeOK
<1> HIDE DEF c
<1>6. status' = [status EXCEPT ![e] = "open"]
  BY <1>2, <1>5 DEF QueueTypeOK
<1>7. Successful(c) /\ c.bytes = queue[e]
  BY <1>2, <1>3, <1>4 DEF Successful
<1>8. QueueTypeOK(bytes, answers)' /\ QueueSound'
  BY <1>2, <1>3, <1>5, <1>6, <1>7, OneCall
<1>9. NothingNew
  BY <1>4, <1>5 DEF NothingNew, QueueTypeOK
<1> QED
  BY <1>8, <1>9

\* Another attempt, with any status kept, adds nothing.
LEMMA AttemptKeeps ==
  ASSUME NEW bytes, NEW answers, QueueTypeOK(bytes, answers), QueueSound,
         NEW e \in Events, call[e] # None,
         NEW c, c \in Calls(bytes, answers), c.pc = "send",
         c.reply = call[e].reply, c.bytes = call[e].bytes,
         call' = [call EXCEPT ![e] = c], UNCHANGED << status, queue, crashes >>,
         late' \subseteq late \cup {[event |-> e, bytes |-> call[e].bytes]}
  PROVE  QueueTypeOK(bytes, answers)' /\ QueueSound' /\ NothingNew
<1>1. queue[e] # None /\ status[e] = "open" /\ call[e].bytes = queue[e]
  BY DEF QueueSound, CallSound
<1>2. status' = [status EXCEPT ![e] = "open"]
  BY <1>1 DEF QueueTypeOK
<1>3. Successful(c) /\ c.bytes = queue[e]
  BY <1>1 DEF Successful
<1>4. late' \subseteq late \cup {[event |-> e, bytes |-> queue[e]]}
  BY <1>1
<1>5. QueueTypeOK(bytes, answers)' /\ QueueSound'
  <2>1. queue' = queue /\ crashes' = crashes /\ queue[e] # None
    BY <1>1
  <2>2. c \in Calls(bytes, answers) \cup {None} /\ "open" \in {"open", "settled", "dropped"}
    OBVIOUS
  <2>3. c # None => "open" = "open" /\ c.bytes = queue[e] /\ Successful(c)
    BY <1>3
  <2> QED
    BY <1>2, <1>4, <2>1, <2>2, <2>3, OneCall, ZenonT(60)
<1>6. \A f \in Events : call'[f] = IF f = e THEN c ELSE call[f]
  BY DEF QueueTypeOK
<1>7. NothingNew
  BY <1>6 DEF NothingNew
<1> QED
  BY <1>5, <1>7

\* A call that is over drops its event only if its answer was a refusal.
LEMMA ConcludeKeeps ==
  ASSUME NEW bytes, NEW answers, QueueTypeOK(bytes, answers), QueueSound,
         NEW e \in Events, call[e] # None,
         NEW disposition, Conclude(e, disposition),
         disposition # "retry_same_event" =>
           call[e].reply # None /\ Refused(call[e].reply),
         UNCHANGED << queue, crashes >>,
         late' \subseteq late \cup {[event |-> e, bytes |-> call[e].bytes]}
  PROVE  QueueTypeOK(bytes, answers)' /\ QueueSound' /\ NothingNew
<1> DEFINE s == IF disposition = "retry_same_event" THEN "open" ELSE "dropped"
<1>1. queue[e] # None /\ status[e] = "open" /\ call[e].bytes = queue[e]
  BY DEF QueueSound, CallSound
<1>2. call' = [call EXCEPT ![e] = None] /\ status' = [status EXCEPT ![e] = s]
  BY DEF Conclude
<1>3. late' \subseteq late \cup {[event |-> e, bytes |-> queue[e]]}
  BY <1>1
<1>4. s \in {"open", "settled", "dropped"}
  OBVIOUS
<1>5. QueueTypeOK(bytes, answers)' /\ QueueSound'
  <2> HIDE DEF s
  <2> QED
    BY <1>1, <1>2, <1>3, <1>4, OneCall
<1>6. NothingNew
  BY <1>1, <1>2 DEF NothingNew, QueueTypeOK
<1> QED
  BY <1>5, <1>6

\* A response received in full.
LEMMA ReceiveKeeps ==
  ASSUME NEW bytes, NEW answers, QueueTypeOK(bytes, answers), QueueSound,
         NEW e \in Events, Receive(e)
  PROVE  QueueTypeOK(bytes, answers)' /\ QueueSound' /\ NothingNew
<1> DEFINE c == call[e]
<1>1. c # None /\ c \in Calls(bytes, answers) /\ c.reply # None
  BY TypedCall DEF Receive
<1>2. UNCHANGED << late, queue, crashes >>
  BY DEF Receive
<1>3. /\ queue[e] # None /\ status[e] = "open" /\ c.bytes = queue[e]
  BY <1>1 DEF QueueSound, CallSound
<1>4. CASE c.reply.status = 503 /\ MayRetry(c)
  <2>1. call' = [call EXCEPT ![e] = NextAttempt(c)] /\ UNCHANGED status
    BY <1>4 DEF Receive
  <2>2. /\ NextAttempt(c) \in Calls(bytes, answers)
        /\ NextAttempt(c).reply = c.reply /\ NextAttempt(c).bytes = c.bytes
        /\ NextAttempt(c).pc = "send"
    BY <1>1, <1>4, TypedAttempt
  <2>3. late' \subseteq late \cup {[event |-> e, bytes |-> call[e].bytes]}
    BY <1>2
  <2>4. UNCHANGED << status, queue, crashes >>
    BY <1>2, <2>1
  <2> QED
    BY <1>1, <2>1, <2>2, <2>3, <2>4, AttemptKeeps, ZenonT(60)
<1>5. CASE c.reply.status = 200 /\ c.terminal_status = None
  <2> DEFINE d == [c EXCEPT !.pc = "result"]
  <2>1. call' = [call EXCEPT ![e] = d] /\ UNCHANGED status
    BY <1>5 DEF Receive
  <2>2. d \in Calls(bytes, answers) /\ d.bytes = c.bytes /\ d.reply = c.reply
    BY <1>1 DEF Calls
  <2>3. d.pc = "result"
    BY <1>1 DEF Calls
  <2>4. Successful(d)
    BY <1>1, <1>5, <2>2 DEF Successful
  <2>5. status' = [status EXCEPT ![e] = "open"]
    BY <1>3, <2>1 DEF QueueTypeOK
  <2> HIDE DEF d, c
  <2>6. d.bytes = queue[e]
    BY <1>3, <2>2
  <2>7. QueueTypeOK(bytes, answers)' /\ QueueSound'
    BY <1>2, <1>3, <2>1, <2>2, <2>4, <2>5, <2>6, OneCall
  <2>8. \A f \in Events : call'[f] = IF f = e THEN d ELSE call[f]
    BY <2>1 DEF QueueTypeOK
  <2>9. NothingNew
    BY <1>1, <1>2, <2>1, <2>2, <2>3, <2>8 DEF NothingNew, c
  <2> QED
    BY <2>7, <2>9
<1>6. CASE c.reply.status = 200 /\ c.terminal_status # None
  <2>1. Conclude(e, Disposition(c.terminal_status, None))
    BY <1>6 DEF Receive
  <2>2. Refused(c.reply)
    BY <1>6 DEF Refused
  <2> QED
    BY <1>1, <1>2, <2>1, <2>2, ConcludeKeeps
<1>7. CASE ~(c.reply.status = 503 /\ MayRetry(c)) /\ c.reply.status # 200
  <2>1. Conclude(e, Disposition(c.reply.status, c.reply.code))
    BY <1>7 DEF Receive
  <2>2. Disposition(c.reply.status, c.reply.code) # "retry_same_event" => Refused(c.reply)
    BY DEF Refused
  <2> QED
    BY <1>1, <1>2, <2>1, <2>2, ConcludeKeeps
<1> QED
  BY <1>4, <1>5, <1>6, <1>7

\* A transport error, before or after Pack saw the request.
LEMMA CutKeeps ==
  ASSUME NEW bytes, NEW answers, QueueTypeOK(bytes, answers), QueueSound,
         NEW e \in Events, Cut(e)
  PROVE  QueueTypeOK(bytes, answers)' /\ QueueSound' /\ NothingNew
<1>1. call[e] # None /\ call[e] \in Calls(bytes, answers)
  BY TypedCall DEF Cut
<1>2. late' \subseteq late \cup {[event |-> e, bytes |-> call[e].bytes]}
  BY DEF Cut
<1>3. UNCHANGED << queue, crashes >>
  BY DEF Cut
<1>4. CASE MayRetry(call[e])
  <2> DEFINE d == NextAttempt(call[e])
  <2>1. PICK s \in {None, 409} :
          call' = [call EXCEPT ![e] = [d EXCEPT !.terminal_status = s]] /\ UNCHANGED status
    <3>1. call[e].terminal_status \in {None, 409}
      BY <1>1 DEF Calls
    <3> QED
      BY <1>4, <3>1 DEF Cut, StatusKept
  <2>2. d \in Calls(bytes, answers) /\ d.reply = call[e].reply
        /\ d.bytes = call[e].bytes /\ d.pc = "send"
    BY <1>1, <1>4, TypedAttempt
  <2> DEFINE c == [d EXCEPT !.terminal_status = s]
  <2> HIDE DEF d
  <2>3. c \in Calls(bytes, answers) /\ c.reply = call[e].reply
        /\ c.bytes = call[e].bytes /\ c.pc = "send"
    BY <2>2 DEF Calls
  <2>4. call' = [call EXCEPT ![e] = c]
    BY <2>1
  <2>5. UNCHANGED << status, queue, crashes >>
    BY <1>3, <2>1
  <2> HIDE DEF c
  <2> QED
    BY <1>1, <1>2, <2>3, <2>4, <2>5, AttemptKeeps, ZenonT(60)
<1>5. CASE ~MayRetry(call[e])
  <2>1. Conclude(e, "retry_same_event")
    BY <1>5 DEF Cut
  <2> QED
    BY <1>1, <1>2, <1>3, <2>1, ConcludeKeeps
<1> QED
  BY <1>4, <1>5

\* A call that ends early leaves its event in the queue.
LEMMA AbandonKeeps ==
  ASSUME NEW bytes, NEW answers, QueueTypeOK(bytes, answers), QueueSound,
         NEW e \in Events, Abandon(e)
  PROVE  QueueTypeOK(bytes, answers)' /\ QueueSound' /\ NothingNew
<1>1. call[e] # None /\ Conclude(e, "retry_same_event") /\ UNCHANGED << queue, crashes >>
  BY DEF Abandon
<1>2. late' \subseteq late \cup {[event |-> e, bytes |-> call[e].bytes]}
  BY DEF Abandon
<1> QED
  BY <1>1, <1>2, ConcludeKeeps

\* Pack answers a request of a call that waits for it.
LEMMA AnswerKeeps ==
  ASSUME NEW bytes, NEW answers, QueueTypeOK(bytes, answers), QueueSound,
         NEW e \in Events, NEW reply \in answers, Answer(e, reply)
  PROVE  /\ QueueTypeOK(bytes, answers)' /\ QueueSound'
         /\ call[e] # None /\ call[e].bytes = queue[e] /\ queue[e] # None
         /\ status[e] = "open"
         /\ UNCHANGED << queue, status, crashes, late >>
         /\ \A f \in Events : call'[f] # None =>
              /\ call[f] # None /\ call'[f].pc = call[f].pc
              /\ call'[f].reply = IF f = e THEN reply ELSE call[f].reply
<1> DEFINE c == [call[e] EXCEPT !.reply = reply]
<1>1. call[e] # None /\ call[e].pc = "await" /\ call[e] \in Calls(bytes, answers)
  BY TypedCall DEF Answer, Unseen
<1>2. queue[e] # None /\ status[e] = "open" /\ call[e].bytes = queue[e]
  BY <1>1 DEF QueueSound, CallSound
<1>3. c \in Calls(bytes, answers) /\ c.bytes = call[e].bytes
  BY <1>1 DEF Calls
<1>4. c.pc = "await" /\ c.reply = reply
  BY <1>1 DEF Calls
<1>5. call' = [call EXCEPT ![e] = c] /\ UNCHANGED << late, queue, status, crashes >>
  BY DEF Answer
<1> HIDE DEF c
<1>6. status' = [status EXCEPT ![e] = "open"]
  BY <1>2, <1>5 DEF QueueTypeOK
<1>7. Successful(c) /\ c.bytes = queue[e]
  BY <1>2, <1>3, <1>4 DEF Successful
<1>8. QueueTypeOK(bytes, answers)' /\ QueueSound'
  BY <1>2, <1>3, <1>5, <1>6, <1>7, OneCall
<1>9. \A f \in Events : call'[f] = IF f = e THEN c ELSE call[f]
  BY <1>5 DEF QueueTypeOK
<1> QED
  BY <1>1, <1>2, <1>4, <1>5, <1>8, <1>9

\* An answer that says nothing final leaves a copy of the request behind.
LEMMA AnswerLaterKeeps ==
  ASSUME NEW bytes, NEW answers, QueueTypeOK(bytes, answers), QueueSound,
         NEW e \in Events, AnswerLater(e)
  PROVE  /\ QueueTypeOK(bytes, answers)' /\ QueueSound'
         /\ UNCHANGED << queue, status, crashes >>
         /\ \A f \in Events : call'[f] # None =>
              /\ call[f] # None /\ call'[f].pc = call[f].pc
              /\ call'[f].reply = call[f].reply \/ call'[f].reply \in Transient
<1>1. PICK reply \in Transient : call' = [call EXCEPT ![e].reply = reply]
  BY DEF AnswerLater
<1> DEFINE c == [call[e] EXCEPT !.reply = reply]
<1>2. call[e] # None /\ call[e].pc = "await" /\ call[e] \in Calls(bytes, answers)
  BY TypedCall DEF AnswerLater, Unseen
<1>3. queue[e] # None /\ status[e] = "open" /\ call[e].bytes = queue[e]
  BY <1>2 DEF QueueSound, CallSound
<1>4. c \in Calls(bytes, answers) /\ c.bytes = call[e].bytes
  BY <1>2 DEF Calls
<1>5. c.pc = "await" /\ c.reply = reply
  BY <1>2 DEF Calls
<1>6. /\ call' = [call EXCEPT ![e] = c] /\ UNCHANGED << queue, status, crashes >>
      /\ late' \subseteq late \cup {[event |-> e, bytes |-> queue[e]]}
  BY <1>1, <1>3 DEF AnswerLater
<1> HIDE DEF c
<1>7. status' = [status EXCEPT ![e] = "open"]
  BY <1>3, <1>6 DEF QueueTypeOK
<1>8. Successful(c) /\ c.bytes = queue[e]
  BY <1>3, <1>4, <1>5 DEF Successful
<1>9. QueueTypeOK(bytes, answers)' /\ QueueSound'
  BY <1>3, <1>4, <1>6, <1>7, <1>8, OneCall
<1>10. \A f \in Events : call'[f] = IF f = e THEN c ELSE call[f]
  BY <1>6 DEF QueueTypeOK
<1> QED
  BY <1>2, <1>5, <1>6, <1>9, <1>10

\* A step of one call concludes at most its own event.
LEMMA OneStatus ==
  ASSUME NEW e \in Events, Transmit(e) \/ Receive(e) \/ Cut(e) \/ Abandon(e)
  PROVE  status' = status \/ \E s : status' = [status EXCEPT ![e] = s]
<1>1. CASE Transmit(e)
  BY <1>1 DEF Transmit
<1>2. CASE Receive(e)
  BY <1>2 DEF Receive, Conclude
<1>3. CASE Cut(e)
  BY <1>3 DEF Cut, Conclude
<1>4. CASE Abandon(e)
  BY <1>4 DEF Abandon, Conclude
<1> QED
  BY <1>1, <1>2, <1>3, <1>4

\* The network and Pack leave a call alone that has its result.
LEMMA CallSkips ==
  ASSUME NEW bytes, NEW answers, QueueTypeOK(bytes, answers),
         NEW e \in Events, NEW payload, NEW reply,
         \/ Deliver(e, payload) \/ Transmit(e) \/ Receive(e) \/ Cut(e)
         \/ Abandon(e) \/ Answer(e, reply) \/ AnswerLater(e)
  PROVE  \A f \in Events :
           call[f] # None /\ call[f].pc \in {"result", "present", "delete"} =>
             call'[f] = call[f]
<1>1. call[e] = None \/ call[e].pc \in {"send", "await"}
  BY DEF Deliver, Transmit, Receive, Cut, Abandon, Answer, AnswerLater, Unseen
<1>2. \E c : call' = [call EXCEPT ![e] = c]
  <2>1. CASE Deliver(e, payload) \/ Transmit(e)
    BY <2>1 DEF Deliver, Transmit
  <2>2. CASE Receive(e) \/ Cut(e) \/ Abandon(e)
    BY <2>2 DEF Receive, Cut, Abandon, Conclude
  <2>3. CASE Answer(e, reply) \/ AnswerLater(e)
    BY <2>3 DEF Answer, AnswerLater
  <2> QED
    BY <2>1, <2>2, <2>3
<1> QED
  BY <1>1, <1>2 DEF QueueTypeOK

\* Going on with a result moves one call.
LEMMA ProceedMoves ==
  ASSUME NEW bytes, NEW answers, QueueTypeOK(bytes, answers),
         NEW e \in Events, NEW from,
         NEW to \in {"present", "delete"}, Proceed(e, from, to)
  PROVE  /\ call'[e] \in Calls(bytes, answers) /\ call'[e].pc = to
         /\ \A f \in Events : f # e => call'[f] = call[f]
<1> DEFINE c == [call[e] EXCEPT !.pc = to]
<1>1. call[e] # None /\ call[e] \in Calls(bytes, answers)
  BY TypedCall DEF Proceed
<1>2. c \in Calls(bytes, answers) /\ c.pc = to
  BY <1>1 DEF Calls
<1>3. call' = [call EXCEPT ![e] = c]
  BY DEF Proceed
<1> HIDE DEF c
<1> QED
  BY <1>2, <1>3 DEF QueueTypeOK
=============================================================================
