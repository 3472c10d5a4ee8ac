---------------------------- MODULE AsyncEngine ----------------------------
(***************************************************************************)
(* The HTTP front of a replica, src/engine/server.py: AsyncEngine (submit, *)
(* cancel, the loop that runs step() in a worker thread, _fanout) and the  *)
(* token stream of each connection.                                        *)
(*                                                                         *)
(* Two threads share the engine.  The event loop runs one synchronous      *)
(* section at a time, el; a section is cut where the other thread's step   *)
(* can matter: the scan of the waiting deque in add_request, the two       *)
(* drains of _fanout.  The step thread is st.  Single appends, set adds    *)
(* and swaps are atomic under the interpreter lock; iterating a deque is   *)
(* not: an iterator raises when the deque changed since its last element.  *)
(*                                                                         *)
(* The engine is reduced to what this file sees of it (Scheduler has the   *)
(* rest): a step admits from the head of the queue, produces one token per *)
(* running request, may preempt the newest, and the pool can always hold a *)
(* lone request.  A token is named by its position in its request's output.*)
(***************************************************************************)
EXTENDS Naturals, Sequences, SequencesExt

CONSTANTS Reqs,          \* requests, each with an id of its own
          Budget,        \* request -> max_tokens
          MaxBatch,      \* max_batch_size
          MaxPreempts,   \* bound on preemptions
          Leaving,       \* requests whose client may disconnect
          Killed,        \* requests somebody may POST /cancel for, once
          Slow           \* requests whose cancel() may run into its timeout

ASSUME ReqsAssumption ==
    /\ Budget \in [Reqs -> Nat \ {0}]
    /\ MaxBatch \in Nat \ {0} /\ MaxPreempts \in Nat
    /\ {Leaving, Killed, Slow} \subseteq SUBSET Reqs

VARIABLES
    waiting, running,    \* the engine's queue and batch, newest last
    cancels,             \* _cancel_requested
    emitted,             \* _emitted: request -> its tokens, in the list's order
    newly,               \* _newly_finished
    reason,              \* request -> finish_reason
    output,              \* request -> output_len
    preempts,            \* preemptions so far
    st,                  \* the step thread: [pc, to, batch, wanted, moved]
    el,                  \* the event loop's section: [at, task, who, moved]
    streams,             \* AsyncEngine.streams
    queue,               \* request -> its Stream.queue
    done,                \* requests whose Stream.done is set
    conn,                \* request -> where its HTTP handler is
    kill,                \* request -> where the POST /cancel for it is
    gone,                \* requests whose client has disconnected
    got,                 \* request -> tokens its connection was sent
    made                 \* request -> tokens the engine emitted (history)

core == <<waiting, running, reason, output>>
loopSide == <<streams, queue, done, conn, kill, got>>
vars == <<core, cancels, emitted, newly, preempts, st, el, loopSide, gone, made>>

NoReq == "none"
Off == [pc |-> "off", to |-> "end", batch |-> <<>>, wanted |-> {}, moved |-> FALSE]
Free == [at |-> "free", task |-> "loop", who |-> NoReq, moved |-> FALSE]
Drained == [r \in Reqs |-> <<>>]
HasWork == waiting # <<>> \/ running # <<>>
InEngine(r) == r \in ToSet(waiting) \cup ToSet(running)

Init ==
    /\ waiting = <<>> /\ running = <<>>
    /\ cancels = {} /\ newly = {} /\ streams = {} /\ done = {} /\ gone = {}
    /\ reason = [r \in Reqs |-> "none"]
    /\ output = [r \in Reqs |-> 0]
    /\ queue = [r \in Reqs |-> <<>>] /\ emitted = Drained
    /\ got = [r \in Reqs |-> <<>>] /\ made = [r \in Reqs |-> <<>>]
    /\ conn = [r \in Reqs |-> "new"]
    /\ kill = [r \in Reqs |-> "none"]
    /\ preempts = 0
    /\ st = Off /\ el = Free

(* list.remove. *)
Without(s, r) ==
    LET i == CHOOSE j \in 1 .. Len(s) : s[j] = r
    IN  SubSeq(s, 1, i - 1) \o SubSeq(s, i + 1, Len(s))

(* request.finish and _record_finished. *)
Outcome(r, why) ==
    /\ reason' = [reason EXCEPT ![r] = why]
    /\ newly' = newly \cup {r}

(* The step thread changed the waiting deque under an iterator of the loop. *)
Disturbs == el' = IF el.at = "scan" THEN [el EXCEPT !.moved = TRUE] ELSE el

-----------------------------------------------------------------------------
(* Sections of the event loop.  A section that calls _fanout hands over to  *)
(* FanEmit and FanDone, which end it.                                       *)

Section(at, task, r) == [at |-> at, task |-> task, who |-> r, moved |-> FALSE]

(* submit: the stream is registered, then add_request reads the queue. *)
Submit(r) ==
    /\ el = Free /\ conn[r] = "new"
    /\ conn' = [conn EXCEPT ![r] = "submit"]
    /\ streams' = streams \cup {r}
    /\ el' = Section("scan", "submit", r)
    /\ UNCHANGED <<core, cancels, emitted, newly, preempts, st, queue, done, kill, gone,
                   got, made>>

(* The iterator noticed the change: RuntimeError, a 500, and a stream that
   nobody releases. *)
ScanRaises ==
    /\ el.at = "scan" /\ el.moved
    /\ conn' = [conn EXCEPT ![el.who] = "error"]
    /\ el' = Free
    /\ UNCHANGED <<core, cancels, emitted, newly, preempts, st, streams, queue, done, kill,
                   gone, got, made>>

(* admit decided: queued (under the step thread's own iterator, perhaps) or
   rejected. *)
Added ==
    /\ el.at = "scan" /\ ~el.moved
    /\ \/ /\ waiting' = Append(waiting, el.who)
          /\ st' = IF st.pc = "scan" /\ waiting # <<>>
                   THEN [st EXCEPT !.moved = TRUE] ELSE st
          /\ UNCHANGED <<reason, newly>>
       \/ /\ Outcome(el.who, "rejected")
          /\ UNCHANGED <<waiting, st>>
    /\ el' = [el EXCEPT !.at = "emit"]
    /\ UNCHANGED <<running, output, cancels, emitted, preempts, loopSide, gone, made>>

(* _fanout, first half: drain_emitted swaps the list, the tokens go to their
   streams, those of unknown streams nowhere. *)
FanEmit ==
    /\ el.at = "emit"
    /\ queue' = [r \in Reqs |-> IF r \in streams THEN queue[r] \o emitted[r] ELSE queue[r]]
    /\ emitted' = Drained
    /\ el' = [el EXCEPT !.at = "done"]
    /\ UNCHANGED <<core, cancels, newly, preempts, st, streams, done, conn, kill, gone, got,
                   made>>

(* Where the section goes on after _fanout: a rejected request is answered
   429 and released, a cancelled one is released. *)
Resume ==
    LET r == el.who
    IN  CASE el.task = "submit" ->
               /\ conn' = [conn EXCEPT ![r] = IF reason[r] = "rejected" THEN "refused"
                                              ELSE "open"]
               /\ streams' = IF reason[r] = "rejected" THEN streams \ {r} ELSE streams
               /\ UNCHANGED kill
          [] el.task = "cancel" ->
               /\ conn' = [conn EXCEPT ![r] = "closed"]
               /\ streams' = streams \ {r}
               /\ UNCHANGED kill
          [] el.task = "kill" ->
               /\ kill' = [kill EXCEPT ![r] = "answered"]
               /\ UNCHANGED <<conn, streams>>
          [] OTHER -> UNCHANGED <<conn, streams, kill>>

(* Mutant: the buffer is cleared after it was read, not swapped. *)
FanDoneClears ==
    /\ el.at = "done"
    /\ done' = done \cup (newly \cap streams)
    /\ newly' = {} /\ emitted' = Drained
    /\ Resume
    /\ el' = Free
    /\ UNCHANGED <<core, cancels, preempts, st, queue, gone, got, made>>

(* Mutant: cancelled requests are not reported to their streams. *)
FanDoneCompleted ==
    /\ el.at = "done"
    /\ done' = done \cup {r \in newly \cap streams : reason[r] # "cancelled"}
    /\ newly' = {}
    /\ Resume
    /\ el' = Free
    /\ UNCHANGED <<core, cancels, emitted, preempts, st, queue, gone, got, made>>

(* _fanout, second half: drain_finished. *)
FanDone ==
    /\ el.at = "done"
    /\ done' = done \cup (newly \cap streams)
    /\ newly' = {}
    /\ Resume
    /\ el' = Free
    /\ UNCHANGED <<core, cancels, emitted, preempts, st, queue, gone, got, made>>

-----------------------------------------------------------------------------
(* _token_stream of a connection, and the cancel endpoint. *)

(* A token leaves the queue for the client. *)
TakeToken(r) ==
    /\ el = Free /\ conn[r] = "open" /\ queue[r] # <<>>
    /\ got' = [got EXCEPT ![r] = Append(@, Head(queue[r]))]
    /\ queue' = [queue EXCEPT ![r] = Tail(@)]
    /\ UNCHANGED <<core, cancels, emitted, newly, preempts, st, el, streams, done, conn,
                   kill, gone, made>>

(* The finally clause: cancel() records the id and starts to wait. *)
Closing(r) ==
    /\ conn' = [conn EXCEPT ![r] = "cancel"]
    /\ cancels' = cancels \cup {r}

(* is_disconnected() said so, or the wait for a token timed out with the
   outcome there and the queue empty. *)
StreamEnds(r) ==
    /\ el = Free /\ conn[r] = "open"
    /\ r \in gone \/ (r \in done /\ queue[r] = <<>>)
    /\ Closing(r)
    /\ UNCHANGED <<core, emitted, newly, preempts, st, el, streams, queue, done, kill, gone,
                   got, made>>

(* cancel() waits until no cancellation at all is pending, or times out. *)
CancelReturns(r) ==
    /\ el = Free /\ conn[r] = "cancel"
    /\ cancels = {} \/ r \in Slow
    /\ el' = Section("emit", "cancel", r)
    /\ UNCHANGED <<core, cancels, emitted, newly, preempts, st, loopSide, gone, made>>

(* POST /cancel/{request_id}, the id known from the start event. *)
Kill(r) ==
    /\ el = Free /\ r \in Killed /\ kill[r] = "none"
    /\ conn[r] \in {"open", "cancel", "closed"}
    /\ kill' = [kill EXCEPT ![r] = "waits"]
    /\ cancels' = cancels \cup {r}
    /\ UNCHANGED <<core, emitted, newly, preempts, st, el, streams, queue, done, conn, gone,
                   got, made>>

KillReturns(r) ==
    /\ el = Free /\ kill[r] = "waits"
    /\ cancels = {} \/ r \in Slow
    /\ el' = Section("emit", "kill", r)
    /\ UNCHANGED <<core, cancels, emitted, newly, preempts, st, loopSide, gone, made>>

(* The client closes its connection. *)
Disconnect(r) ==
    /\ r \in Leaving \ gone /\ conn[r] = "open"
    /\ gone' = gone \cup {r}
    /\ UNCHANGED <<core, cancels, emitted, newly, preempts, st, el, loopSide, made>>

-----------------------------------------------------------------------------
(* _run. *)

StartStep ==
    /\ el = Free /\ st.pc = "off" /\ HasWork
    /\ st' = [st EXCEPT !.pc = "cancel"]
    /\ UNCHANGED <<core, cancels, emitted, newly, preempts, el, loopSide, gone, made>>

(* The idle pass: apply_cancellations finds no request; _fanout.  A pass with
   nothing to apply or drain changes nothing and is left out. *)
IdlePass ==
    /\ el = Free /\ st.pc = "off" /\ ~HasWork
    /\ cancels # {} \/ emitted # Drained \/ newly # {}
    /\ cancels' = {}
    /\ el' = Section("emit", "loop", NoReq)
    /\ UNCHANGED <<core, emitted, newly, preempts, st, loopSide, gone, made>>

StepReturns ==
    /\ el = Free /\ st.pc = "end"
    /\ st' = Off
    /\ el' = Section("emit", "loop", NoReq)
    /\ UNCHANGED <<core, cancels, emitted, newly, preempts, loopSide, gone, made>>

-----------------------------------------------------------------------------
(* step(), on its own thread.  First apply_cancellations. *)

(* Mutant: ids of requests not in the batch are thrown away. *)
TakeCancelsRunning ==
    /\ st.pc = "cancel"
    /\ st' = [st EXCEPT !.pc = IF cancels = {} THEN "admit" ELSE "apply",
                        !.wanted = cancels \cap ToSet(running)]
    /\ cancels' = {}
    /\ UNCHANGED <<core, emitted, newly, preempts, el, loopSide, gone, made>>

TakeCancels ==
    /\ st.pc = "cancel"
    /\ st' = [st EXCEPT !.pc = IF cancels = {} THEN "admit" ELSE "apply",
                        !.wanted = cancels]
    /\ cancels' = {}
    /\ UNCHANGED <<core, emitted, newly, preempts, el, loopSide, gone, made>>

CancelRunning(r) ==
    /\ st.pc = "apply" /\ r \in st.wanted \cap ToSet(running)
    /\ running' = Without(running, r)
    /\ Outcome(r, "cancelled")
    /\ UNCHANGED <<waiting, output, cancels, emitted, preempts, st, el, loopSide, gone, made>>

ScanWaiting ==
    /\ st.pc = "apply" /\ st.wanted \cap ToSet(running) = {}
    /\ st' = [st EXCEPT !.pc = "scan"]
    /\ UNCHANGED <<core, cancels, emitted, newly, preempts, el, loopSide, gone, made>>

(* The list of waiting requests to drop is complete; or a submit appended to
   the deque meanwhile, RuntimeError leaves step() and ends the loop's task. *)
Scanned ==
    /\ st.pc = "scan"
    /\ st' = [st EXCEPT !.pc = IF st.moved THEN "dead" ELSE "drop"]
    /\ UNCHANGED <<core, cancels, emitted, newly, preempts, el, loopSide, gone, made>>

CancelWaiting(r) ==
    /\ st.pc = "drop" /\ r \in st.wanted \cap ToSet(waiting)
    /\ waiting' = Without(waiting, r)
    /\ Disturbs
    /\ Outcome(r, "cancelled")
    /\ UNCHANGED <<running, output, cancels, emitted, preempts, st, loopSide, gone, made>>

CancelsDone ==
    /\ st.pc = "drop" /\ st.wanted \cap ToSet(waiting) = {}
    /\ st' = [st EXCEPT !.pc = "admit", !.wanted = {}]
    /\ UNCHANGED <<core, cancels, emitted, newly, preempts, el, loopSide, gone, made>>

(* _admit takes the head of the queue; its first token follows at once. *)
AdmitPop ==
    /\ st.pc = "admit" /\ waiting # <<>> /\ Len(running) < MaxBatch
    /\ waiting' = Tail(waiting)
    /\ Disturbs
    /\ running' = Append(running, Head(waiting))
    /\ st' = [st EXCEPT !.pc = "accept", !.to = "admit", !.batch = <<Head(waiting)>>]
    /\ UNCHANGED <<reason, output, cancels, emitted, newly, preempts, loopSide, gone, made>>

(* Nothing to admit, the batch is full, or memory is short. *)
AdmitEnd ==
    /\ st.pc = "admit"
    /\ waiting = <<>> \/ running # <<>>
    /\ st' = [st EXCEPT !.pc = IF running = <<>> THEN "end" ELSE "decode"]
    /\ UNCHANGED <<core, cancels, emitted, newly, preempts, el, loopSide, gone, made>>

Decode ==
    /\ st.pc = "decode"
    /\ st' = [st EXCEPT !.pc = "accept", !.to = "end", !.batch = running]
    /\ UNCHANGED <<core, cancels, emitted, newly, preempts, el, loopSide, gone, made>>

(* The pool ran dry: _preempt_newest, and the step is over. *)
Preempt ==
    /\ st.pc = "decode" /\ preempts < MaxPreempts
    /\ LET victim == Last(running)
       IN  /\ waiting' = <<victim>> \o waiting
           /\ output' = [output EXCEPT ![victim] = 0]
    /\ running' = Front(running)
    /\ Disturbs
    /\ preempts' = preempts + 1
    /\ st' = [st EXCEPT !.pc = "end"]
    /\ UNCHANGED <<reason, cancels, emitted, newly, loopSide, gone, made>>

(* _accept_token for the next sequence: a token recorded and emitted, unless
   it is the end-of-sequence token. *)
AcceptToken ==
    /\ st.pc = "accept" /\ st.batch # <<>>
    /\ LET r == Head(st.batch)
           k == output[r] + 1
       IN  /\ output' = [output EXCEPT ![r] = k]
           /\ emitted' = [emitted EXCEPT ![r] = Append(@, k)]
           /\ made' = [made EXCEPT ![r] = Append(@, k)]
           /\ st' = IF k >= Budget[r] THEN [st EXCEPT !.pc = "retire"]
                    ELSE [st EXCEPT !.batch = Tail(@)]
    /\ UNCHANGED <<waiting, running, reason, cancels, newly, preempts, el, loopSide, gone>>

AcceptEos ==
    /\ st.pc = "accept" /\ st.batch # <<>>
    /\ st' = [st EXCEPT !.pc = "retire"]
    /\ UNCHANGED <<core, cancels, emitted, newly, preempts, el, loopSide, gone, made>>

Retire ==
    /\ st.pc = "retire"
    /\ LET r == Head(st.batch)
       IN  /\ running' = Without(running, r)
           /\ Outcome(r, "completed")
    /\ st' = [st EXCEPT !.pc = "accept", !.batch = Tail(@)]
    /\ UNCHANGED <<waiting, output, cancels, emitted, preempts, el, loopSide, gone, made>>

Accepted ==
    /\ st.pc = "accept" /\ st.batch = <<>>
    /\ st' = [st EXCEPT !.pc = st.to]
    /\ UNCHANGED <<core, cancels, emitted, newly, preempts, el, loopSide, gone, made>>

-----------------------------------------------------------------------------
StepThread ==
    \/ TakeCancels \/ ScanWaiting \/ Scanned \/ CancelsDone
    \/ \E r \in Reqs : CancelRunning(r) \/ CancelWaiting(r)
    \/ AdmitPop \/ AdmitEnd \/ Decode \/ Preempt
    \/ AcceptToken \/ AcceptEos \/ Retire \/ Accepted

Loop == StartStep \/ IdlePass \/ StepReturns
SectionStep == ScanRaises \/ Added \/ FanEmit \/ FanDone
Connection(r) == TakeToken(r) \/ StreamEnds(r) \/ CancelReturns(r)

Next ==
    \/ StepThread \/ Loop \/ SectionStep
    \/ \E r \in Reqs : Connection(r) \/ Submit(r) \/ Kill(r) \/ KillReturns(r)
                       \/ Disconnect(r)

Spec == Init /\ [][Next]_vars

(* The step thread runs; the event loop runs its ready tasks in turn, so each
   is served although the others keep it busy.  Clients promise nothing. *)
FairSpec ==
    /\ Spec
    /\ WF_vars(StepThread) /\ WF_vars(SectionStep)
    /\ SF_vars(Loop)
    /\ \A r \in Reqs : SF_vars(Connection(r))

-----------------------------------------------------------------------------
(* A registered stream has every token the engine emitted for its request,
   once and in order: sent, queued, or still in the engine's buffer.  The
   buffer is filled by one thread and drained by the other, at any moment
   (drain_emitted, _fanout). *)
NoTokenLost ==
    \A r \in streams : got[r] \o queue[r] \o emitted[r] = made[r]

(* cancel() "wait[s] for the engine thread to apply it": when a connection is
   closed its request is out of the engine, or a step has taken its id over
   and drops the request before it generates; only a cancel() that timed out
   may leave the id for a later step.  A step that died with the id in hand
   drops nothing any more, and nothing generates any more either. *)
AbandonedIsGone ==
    \A r \in Reqs :
        conn[r] = "closed" /\ InEngine(r) =>
            r \in st.wanted \/ (r \in cancels /\ r \in Slow)

(* "guarantee the sequence is released on every exit" (_token_stream): every
   open stream ends, is released, and its request leaves the engine, unless
   the loop's task has died. *)
EveryStreamReleased ==
    \A r \in Reqs :
        conn[r] = "open" ~>
            \/ conn[r] = "closed" /\ r \notin streams /\ ~InEngine(r)
            \/ st.pc = "dead"
=============================================================================
