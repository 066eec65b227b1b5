--------------------------- MODULE TraceRecorder ---------------------------
(***************************************************************************)
(* The decision trace recorder: the node's callbacks hand every event the  *)
(* engine has applied to a bounded queue, a writer thread drains it into a *)
(* file that ends in a footer, and stop() joins the writer.  A frame is    *)
(* its event sequence number.  Callbacks are serialised by runtime_mutex_  *)
(* and the recorder by its own mutex; the writer holds no lock while it    *)
(* writes, and sleeps on a condition variable.  The reader of the file and *)
(* the admission to replay are the operators Reads and Replayable.         *)
(***************************************************************************)
EXTENDS Integers, Sequences

CONSTANTS
    QueueCapacity,   \* decision_trace_queue_capacity
    MaxEvents        \* bound: events submitted to the engine

ASSUME RecorderAssumption ==
    QueueCapacity \in Nat \ {0} /\ MaxEvents \in Nat

VARIABLES
    applied,         \* event sequence of the engine
    owner,           \* recording, or the stage of stop() in on_cleanup
    \* DecisionTraceRecorder, guarded by mutex_
    queue, accepting, stopRequested, valid, overflow, writerFailed,
    lastAccepted, accepted,
    \* writer_loop()
    pc, frame,
    \* the file: frames, and the footer that closes it
    file, footer

flags == <<accepting, stopRequested, valid, overflow, writerFailed>>
recorder == <<queue, flags, lastAccepted, accepted>>
writer == <<pc, frame, file, footer>>
recorderVars == <<applied, owner, recorder, writer>>

-----------------------------------------------------------------------------
NodeStages == {"recording", "cleaned", "notifying", "joining", "stopped"}

WriterStages ==
    {"opening", "checking", "asleep", "writing", "counting", "closing", "done"}

NoFooter == [present |-> FALSE, valid |-> FALSE, overflow |-> FALSE,
             last |-> 0, count |-> 0]

\* The first n events, as a trace.
Events(n) == [i \in 1..n |-> i]

\* The sequence number of a file's last event, 0 without one.
LastSequence(frames) == IF frames = <<>> THEN 0 ELSE frames[Len(frames)]

\* A new recorder, whose writer has just been started; on_configure records
\* the Configure event, the engine's first one, with it.
RecorderInit ==
    /\ applied = 0 /\ owner = "recording"
    /\ queue = <<>> /\ accepting = TRUE /\ stopRequested = FALSE
    /\ valid = TRUE /\ overflow = FALSE /\ writerFailed = FALSE
    /\ lastAccepted = 0 /\ accepted = 0
    /\ pc = "opening" /\ frame = 0
    /\ file = <<>> /\ footer = NoFooter

\* Mutants of MarkInvalid: the recorder goes on accepting; a later mark
\* overwrites an earlier one.
MarkOpen(isOverflow, isWriter) ==
    /\ valid' = FALSE
    /\ overflow' = (overflow \/ isOverflow)
    /\ writerFailed' = (writerFailed \/ isWriter)
    /\ UNCHANGED <<accepting, stopRequested>>

MarkLast(isOverflow, isWriter) ==
    /\ valid' = FALSE /\ accepting' = FALSE
    /\ overflow' = isOverflow
    /\ writerFailed' = (writerFailed \/ isWriter)
    /\ UNCHANGED stopRequested

\* mark_invalid_locked
MarkInvalid(isOverflow, isWriter) ==
    /\ valid' = FALSE /\ accepting' = FALSE
    /\ overflow' = (overflow \/ isOverflow)
    /\ writerFailed' = (writerFailed \/ isWriter)
    /\ UNCHANGED stopRequested

\* Mutant of Notify: nobody is woken.
NotifyLost == UNCHANGED pc

\* condition_.notify_one(): only the writer ever waits.
Notify == pc' = IF pc = "asleep" THEN "checking" ELSE pc

-----------------------------------------------------------------------------
(***************************************************************************)
(* submit_decision_event_locked: the engine applies the event, then its    *)
(* frame goes to try_enqueue.                                              *)
(***************************************************************************)
Applies ==
    /\ owner = "recording" /\ applied < MaxEvents
    /\ applied' = applied + 1
    /\ UNCHANGED <<owner, frame, file, footer>>

\* The frame of the event being applied is the next one, and there is room.
Contiguous == lastAccepted + 1 = applied + 1

Fits == Contiguous /\ Len(queue) < QueueCapacity

FrameAccepted ==
    /\ Applies /\ accepting /\ Fits
    /\ queue' = Append(queue, applied')
    /\ lastAccepted' = applied' /\ accepted' = accepted + 1
    /\ Notify
    /\ UNCHANGED flags

FrameRefused ==
    /\ Applies /\ ~accepting
    /\ UNCHANGED <<recorder, pc>>

\* Out of sequence, or no room for it: only the latter wakes the writer.
FrameRejected ==
    /\ Applies /\ accepting /\ ~Fits
    /\ MarkInvalid(Contiguous, FALSE)
    /\ IF Contiguous THEN Notify ELSE UNCHANGED pc
    /\ UNCHANGED <<queue, lastAccepted, accepted>>

\* queue_.push_back throws, after the frame has been counted.
EnqueueThrows ==
    /\ Applies /\ accepting /\ Fits
    /\ lastAccepted' = applied' /\ accepted' = accepted + 1
    /\ MarkInvalid(FALSE, FALSE)
    /\ UNCHANGED <<queue, pc>>

\* The event is applied, but copying it into a frame throws.
FrameConstructionFails ==
    /\ Applies
    /\ MarkInvalid(FALSE, FALSE)
    /\ UNCHANGED <<queue, lastAccepted, accepted, pc>>

\* Mutant of EngineRejects: the trace is not invalidated.
EngineRejectsSilently ==
    /\ owner = "recording" /\ applied < MaxEvents
    /\ applied' = applied + 1
    /\ UNCHANGED <<owner, recorder, writer>>

\* apply_event throws: no event, but the engine may have changed.
EngineRejects ==
    /\ owner = "recording" /\ MarkInvalid(FALSE, FALSE)
    /\ UNCHANGED <<applied, owner, queue, lastAccepted, accepted, writer>>

Record ==
    \/ FrameAccepted \/ FrameRefused \/ FrameRejected
    \/ EnqueueThrows \/ FrameConstructionFails \/ EngineRejects

(***************************************************************************)
(* on_cleanup moves the recorder out of the node under runtime_mutex_ and  *)
(* stops it afterwards.                                                    *)
(***************************************************************************)
Cleanup ==
    /\ owner = "recording"
    /\ owner' = "cleaned"
    /\ UNCHANGED <<applied, recorder, writer>>

RequestStop ==
    /\ owner = "cleaned"
    /\ owner' = "notifying"
    /\ accepting' = FALSE /\ stopRequested' = TRUE
    /\ UNCHANGED <<applied, queue, valid, overflow, writerFailed,
                   lastAccepted, accepted, writer>>

\* Mutant of NotifyStop: the writer is not woken.
NotifyNobody ==
    /\ owner = "notifying"
    /\ owner' = "joining"
    /\ UNCHANGED <<applied, recorder, writer>>

NotifyStop ==
    /\ owner = "notifying"
    /\ owner' = "joining"
    /\ Notify
    /\ UNCHANGED <<applied, recorder, frame, file, footer>>

Join ==
    /\ owner = "joining" /\ pc = "done"
    /\ owner' = "stopped"
    /\ UNCHANGED <<applied, recorder, writer>>

Stop == RequestStop \/ NotifyStop \/ Join

-----------------------------------------------------------------------------
(***************************************************************************)
(* writer_loop.                                                            *)
(***************************************************************************)
Open ==
    /\ pc = "opening"
    /\ pc' = "checking"
    /\ UNCHANGED <<applied, owner, recorder, frame, file, footer>>

\* The predicate of condition_.wait, and what follows it under the lock.
Sleep ==
    /\ pc = "checking" /\ queue = <<>> /\ ~stopRequested
    /\ pc' = "asleep"
    /\ UNCHANGED <<applied, owner, recorder, frame, file, footer>>

SpuriousWakeup ==
    /\ pc = "asleep"
    /\ pc' = "checking"
    /\ UNCHANGED <<applied, owner, recorder, frame, file, footer>>

Take ==
    /\ pc = "checking" /\ queue # <<>>
    /\ frame' = Head(queue) /\ queue' = Tail(queue)
    /\ pc' = "writing"
    /\ UNCHANGED <<applied, owner, flags, lastAccepted, accepted, file,
                   footer>>

Leave ==
    /\ pc = "checking" /\ queue = <<>> /\ stopRequested
    /\ pc' = "counting"
    /\ UNCHANGED <<applied, owner, recorder, frame, file, footer>>

Write ==
    /\ pc = "writing"
    /\ file' = Append(file, frame) /\ frame' = 0
    /\ pc' = "checking"
    /\ UNCHANGED <<applied, owner, recorder, footer>>

\* The counts are compared and the footer composed in one critical section.
ComposeFooter ==
    /\ pc = "counting"
    /\ IF Len(file) # accepted THEN MarkInvalid(FALSE, TRUE)
                               ELSE UNCHANGED flags
    /\ footer' = [present |-> FALSE, valid |-> valid', overflow |-> overflow',
                  last |-> LastSequence(file), count |-> Len(file)]
    /\ pc' = "closing"
    /\ UNCHANGED <<applied, owner, queue, lastAccepted, accepted, frame, file>>

Close ==
    /\ pc = "closing"
    /\ footer' = [footer EXCEPT !.present = TRUE]
    /\ pc' = "done"
    /\ UNCHANGED <<applied, owner, recorder, frame, file>>

\* An I/O error; while closing, the footer may have reached the file.
WriterFails ==
    /\ pc \in {"opening", "writing", "closing"}
    /\ MarkInvalid(FALSE, TRUE)
    /\ \/ footer' = footer
       \/ pc = "closing" /\ footer' = [footer EXCEPT !.present = TRUE]
    /\ pc' = "done"
    /\ UNCHANGED <<applied, owner, queue, lastAccepted, accepted, frame, file>>

WriterStep ==
    \/ Open \/ Sleep \/ Take \/ Leave \/ Write \/ ComposeFooter \/ Close
    \/ WriterFails

-----------------------------------------------------------------------------
(***************************************************************************)
(* What reads the file when it is complete or the process has been killed: *)
(* a header (the writer's first line, before any frame), events numbered   *)
(* from 1, and a footer that counts them and does not contradict itself.   *)
(* A file that was cut short has lost its footer.                          *)
(***************************************************************************)
Reads(frames, closing) ==
    /\ closing.present
    /\ ~(closing.valid /\ closing.overflow)
    /\ \A i \in 1..Len(frames) : frames[i] = i
    /\ closing.last = LastSequence(frames)
    /\ closing.count = Len(frames)

\* replay_decision_trace goes on to apply the events.
Replayable(frames, closing) ==
    /\ Reads(frames, closing)
    /\ closing.valid /\ ~closing.overflow
    /\ frames # <<>>

-----------------------------------------------------------------------------
RecorderNext == Record \/ Cleanup \/ Stop \/ WriterStep \/ SpuriousWakeup

RecorderSpec == RecorderInit /\ [][RecorderNext]_recorderVars

(***************************************************************************)
(* The writer thread is scheduled, and so is the thread inside stop().     *)
(* Neither events nor a cleanup, nor spurious wake-ups, have to occur.     *)
(***************************************************************************)
FairRecorderSpec ==
    RecorderSpec /\ WF_recorderVars(WriterStep) /\ WF_recorderVars(Stop)

-----------------------------------------------------------------------------
Footers == [present : BOOLEAN, valid : BOOLEAN, overflow : BOOLEAN,
            last : Nat, count : Nat]

MarksTyped ==
    /\ accepting \in BOOLEAN /\ stopRequested \in BOOLEAN
    /\ valid \in BOOLEAN /\ overflow \in BOOLEAN /\ writerFailed \in BOOLEAN

DataTyped ==
    /\ applied \in Nat /\ lastAccepted \in Nat /\ accepted \in Nat
    /\ queue \in Seq(Nat) /\ frame \in Nat /\ file \in Seq(Nat)
    /\ owner \in NodeStages /\ pc \in WriterStages /\ footer \in Footers

RecorderTypeOK == MarksTyped /\ DataTyped

(***************************************************************************)
(* Replay repeats the run: a file that it admits holds every event the     *)
(* engine applied, in order, whatever the queue overflowed, the engine     *)
(* refused or the writer failed at; and a file whose footer is valid is    *)
(* one that it admits, so that no run that was recorded whole is lost to   *)
(* the checks of the reader.                                               *)
(***************************************************************************)
ValidTraceComplete ==
    /\ Replayable(file, footer) => file = Events(applied)
    /\ footer.present /\ footer.valid /\ applied > 0 =>
          Replayable(file, footer)

(***************************************************************************)
(* The status stop() returns and the footer on disk tell the same story,   *)
(* except that the footer cannot know that writing it failed.              *)
(***************************************************************************)
FooterAgrees ==
    owner = "stopped" /\ footer.present =>
        /\ footer.overflow = overflow
        /\ footer.valid # valid => writerFailed

(***************************************************************************)
(* While the recorder accepts, it is level with the engine, so its check   *)
(* for a non-contiguous frame never fires.                                 *)
(***************************************************************************)
LevelWithEngine ==
    accepting => lastAccepted = applied /\ accepted = applied

\* Liveness: stop() returns.
StopCompletes == owner = "cleaned" ~> owner = "stopped"

\* Liveness: a queued frame does not wait for the next one to be written.
QueueDrained == queue # <<>> ~> (queue = <<>> \/ writerFailed)

(***************************************************************************)
(* No wake-up is lost: a writer that sleeps has nothing to write, and if   *)
(* it is to stop, the notification is still to come.  That is what both    *)
(* liveness properties come down to, given that threads are scheduled.     *)
(***************************************************************************)
NoLostWakeup ==
    pc = "asleep" => queue = <<>> /\ (stopRequested => owner = "notifying")

-----------------------------------------------------------------------------
(***************************************************************************)
(* The inductive strengthening that the proofs rest on.                    *)
(***************************************************************************)
Writing == IF pc = "writing" THEN 1 ELSE 0

\* Frames are numbered through from the file to the end of the queue.
Numbered ==
    /\ file = Events(Len(file))
    /\ pc = "writing" => frame = Len(file) + 1
    /\ ~writerFailed =>
          \A i \in 1..Len(queue) : queue[i] = Len(file) + Writing + i

\* What the counters know of them.
Counted ==
    /\ accepting => valid
    /\ valid /\ ~accepting => stopRequested
    /\ valid => accepted = applied /\ lastAccepted = applied
    /\ writerFailed => ~valid /\ pc \in {"closing", "done"}
    /\ lastAccepted <= applied
    /\ Len(file) + Writing + Len(queue) <= lastAccepted
    /\ valid => /\ Len(file) + Writing + Len(queue) = lastAccepted
                /\ ~overflow

\* The writer composes its footer after the last event.
Closing ==
    /\ stopRequested => /\ owner \in {"notifying", "joining", "stopped"}
                        /\ ~accepting
    /\ pc \in {"counting", "closing"} => stopRequested /\ queue = <<>>
    /\ footer.present => pc = "done" /\ stopRequested
    /\ pc \notin {"closing", "done"} => ~footer.valid
    /\ footer.valid => stopRequested /\ file = Events(applied)
    /\ pc = "closing" => footer.valid = valid /\ footer.overflow = overflow
    /\ footer.present => /\ footer.overflow = overflow
                         /\ footer.valid # valid => writerFailed
    /\ footer.valid => ~footer.overflow
    /\ pc = "closing" \/ footer.present =>
          footer.last = Len(file) /\ footer.count = Len(file)

RecorderInv == RecorderTypeOK /\ Numbered /\ Counted /\ Closing
=============================================================================
