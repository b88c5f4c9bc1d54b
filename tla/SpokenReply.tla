------------------------------ MODULE SpokenReply ------------------------------
(***************************************************************************)
(* A call whose model only writes (external/voice/conversation/            *)
(* half_cascade.py): each reply is streamed to a speech synthesiser, its   *)
(* final transcript and TurnEnded wait until its audio is out, and speech  *)
(* of the caller aborts it. The runtime's event pump (realtime/runtime.py) *)
(* takes the events in order and answers SpeechStarted by interrupt().     *)
(*                                                                         *)
(* The inner bridge is any bridge that follows VoiceStream: its actions    *)
(* drive this module's pump. Text is its length, and a character voiced is *)
(* one AudioDelta of its turn.                                             *)
(***************************************************************************)
EXTENDS VoiceStream, Integers, Sequences, Functions

CONSTANTS
    MaxTurns,      \* bound: agent turns of the call
    MaxText,       \* bound: characters of one reply
    MaxQueue       \* bound: events the runtime has not taken yet

ASSUME SpokenAssumption ==
    MaxTurns \in Nat /\ MaxText \in Nat \ {0} /\ MaxQueue \in Nat

NoTurn == -1

VARIABLES
    pc,         \* the pump: "idle", "drain", "open", "closing", "dead"
    job,        \* what it is speaking: [text, final]
    turn,       \* _turn
    cancelled,  \* _cancelled_turn
    spoken,     \* length of _spoken
    tts,        \* the one synthesis session, open or flushing
    after,      \* _pending: steps that wait for the flush
    chars,      \* _turn_chars
    out,        \* _queue
    failed,     \* the synthesiser died
    speaking,   \* the runtime's _agent_speaking
    told,       \* turn that the client was last told to stop playing
    billed,     \* the runtime's _speech_chars
    sent,       \* characters handed to the synthesiser so far
    over,       \* the call has ended
    outShown, outCut, outClosed   \* the outer event stream, as in VoiceStream

pumpVars == <<pc, job, turn, cancelled, spoken>>
runtimeVars == <<speaking, told, billed, over>>
outerVars == <<outShown, outCut, outClosed>>
vars == <<streamVars, pumpVars, tts, after, chars, out, failed, sent, runtimeVars, outerVars>>

NoTts == [mode |-> "none", turn |-> NoTurn, sent |-> 0, voiced |-> 0]
NoJob == [text |-> 0, final |-> FALSE]

Init ==
    /\ StreamInit
    /\ pc = "idle" /\ job = NoJob /\ turn = 0 /\ cancelled = NoTurn /\ spoken = 0
    /\ tts = NoTts /\ after = <<>> /\ chars = 0 /\ out = <<>> /\ failed = FALSE /\ sent = 0
    /\ speaking = FALSE /\ told = NoTurn /\ billed = 0 /\ over = FALSE
    /\ outShown = 0 /\ outCut = FALSE /\ outClosed = FALSE

Put(kind, value) == out' = Append(out, [kind |-> kind, value |-> value])
Room == ~over /\ Len(out) < MaxQueue

-----------------------------------------------------------------------------
(* _abort_speech *)

\* Mutant: the characters of an aborted session are forgotten.
AbortSpeechUncounted(counted) == chars' = counted /\ tts' = NoTts

\* Both an open session and a flush are dropped; an open session's characters
\* are counted here, a flush's by the step that waits for it.
AbortSpeech(counted) ==
    /\ chars' = counted + (IF tts.mode \in {"opening", "open"} THEN tts.sent ELSE 0)
    /\ tts' = NoTts

-----------------------------------------------------------------------------
(* _pump_inner *)

\* _in_order(TurnEnded): now, or behind the flush that is still running.
EndTurn ==
    IF after = <<>>
    THEN /\ Put("ended", [turn |-> turn, chars |-> chars]) /\ chars' = 0
         /\ outShown' = 0 /\ outCut' = FALSE
         /\ UNCHANGED after
    ELSE /\ after' = Append(after, [kind |-> "end", value |-> turn])
         /\ UNCHANGED <<out, chars, outShown, outCut>>

NextTurn == turn' = turn + 1 /\ spoken' = 0

\* The session has the whole reply: flush it off the pump, end the turn after it.
FlushAndEnd(session) ==
    /\ tts' = [session EXCEPT !.mode = "flushing"]
    /\ after' = after \o <<[kind |-> "count", value |-> session.sent],
                           [kind |-> "end", value |-> turn]>>
    /\ NextTurn
    /\ UNCHANGED <<chars, out, outShown, outCut>>

\* _speak with a session at hand: send the unspoken tail, show the text.
SendTail(text) ==
    /\ tts' = [tts EXCEPT !.mode = "open", !.sent = @ + text]
    /\ sent' = sent + text

Muted == turn = cancelled

\* AgentTranscript(is_final=False).
InnerText ==
    /\ pc = "idle" /\ Room /\ turn < MaxTurns
    /\ shown' \in (shown + 1)..MaxText /\ Show
    /\ IF Muted
       THEN outShown' = shown' /\ UNCHANGED <<pc, job, spoken, tts, sent>>
       ELSE /\ spoken' = shown'
            /\ IF tts.mode = "open"
               THEN SendTail(shown' - spoken) /\ outShown' = shown' /\ UNCHANGED <<pc, job>>
               ELSE /\ pc' = "drain" /\ job' = [text |-> shown' - spoken, final |-> FALSE]
                    /\ UNCHANGED <<tts, sent, outShown>>
    /\ UNCHANGED <<turn, cancelled, after, chars, out, failed, runtimeVars, outCut, outClosed>>

\* AgentTranscript(is_final=True) if the reply has text, then TurnEnded.
InnerEnd ==
    /\ pc = "idle" /\ Room /\ turn < MaxTurns
    /\ End
    /\ IF shown = 0 \/ Muted
       THEN EndTurn /\ NextTurn /\ UNCHANGED <<pc, job, tts>>
       ELSE IF tts.mode = "open"
            THEN FlushAndEnd(tts) /\ UNCHANGED <<pc, job>>
            ELSE /\ pc' = "drain" /\ job' = [text |-> 0, final |-> TRUE]
                 /\ UNCHANGED <<turn, spoken, tts, after, chars, out, outShown, outCut>>
    /\ UNCHANGED <<cancelled, failed, sent, runtimeVars, outClosed>>

\* Mutant: the next reply does not wait for the flush of the last one.
DrainedAtOnce ==
    /\ ~over /\ pc = "drain"
    /\ pc' = "open"
    /\ tts' = [mode |-> "opening", turn |-> turn, sent |-> 0, voiced |-> 0]
    /\ UNCHANGED <<streamVars, job, turn, cancelled, spoken, after, chars, out, failed, sent,
                   runtimeVars, outerVars>>

\* Two sessions at once would interleave their audio: wait for the flush.
Drained ==
    /\ ~over /\ pc = "drain" /\ after = <<>>
    /\ pc' = "open"
    /\ tts' = [mode |-> "opening", turn |-> turn, sent |-> 0, voiced |-> 0]
    /\ UNCHANGED <<streamVars, job, turn, cancelled, spoken, after, chars, out, failed, sent,
                   runtimeVars, outerVars>>

\* The session is open, or interrupt() aborted it while it was opening.
Opened ==
    /\ Room /\ pc = "open"
    /\ pc' = "idle" /\ job' = NoJob
    /\ UNCHANGED <<streamVars, cancelled, failed, runtimeVars, outClosed>>
    /\ IF tts.mode = "none"
       THEN UNCHANGED <<tts, sent>> /\ (IF job.final THEN EndTurn /\ NextTurn
                ELSE outShown' = shown /\ UNCHANGED <<turn, spoken, after, chars, out, outCut>>)
       ELSE IF job.final
            THEN FlushAndEnd(tts) /\ UNCHANGED sent
            ELSE /\ SendTail(job.text) /\ outShown' = shown
                 /\ UNCHANGED <<turn, spoken, after, chars, out, outCut>>

\* open() raises: the exception ends the pump task.
OpenFails ==
    /\ ~over /\ pc = "open"
    /\ pc' = "dead"
    /\ UNCHANGED <<streamVars, job, turn, cancelled, spoken, tts, after, chars, out, failed, sent,
                   runtimeVars, outerVars>>

\* Mutant: the reply that was cut is not remembered.
InnerSpeechForgets ==
    /\ pc = "idle" /\ Room
    /\ Speech
    /\ AbortSpeech(chars)
    /\ Put("speech", tts.turn)
    /\ outCut' = (outShown # 0)
    /\ UNCHANGED <<pc, job, turn, cancelled, spoken, after, failed, sent, runtimeVars, outShown,
                   outClosed>>

\* SpeechStarted: only speech in flight is cancelled.
InnerSpeech ==
    /\ pc = "idle" /\ Room
    /\ Speech
    /\ AbortSpeech(chars)
    /\ IF tts.mode = "open"
       THEN cancelled' = turn /\ spoken' = 0
       ELSE UNCHANGED <<cancelled, spoken>>
    /\ Put("speech", tts.turn)
    /\ outCut' = (outShown # 0)
    /\ UNCHANGED <<pc, job, turn, after, failed, sent, runtimeVars, outShown, outClosed>>

\* SessionClosed, behind everything that is pending.
InnerClosed ==
    /\ pc = "idle" /\ ~over /\ Close
    /\ pc' = "closing"
    /\ UNCHANGED <<job, turn, cancelled, spoken, tts, after, chars, out, failed, sent, runtimeVars,
                   outerVars>>

PumpEnds ==
    /\ pc = "closing" /\ after = <<>> /\ Room
    /\ pc' = "dead"
    /\ Put("closed", NoTurn) /\ outClosed' = TRUE
    /\ UNCHANGED <<streamVars, job, turn, cancelled, spoken, tts, after, chars, failed, sent,
                   runtimeVars, outShown, outCut>>

-----------------------------------------------------------------------------
(* The synthesis session, and the steps that wait for its flush *)

Audio ==
    /\ Room /\ tts.mode \in {"open", "flushing"} /\ tts.voiced < tts.sent /\ ~failed
    /\ tts' = [tts EXCEPT !.voiced = @ + 1]
    /\ Put("audio", tts.turn)
    /\ UNCHANGED <<streamVars, pumpVars, after, chars, failed, sent, runtimeVars, outerVars>>

\* The provider died: the runtime is told, the flush of that session returns.
SpeechFails ==
    /\ Room /\ tts.mode \in {"open", "flushing"} /\ ~failed
    /\ failed' = TRUE
    /\ Put("error", NoTurn)
    /\ UNCHANGED <<streamVars, pumpVars, tts, after, chars, sent, runtimeVars, outerVars>>

\* flush_and_close returns: all audio is out, or 30 s have passed.
Flushed ==
    /\ ~over /\ tts.mode = "flushing"
    /\ tts' = NoTts
    /\ UNCHANGED <<streamVars, pumpVars, after, chars, out, failed, sent, runtimeVars, outerVars>>

\* A step of the pending chain, each behind the one before it.
Count ==
    /\ ~over /\ after # <<>> /\ Head(after).kind = "count" /\ tts.mode # "flushing"
    /\ chars' = chars + Head(after).value
    /\ after' = Tail(after)
    /\ UNCHANGED <<streamVars, pumpVars, tts, out, failed, sent, runtimeVars, outerVars>>

EndInOrder ==
    /\ Room /\ after # <<>> /\ Head(after).kind = "end"
    /\ Put("ended", [turn |-> Head(after).value, chars |-> chars])
    /\ chars' = 0
    /\ after' = Tail(after)
    /\ outShown' = 0 /\ outCut' = FALSE
    /\ UNCHANGED <<streamVars, pumpVars, tts, failed, sent, runtimeVars, outClosed>>

-----------------------------------------------------------------------------
(* The runtime: _pump_bridge, and the ways a call ends *)

Take(kind) == ~over /\ out # <<>> /\ Head(out).kind = kind /\ out' = Tail(out)

PlayAudio ==
    /\ Take("audio")
    /\ speaking' = TRUE
    /\ UNCHANGED <<streamVars, pumpVars, tts, after, chars, failed, sent, told, billed, over,
                   outerVars>>

\* The client stops playing; a reply that was audible is interrupted. A bridge
\* that accepts late interrupts may be told although its audio is all sent.
CallerSpeaks ==
    /\ Take("speech")
    /\ told' = Head(out).value
    /\ speaking' = FALSE
    /\ \/ AbortSpeech(chars)
       \/ ~speaking /\ UNCHANGED <<tts, chars>>
    /\ UNCHANGED <<streamVars, pumpVars, after, failed, sent, billed, over, outerVars>>

TurnDone ==
    /\ Take("ended")
    /\ speaking' = FALSE
    /\ billed' = billed + Head(out).value.chars
    /\ UNCHANGED <<streamVars, pumpVars, tts, after, chars, failed, sent, told, over, outerVars>>

\* SessionClosed or a fatal error ends the call, and so does the caller.
Finished ==
    /\ Take("closed") \/ Take("error")
    /\ over' = TRUE
    /\ UNCHANGED <<streamVars, pumpVars, tts, after, chars, failed, sent, speaking, told, billed,
                   outerVars>>

HangUp ==
    /\ ~over /\ over' = TRUE
    /\ UNCHANGED <<streamVars, pumpVars, tts, after, chars, out, failed, sent, speaking, told,
                   billed, outerVars>>

Next ==
    \/ InnerText \/ InnerEnd \/ InnerSpeech \/ InnerClosed
    \/ Drained \/ Opened \/ OpenFails \/ PumpEnds
    \/ Audio \/ SpeechFails \/ Flushed \/ Count \/ EndInOrder
    \/ PlayAudio \/ CallerSpeaks \/ TurnDone \/ Finished \/ HangUp

\* The event loop runs every ready task; a flush returns within 30 s, the
\* handshake of a session ends, and the inner bridge keeps its contract: a
\* reply that was cut is ended. Strong where the bound on the queue, which the
\* code does not have, interrupts a step.
Fairness ==
    /\ SF_vars(Drained \/ Opened \/ PumpEnds)
    /\ SF_vars(Flushed \/ Count \/ EndInOrder)
    /\ WF_vars(PlayAudio \/ CallerSpeaks \/ TurnDone \/ Finished)
    /\ SF_vars(InnerEnd /\ cut)

Spec == Init /\ [][Next]_vars /\ Fairness

-----------------------------------------------------------------------------
(* Correctness *)

\* Once the client has been told to stop playing a reply, no audio of that
\* reply reaches it any more: text the model had already committed to must not
\* be voiced after the barge-in, and neither may a session that was cut off.
CutReplyStaysSilent ==
    \A j \in DOMAIN out :
        out[j].kind = "audio" =>
            /\ \A i \in 1..(j - 1) : out[i].kind = "speech" => out[i].value # out[j].value
            /\ told # out[j].value

\* The characters that the TurnEnded of a queue, and the steps that wait for a flush,
\* still have to account for.
EndedChars(event) == IF event.kind = "ended" THEN event.value.chars ELSE 0
InTransit(queue) ==
    SumFunctionOnSet([i \in DOMAIN queue |-> EndedChars(queue[i])], DOMAIN queue)

CountedLater(step) == IF step.kind = "count" THEN step.value ELSE 0
ToCount(steps) ==
    SumFunctionOnSet([i \in DOMAIN steps |-> CountedLater(steps[i])], DOMAIN steps)

\* Every character handed to the synthesiser is billed exactly once, however
\* its session ended: it is with the runtime, on its way there in a TurnEnded,
\* or still in one of the counters of its turn (_turn_chars, _session_chars).
EveryCharBilledOnce ==
    ~over =>
        sent = billed + chars + InTransit(out) + ToCount(after)
               + (IF tts.mode \in {"opening", "open"} THEN tts.sent ELSE 0)

\* The bridge that speaks keeps the contract of the bridge it wraps, as long as
\* the call goes on and its pump lives: replies do not overlap, a cut reply is
\* ended. A pump that died says nothing any more, and nobody learns of it.
Outer == INSTANCE VoiceStream WITH
    shown <- outShown, cut <- outCut, closed <- outClosed \/ over \/ pc = "dead"
FollowsContract == Outer!StreamSpec

================================================================================
