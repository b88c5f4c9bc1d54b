----------------------------- MODULE CascadeBridge -----------------------------
(***************************************************************************)
(* A cascade voice call (realtime/cascade/bridge.py): the caller's audio   *)
(* goes to a turn detector and to a streaming recogniser, a tentative end  *)
(* of turn starts a speculative reply that stays held until the turn is    *)
(* confirmed, and speech that resumes discards or interrupts the reply.    *)
(*                                                                         *)
(* A phrase the caller speaks is its number: text is a sequence of phrase  *)
(* numbers, so a lost, repeated or reordered phrase shows. The text of a   *)
(* reply is its length. Time is the choice between a final that arrives    *)
(* and the recogniser's 0.3 s timeout.                                     *)
(***************************************************************************)
EXTENDS TurnDetector, FiniteSets, SequencesExt

CONSTANTS
    MaxSpeculations,   \* _MAX_SPECULATIONS_PER_TURN
    MaxFailures,       \* failed recognition streams in a row that end the call
    MaxPhrases,        \* bound: phrases the caller speaks
    MaxText,           \* bound: deltas of one reply
    MaxBatch,          \* bound: signals of one push of buffered audio
    SlowFinals         \* whether a final may miss its timeout

None == 0   \* no index

VARIABLES
    det,       \* the turn detector
    signals,   \* signals of the current push not handled yet
    pc,        \* "idle", "apply" between two signals of a push, or what the
               \* signal's handler waits for: "discard", "barge"
    task,      \* where the reply task stands
    brain,     \* whether the brain call is still producing text
    run,       \* the turn being answered
    reply,     \* _reply_text, as a length
    history,   \* the dialogue: <<"user", phrases>> or <<"agent", length>>
    index,     \* _interrupted_index
    said,      \* _interrupted_text, as a length
    early,     \* _early_heard_ms, as the length heard, or MaxText + 1 for None
    pending,   \* _pending_user
    finals,    \* _finals
    partial,   \* _partial
    final,     \* _final_event
    stale,     \* _stale_finals
    orphan,    \* _orphan_finals
    tries,     \* _speculations
    due,       \* SpeechStarted events the runtime may still answer by interrupt()
    stt,       \* utterances the recogniser has not answered: each but the last was
               \* ended by the mark the bridge puts into the audio stream
    open,      \* whether a recognition stream is open
    failures,  \* failed streams in a row
    spoken,    \* how many phrases the caller has spoken
    missed,    \* whether a turn was answered without its final, or a stream was lost
    shown, cut, closed   \* the event stream, as in VoiceStream

audioVars == <<det, signals, spoken>>
turnVars == <<pc, task, brain, run, reply, tries>>
talkVars == <<history, index, said, early, due>>
heardVars == <<pending, finals, partial, final, stale, orphan>>
sttVars == <<stt, open, failures>>
streamVars == <<shown, cut, closed>>
vars == <<audioVars, turnVars, talkVars, heardVars, sttVars, missed, streamVars>>

Places == {"none", "created", "finalizing", "replying", "held", "failed", "cancelling", "done"}
NotHeard == MaxText + 1

NewRun(confirmed) ==
    [live |-> TRUE, confirmed |-> confirmed, released |-> FALSE, awaiting |-> FALSE,
     token |-> FALSE, text |-> <<>>]

NoRun == [NewRun(FALSE) EXCEPT !.live = FALSE]

\* A recognition stream: nothing said into the utterance under way.
NewStream == << <<>> >>

Init ==
    /\ det = NewDetector /\ signals = <<>> /\ spoken = 0
    /\ pc = "idle" /\ task = "none" /\ brain = FALSE /\ run = NoRun /\ reply = 0 /\ tries = 0
    /\ history = <<>> /\ index = None /\ said = 0 /\ early = NotHeard /\ due = 0
    /\ pending = <<>> /\ finals = <<>> /\ partial = <<>> /\ final = FALSE
    /\ stale = 0 /\ orphan = 0
    /\ stt = NewStream /\ open = FALSE /\ failures = 0 /\ missed = FALSE
    /\ shown = 0 /\ cut = FALSE /\ closed = FALSE

\* The words of the history the caller spoke, in order.
UserWords == FlattenSeq([i \in DOMAIN history |->
                            IF history[i][1] = "user" THEN history[i][2] ELSE <<>>])

\* A push of audio and the signals it raised run to their first wait without
\* letting any other task in.
Quiet == ~closed /\ (signals = <<>> \/ pc \in {"discard", "barge"})

Running == task \in {"created", "finalizing", "replying", "held", "failed", "cancelling"}

\* Task.cancel(): a task that has not run yet ends at once, the others unwind.
Cancelled == IF Running THEN "cancelling" ELSE task

-----------------------------------------------------------------------------
(* send_audio: frames, and the asks that follow them *)

Hear(outcome) ==
    /\ det' = outcome.det
    /\ signals' = signals \o outcome.signals
    /\ Len(signals') <= MaxBatch

\* Frames of one push are processed before its signals, unless an ask stops it.
MayPush == ~closed /\ pc = "idle" /\ ~det.asking

\* Speech that goes on after a pause need not have words in it.
SpeechFrame ==
    /\ MayPush
    /\ Hear(OnSpeech(det))
    /\ \/ /\ OpensPhrase(det) /\ spoken < MaxPhrases
          /\ spoken' = spoken + 1
          /\ stt' = [stt EXCEPT ![Len(stt)] = Append(@, spoken + 1)]
       \/ /\ det.inTurn \/ ~OpensPhrase(det)
          /\ UNCHANGED <<spoken, stt>>
    /\ open' = (open \/ det'.inTurn)
    /\ UNCHANGED <<turnVars, talkVars, heardVars, failures, missed, streamVars>>

SilentFrame ==
    /\ MayPush
    /\ Hear(OnSilence(det))
    /\ open' = (open \/ det.inTurn)
    /\ UNCHANGED <<spoken, stt, turnVars, talkVars, heardVars, failures, missed, streamVars>>

Asked ==
    /\ ~closed /\ pc = "idle" /\ signals = <<>> /\ det.asking
    /\ \E done \in BOOLEAN : Hear(SettleAsk(det, done))
    /\ UNCHANGED <<spoken, turnVars, talkVars, heardVars, sttVars, missed, streamVars>>

-----------------------------------------------------------------------------
(* _apply: the signals, in order *)

Signal(s) == ~closed /\ pc \in {"idle", "apply"} /\ signals # <<>> /\ Head(signals) = s

Handled == signals' = Tail(signals) /\ pc' = (IF Len(signals) = 1 THEN "idle" ELSE "apply")

Discardable == run.live /\ ~run.confirmed

\* _on_pause_start: a tentative end of turn starts a held reply.
PauseStart ==
    /\ Signal("pause") /\ Handled
    /\ IF tries >= MaxSpeculations
       THEN UNCHANGED <<tries, run, task>>
       ELSE tries' = tries + 1 /\ run' = NewRun(FALSE) /\ task' = "created"
    /\ UNCHANGED <<det, spoken, brain, reply, talkVars, heardVars, sttVars, missed, streamVars>>

\* PauseCancelled with nothing held.
ResumeSpeech ==
    /\ Signal("resume") /\ Handled /\ ~Discardable
    /\ UNCHANGED <<det, spoken, task, brain, run, reply, tries, talkVars, heardVars, sttVars,
                   missed, streamVars>>

\* _discard_speculation: drop the held reply; its text stays with the turn.
Discard ==
    /\ Signal("resume") /\ Discardable
    /\ run' = [run EXCEPT !.live = FALSE]
    /\ task' = Cancelled
    /\ pc' = "discard"
    /\ UNCHANGED <<audioVars, brain, reply, tries, talkVars, heardVars, sttVars, missed, streamVars>>

Discarded ==
    /\ pc = "discard" /\ ~Running /\ ~closed
    /\ Handled
    /\ orphan' = orphan + (IF run.awaiting /\ ~final THEN 1 ELSE 0)
    /\ reply' = 0
    /\ UNCHANGED <<det, spoken, task, brain, run, tries, talkVars, pending, finals, partial,
                   final, stale, sttVars, missed, streamVars>>

\* _on_speech_start: a new turn; a reply under way is cancelled.
SpeechStart ==
    /\ Signal("speech") /\ ~Discardable
    /\ tries' = 0 /\ stale' = 0 /\ orphan' = 0
    /\ due' = due + 1
    /\ cut' = (shown # 0)
    /\ IF Running
       THEN /\ pc' = "barge" /\ early' = NotHeard /\ task' = "cancelling"
            /\ UNCHANGED signals
       ELSE Handled /\ UNCHANGED <<early, task>>
    /\ UNCHANGED <<det, spoken, brain, run, reply, history, index, said,
                   pending, finals, partial, final, sttVars, missed, shown, closed>>

\* Mutant: the interrupted reply is kept but never ended for the client.
BargedInUnended ==
    /\ pc = "barge" /\ ~Running /\ ~closed
    /\ Handled
    /\ IF reply = 0
       THEN UNCHANGED talkVars
       ELSE /\ history' = Append(history, <<"agent", 0>>)
            /\ index' = Len(history) + 1 /\ said' = reply
            /\ UNCHANGED <<early, due>>
    /\ reply' = 0
    /\ UNCHANGED <<det, spoken, task, brain, run, tries, heardVars, sttVars, missed, streamVars>>

\* The cancelled reply has stopped: keep none of it until interrupt() says how
\* much was heard, and end it for the client.
BargedIn ==
    /\ pc = "barge" /\ ~Running /\ ~closed
    /\ Handled
    /\ IF reply = 0
       THEN UNCHANGED <<talkVars, shown, cut>>
       ELSE /\ history' = Append(history, <<"agent", IF early = NotHeard THEN 0
                                                     ELSE IF early < reply THEN early ELSE reply>>)
            /\ index' = IF early = NotHeard THEN Len(history) + 1 ELSE None
            /\ said' = reply
            /\ early' = NotHeard
            /\ shown' = 0 /\ cut' = FALSE
            /\ UNCHANGED due
    /\ reply' = 0
    /\ UNCHANGED <<det, spoken, task, brain, run, tries, heardVars, sttVars, missed, closed>>

\* _release: commit the user turn, once; the reply so far is shown.
Released(r) ==
    IF r.released
    THEN /\ run' = r
         /\ shown' = reply'
         /\ UNCHANGED <<history, pending>>
    ELSE /\ run' = [r EXCEPT !.released = TRUE]
         /\ history' = Append(history, <<"user", r.text>>)
         /\ pending' = <<>>
         /\ shown' = reply'

\* Mutant: the reply of the turn before can still be cut by interrupt().
EndOfTurnKeepsIndex ==
    /\ Signal("end") /\ Handled
    /\ IF Discardable
       THEN /\ UNCHANGED <<task, reply>>
            /\ IF run.token
               THEN Released([run EXCEPT !.confirmed = TRUE])
               ELSE /\ run' = [run EXCEPT !.confirmed = TRUE]
                    /\ UNCHANGED <<history, pending, shown>>
       ELSE /\ run' = NewRun(TRUE) /\ task' = "created"
            /\ UNCHANGED <<history, pending, shown, reply>>
    /\ UNCHANGED <<det, spoken, brain, tries, index, said, early, due, finals, partial, final,
                   stale, orphan, sttVars, missed, cut, closed>>

\* _on_end_of_turn: the held reply is confirmed, or a reply starts now.
EndOfTurn ==
    /\ Signal("end") /\ Handled
    /\ index' = None
    /\ IF Discardable
       THEN /\ UNCHANGED <<task, reply>>
            /\ IF run.token
               THEN Released([run EXCEPT !.confirmed = TRUE])
               ELSE /\ run' = [run EXCEPT !.confirmed = TRUE]
                    /\ UNCHANGED <<history, pending, shown>>
       ELSE /\ run' = NewRun(TRUE) /\ task' = "created"
            /\ UNCHANGED <<history, pending, shown, reply>>
    /\ UNCHANGED <<det, spoken, brain, tries, said, early, due, finals, partial, final,
                   stale, orphan, sttVars, missed, cut, closed>>

-----------------------------------------------------------------------------
(* _finish_turn and _reply: the reply task *)

\* The recogniser was asked for a final that it has not given yet.
Finalising == Len(stt) > 1

\* Ask the recogniser to finalise what it has heard.
BeginReply ==
    /\ Quiet /\ task = "created"
    /\ task' = "finalizing"
    /\ run' = [run EXCEPT !.awaiting = TRUE]
    /\ final' = FALSE
    /\ stt' = IF open THEN Append(stt, <<>>) ELSE stt
    /\ UNCHANGED <<audioVars, pc, brain, reply, tries, talkVars, pending, finals, partial, stale,
                   orphan, open, failures, missed, streamVars>>

\* Mutant: the finals a reply took are not cleared.
CollectTextKeepsFinals ==
    /\ Quiet /\ task = "finalizing"
    /\ final \/ SlowFinals \/ ~Finalising
    /\ stale' = stale + (IF final THEN 0 ELSE 1)
    /\ missed' = (missed \/ ~final \/ partial # <<>>)
    /\ pending' = pending \o FlattenSeq(finals) \o partial
    /\ partial' = <<>>
    /\ run' = [run EXCEPT !.awaiting = FALSE, !.text = pending']
    /\ task' = IF pending' = <<>> THEN "done" ELSE "replying"
    /\ brain' = (pending' # <<>>)
    /\ UNCHANGED <<audioVars, pc, reply, tries, talkVars, finals, final, orphan, sttVars, streamVars>>

\* The final came, or its timeout passed: take the text there is, and think.
CollectText ==
    /\ Quiet /\ task = "finalizing"
    /\ final \/ SlowFinals \/ ~Finalising
    /\ stale' = stale + (IF final THEN 0 ELSE 1)
    /\ missed' = (missed \/ ~final \/ partial # <<>>)
    /\ pending' = pending \o FlattenSeq(finals) \o partial
    /\ finals' = <<>> /\ partial' = <<>>
    /\ run' = [run EXCEPT !.awaiting = FALSE, !.text = pending']
    /\ task' = IF pending' = <<>> THEN "done" ELSE "replying"
    /\ brain' = (pending' # <<>>)
    /\ UNCHANGED <<audioVars, pc, reply, tries, talkVars, final, orphan, sttVars, streamVars>>

\* Mutant: the first text releases the reply, confirmed or not.
DeltaUnheld ==
    /\ Quiet /\ brain /\ reply < MaxText
    /\ task \in {"replying", "failed"} \/ (task = "cancelling" /\ ~run.token)
    /\ reply' = reply + 1
    /\ Released([run EXCEPT !.token = TRUE])
    /\ UNCHANGED <<audioVars, pc, task, brain, tries, index, said, early, due, finals, partial,
                   final, stale, orphan, sttVars, missed, cut, closed>>

\* on_delta. A cancelled call may still deliver its first text: only the wait
\* for that text is cancelled at once.
Delta ==
    /\ Quiet /\ brain /\ reply < MaxText
    /\ task \in {"replying", "failed"} \/ (task = "cancelling" /\ ~run.token)
    /\ reply' = reply + 1
    /\ IF run.confirmed
       THEN Released([run EXCEPT !.token = TRUE])
       ELSE /\ run' = [run EXCEPT !.token = TRUE]
            /\ UNCHANGED <<history, pending, shown>>
    /\ UNCHANGED <<audioVars, pc, task, brain, tries, index, said, early, due, finals, partial,
                   final, stale, orphan, sttVars, missed, cut, closed>>

\* _finish_reply, after _release: the reply joins the history, and the turn ends.
Finish ==
    LET committed == IF run.released THEN history ELSE Append(history, <<"user", run.text>>)
    IN  /\ history' = IF reply = 0 THEN committed ELSE Append(committed, <<"agent", reply>>)
        /\ index' = IF reply = 0 THEN index ELSE Len(committed) + 1
        /\ said' = IF reply = 0 THEN said ELSE reply
        /\ pending' = IF run.released THEN pending ELSE <<>>
        /\ run' = [run EXCEPT !.released = TRUE]
        /\ reply' = 0 /\ shown' = 0 /\ cut' = FALSE
        /\ task' = "done" /\ brain' = FALSE

\* The model's answer is complete, or it failed (brain), or no text came in
\* time (the call itself goes on until the turn is over).
BrainEnds ==
    /\ Quiet /\ task = "replying"
    /\ IF run.confirmed
       THEN Finish
       ELSE /\ \/ task' = "held" /\ brain' = FALSE
               \/ task' = "failed" /\ brain' \in {FALSE, ~run.token}
            /\ UNCHANGED <<history, index, said, pending, run, reply, shown, cut>>
    /\ UNCHANGED <<audioVars, pc, tries, early, due, finals, partial, final, stale, orphan,
                   sttVars, missed, closed>>

\* A held reply learns that its turn was confirmed.
FinishHeld ==
    /\ Quiet /\ task \in {"held", "failed"} /\ run.confirmed
    /\ Finish
    /\ UNCHANGED <<audioVars, pc, tries, early, due, finals, partial, final, stale, orphan,
                   sttVars, missed, closed>>

\* A cancelled reply task has unwound.
Unwind ==
    /\ Quiet /\ task = "cancelling"
    /\ task' = "done" /\ brain' = FALSE
    /\ UNCHANGED <<audioVars, pc, run, reply, tries, talkVars, heardVars, sttVars, missed, streamVars>>

-----------------------------------------------------------------------------
(* _pump_stt, and the recognition stream behind it *)

Recognising == Quiet /\ open /\ failures < MaxFailures

\* What the recogniser has heard of the utterance it is working on.
Utterance == Head(stt)

Final ==
    /\ Recognising /\ Finalising
    /\ stt' = Tail(stt)
    /\ failures' = 0
    /\ partial' = <<>>
    /\ IF stale > 0
       THEN stale' = stale - 1 /\ UNCHANGED <<finals, orphan, final>>
       ELSE /\ finals' = IF Utterance = <<>> THEN finals ELSE Append(finals, Utterance)
            /\ IF orphan > 0 THEN orphan' = orphan - 1 /\ UNCHANGED final
                             ELSE final' = TRUE /\ UNCHANGED orphan
            /\ UNCHANGED stale
    /\ UNCHANGED <<audioVars, turnVars, talkVars, pending, open, missed, streamVars>>

Partial ==
    /\ Recognising /\ Utterance # <<>>
    /\ partial' = Utterance
    /\ UNCHANGED <<audioVars, turnVars, talkVars, pending, finals, final, stale, orphan, sttVars,
                   missed, streamVars>>

\* The recognition stream breaks; audio that follows opens another one, and
\* after MaxFailures in a row the pump ends and no result arrives any more.
StreamFails ==
    /\ Recognising
    /\ open' = FALSE /\ stt' = NewStream /\ failures' = failures + 1
    /\ missed' = TRUE
    /\ UNCHANGED <<audioVars, turnVars, talkVars, heardVars, streamVars>>

-----------------------------------------------------------------------------
(* The runtime: interrupt() and close() *)

\* interrupt(): how much of the last reply the caller heard before speaking.
Interrupt ==
    /\ Quiet /\ due > 0
    /\ due' = due - 1
    /\ \E heard \in 0..MaxText :
          IF index = None
          THEN /\ early' = IF pc = "barge" THEN heard ELSE early
               /\ UNCHANGED <<history, index>>
          ELSE /\ heard <= said
               /\ history' = [history EXCEPT ![index] = <<"agent", heard>>]
               /\ index' = None
               /\ UNCHANGED early
    /\ UNCHANGED <<audioVars, turnVars, said, heardVars, sttVars, missed, streamVars>>

\* close(): every task is cancelled, SessionClosed is the last event.
CloseBridge ==
    /\ Quiet
    /\ closed' = TRUE
    /\ UNCHANGED <<audioVars, turnVars, talkVars, heardVars, sttVars, missed, shown, cut>>

Next ==
    \/ SpeechFrame \/ SilentFrame \/ Asked
    \/ PauseStart \/ ResumeSpeech \/ Discard \/ Discarded
    \/ SpeechStart \/ BargedIn \/ EndOfTurn
    \/ BeginReply \/ CollectText \/ Delta \/ BrainEnds \/ FinishHeld \/ Unwind
    \/ Final \/ Partial \/ StreamFails
    \/ Interrupt \/ CloseBridge

\* A cancelled task unwinds, and the handler that waits for it then goes on.
Fairness == WF_vars(Unwind) /\ WF_vars(Discarded) /\ WF_vars(BargedIn)

Spec == Init /\ [][Next]_vars /\ Fairness

-----------------------------------------------------------------------------
(* Correctness *)

\* While a turn's end is only tentative nothing of its reply can be seen: no
\* text is shown, its user turn is not in the history, and its words stay
\* pending for what the caller says next (the speculative run of
\* _on_pause_start, however it ends).
HeldReplyUnseen ==
    ~run.confirmed =>
        /\ shown = 0 /\ ~run.released
        /\ task \in {"replying", "held", "failed"} => run.text = pending

\* interrupt() can only shorten the reply the caller spoke over: the entry it
\* would rewrite is an agent turn, the last of the history, and the client was
\* told that reply has ended (_apply_heard after a late interrupt).
InterruptHitsLastReply ==
    index # None =>
        /\ index = Len(history)
        /\ history[index][1] = "agent"
        /\ shown = 0

\* As long as turns are answered from finals (none timed out, no partial text
\* stood in) and the stream stays up, every phrase the caller speaks reaches
\* the dialogue once and in order, whatever was discarded, held, interrupted
\* or failed on the way (_finish_turn, _pump_stt, _commit_user).
HeardOnceInOrder ==
    ~missed =>
        UserWords \o pending \o FlattenSeq(finals) \o FlattenSeq(stt) = [i \in 1..spoken |-> i]

\* The events follow the contract of every bridge: a reply's text only grows,
\* replies do not overlap, nothing follows SessionClosed, and a reply cut off
\* by the caller is ended, so the agent is not muted for the rest of the call.
Contract == INSTANCE VoiceStream
FollowsContract == Contract!StreamSpec

================================================================================
