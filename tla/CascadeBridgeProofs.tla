--------------------------- MODULE CascadeBridgeProofs --------------------------
(***************************************************************************)
(* Proofs about CascadeBridge for calls of any length, any number of       *)
(* speculations and any timing of the detector.                            *)
(***************************************************************************)
EXTENDS CascadeBridge, SequenceTheorems, WellFoundedInduction, TLAPS

\* The history is a sequence. What its turns are is left open: a turn's words
\* are whatever the recogniser sent.
IsSequence(s) == \E S : s \in Seq(S)

\* The entry interrupt() would rewrite. While a confirmed turn is being answered
\* there is none, so the answer may be shown and committed behind the last reply;
\* a reply that is held or discarded is not shown and not committed.
IndexInv ==
    index # None =>
        /\ index = Len(history)
        /\ history[index][1] = "agent"
        /\ shown = 0
        /\ run.confirmed => ~Running

\* A run can be told to be confirmed or not, whatever else was written to it.
IsRun(r) == "confirmed" \in DOMAIN r

Inv == IsSequence(history) /\ IsRun(run) /\ IndexInv

LEMMA AppendIsSequence ==
    ASSUME NEW s, NEW e, IsSequence(s)
    PROVE  /\ IsSequence(Append(s, e)) /\ Len(s) \in Nat
           /\ Len(Append(s, e)) = Len(s) + 1
           /\ Append(s, e)[Len(s) + 1] = e
<1>1. PICK S : s \in Seq(S)
  BY DEF IsSequence
<1>2. s \in Seq(S \cup {e}) /\ e \in S \cup {e}
  BY <1>1
<1>3. Append(s, e) \in Seq(S \cup {e})
  BY <1>2
<1> QED BY <1>2, <1>3 DEF IsSequence

\* Rewriting what was heard of a reply leaves a sequence as long as before.
LEMMA ExceptIsSequence ==
    ASSUME NEW s, NEW i, NEW e, IsSequence(s)
    PROVE  IsSequence([s EXCEPT ![i] = e])
<1>1. PICK S : s \in Seq(S)
  BY DEF IsSequence
<1>2. s \in Seq(S \cup {e}) /\ e \in S \cup {e}
  BY <1>1
<1>3. Len(s) \in Nat /\ s \in [1..Len(s) -> S \cup {e}]
  BY <1>2
<1>4. [s EXCEPT ![i] = e] \in [1..Len(s) -> S \cup {e}]
  BY <1>2, <1>3
<1>5. [s EXCEPT ![i] = e] \in Seq(S \cup {e})
  BY <1>3, <1>4
<1> QED BY <1>5 DEF IsSequence

LEMMA InitInv == Init => Inv
<1> SUFFICES ASSUME Init PROVE Inv
  OBVIOUS
<1>1. history \in Seq({})
  BY DEF Init
<1> QED BY <1>1 DEF Init, Inv, IsSequence, IsRun, IndexInv, NoRun, NewRun, None

\* A turn's words are committed and its reply shown only when no entry can be
\* rewritten any more.
LEMMA ReleasedKeepsInv ==
    ASSUME Inv, NEW r, IsRun(r), Released(r), index' = None
    PROVE  Inv'
<1>1. IndexInv'
  BY DEF IndexInv
<1>2. IsRun(run')
  BY DEF Released, IsRun
<1>3. history' = history \/ history' = Append(history, <<"user", r.text>>)
  BY DEF Released
<1>4. IsSequence(history')
  BY <1>3, AppendIsSequence DEF Inv
<1> QED BY <1>1, <1>2, <1>4 DEF Inv

\* The end of a reply: its own entry, the last one, is what may be rewritten.
LEMMA FinishKeepsInv ==
    ASSUME Inv, run.confirmed, Running, Finish
    PROVE  Inv'
<1>1. index = None
  BY DEF Inv, IndexInv
<1> DEFINE committed == IF run.released THEN history ELSE Append(history, <<"user", run.text>>)
<1>2. IsSequence(committed) /\ Len(committed) \in Nat
  BY AppendIsSequence DEF Inv
<1> HIDE DEF committed
<1>3. /\ history' = IF reply = 0 THEN committed ELSE Append(committed, <<"agent", reply>>)
      /\ index' = IF reply = 0 THEN index ELSE Len(committed) + 1
      /\ shown' = 0 /\ task' = "done" /\ IsRun(run')
  BY DEF Finish, committed, Inv, IsRun
<1>4. CASE reply = 0
  BY <1>1, <1>2, <1>3, <1>4 DEF Inv, IndexInv
<1>5. CASE reply # 0
  BY <1>2, <1>3, <1>5, AppendIsSequence DEF Inv, IndexInv, Running
<1> QED BY <1>4, <1>5

LEMMA NextInv == Inv /\ [Next]_vars => Inv'
<1> SUFFICES ASSUME Inv, [Next]_vars PROVE Inv'
  OBVIOUS
<1> USE DEF turnVars, talkVars, heardVars, sttVars, streamVars, audioVars
\* What leaves history, index and the shown text alone, and starts no confirmed turn.
<1>1. ASSUME UNCHANGED <<history, index, shown>>, IsRun(run'),
             index # None /\ run'.confirmed => run.confirmed /\ (Running' => Running)
      PROVE  Inv'
  BY <1>1 DEF Inv, IndexInv
<1>2. CASE SpeechFrame \/ SilentFrame \/ Asked
  BY <1>1, <1>2 DEF SpeechFrame, SilentFrame, Asked, Running, Inv
<1>3. CASE PauseStart
  <2>1. CASE UNCHANGED <<run, task>>
    BY <1>1, <1>3, <2>1 DEF PauseStart, Running, Inv
  <2>2. CASE run' = NewRun(FALSE)
    BY <1>1, <1>3, <2>2 DEF PauseStart, NewRun, IsRun
  <2> QED BY <1>3, <2>1, <2>2 DEF PauseStart
<1>4. CASE ResumeSpeech \/ Discard \/ Discarded
  BY <1>1, <1>4 DEF ResumeSpeech, Discard, Discarded, Handled, Cancelled, Running, Discardable, Inv, IsRun
<1>5. CASE SpeechStart
  BY <1>1, <1>5 DEF SpeechStart, Handled, Running, Inv
<1>6. CASE BargedIn
  <2>1. CASE reply = 0
    BY <1>1, <1>6, <2>1 DEF BargedIn, Running, Inv
  <2>2. CASE reply # 0
    <3>1. Len(history) \in Nat
      BY AppendIsSequence DEF Inv
    <3>2. PICK heard : history' = Append(history, <<"agent", heard>>)
      BY <1>6, <2>2 DEF BargedIn
    <3>3. IsSequence(history') /\ Len(history') = Len(history) + 1
          /\ history'[Len(history) + 1] = <<"agent", heard>>
      BY <3>2, AppendIsSequence DEF Inv
    <3>4. index' \in {None, Len(history) + 1} /\ shown' = 0 /\ ~Running' /\ UNCHANGED run
      BY <1>6, <2>2 DEF BargedIn, Running
    <3> QED BY <3>1, <3>3, <3>4 DEF Inv, IndexInv
  <2> QED BY <2>1, <2>2
<1>7. CASE EndOfTurn
  <2>1. CASE UNCHANGED history
    <3> DEFINE r == [run EXCEPT !.confirmed = TRUE]
    <3>a. IsRun(r) /\ IsRun([r EXCEPT !.released = TRUE]) /\ IsRun(NewRun(TRUE))
      BY DEF Inv, IsRun, NewRun
    <3>b. run' \in {r, [r EXCEPT !.released = TRUE], NewRun(TRUE)}
      BY <1>7 DEF EndOfTurn, Released
    <3> HIDE DEF r
    <3>1. IsRun(run')
      BY <3>a, <3>b
    <3>2. IndexInv'
      BY <1>7 DEF EndOfTurn, IndexInv
    <3> QED BY <2>1, <3>1, <3>2 DEF Inv
  <2>2. CASE Released([run EXCEPT !.confirmed = TRUE])
    BY <1>7, <2>2, ReleasedKeepsInv DEF EndOfTurn, Inv, IsRun
  <2> QED BY <1>7, <2>1, <2>2 DEF EndOfTurn
<1>8. CASE BeginReply \/ CollectText
  BY <1>1, <1>8 DEF BeginReply, CollectText, Running, Inv, IsRun
<1>9. CASE Delta
  <2>1. CASE run.confirmed
    BY <1>9, <2>1, ReleasedKeepsInv DEF Delta, Inv, IsRun, IndexInv, Running
  <2>2. CASE ~run.confirmed
    BY <1>1, <1>9, <2>2 DEF Delta, Running, Inv, IsRun
  <2> QED BY <2>1, <2>2
<1>10. CASE BrainEnds
  <2>1. CASE run.confirmed
    BY <1>10, <2>1, FinishKeepsInv DEF BrainEnds, Running
  <2>2. CASE ~run.confirmed
    BY <1>1, <1>10, <2>2 DEF BrainEnds, Inv
  <2> QED BY <2>1, <2>2
<1>11. CASE FinishHeld
  BY <1>11, FinishKeepsInv DEF FinishHeld, Running
<1>12. CASE Unwind
  BY <1>1, <1>12 DEF Unwind, Running, Inv
<1>13. CASE Final \/ Partial \/ StreamFails
  BY <1>1, <1>13 DEF Final, Partial, StreamFails, Running, Inv
<1>14. CASE Interrupt
  <2>1. CASE index = None
    BY <1>14, <2>1 DEF Interrupt, Inv, IsRun, IndexInv
  <2>2. CASE index # None
    <3>1. PICK heard : history' = [history EXCEPT ![index] = <<"agent", heard>>]
      BY <1>14, <2>2 DEF Interrupt
    <3>2. IsSequence(history')
      BY <3>1, ExceptIsSequence DEF Inv
    <3>3. index' = None /\ UNCHANGED run
      BY <1>14, <2>2 DEF Interrupt
    <3> QED BY <3>2, <3>3 DEF Inv, IndexInv
  <2> QED BY <2>1, <2>2
<1>15. CASE CloseBridge
  BY <1>1, <1>15 DEF CloseBridge, Running, Inv
<1>16. CASE UNCHANGED vars
  BY <1>1, <1>16 DEF vars, Running, Inv
<1> QED
  BY <1>2, <1>3, <1>4, <1>5, <1>6, <1>7, <1>8, <1>9, <1>10, <1>11, <1>12, <1>13, <1>14, <1>15, <1>16
  DEF Next

\* interrupt() rewrites the last turn of the history, an agent's, of a reply the
\* client was told has ended, however long the call.  (_apply_heard)
THEOREM OnlyLastReplyRewritten == Spec => []InterruptHitsLastReply
<1>1. Inv => InterruptHitsLastReply
  BY DEF Inv, IndexInv, InterruptHitsLastReply
<1> QED BY <1>1, InitInv, NextInv, PTL DEF Spec

-----------------------------------------------------------------------------
(* Held replies, and the contract of the event stream *)

\* The order in which a detector raises its signals.
MayFollow(s, t) ==
    \/ s \in {"speech", "resume"} /\ t \in {"pause", "end"}
    \/ s = "pause" /\ t \in {"resume", "end"}
    \/ s = "end" /\ t = "speech"

\* A detector asks only inside a turn, and only a turn has pauses.
DetectorInv ==
    /\ det = [inTurn |-> det.inTurn, onset |-> det.onset, silence |-> det.silence,
              nextAsk |-> det.nextAsk, asking |-> det.asking, paused |-> det.paused]
    /\ det.inTurn \in BOOLEAN /\ det.paused \in BOOLEAN
    /\ det.paused \/ det.asking => det.inTurn

\* The signals not handled yet lead up to where the detector stands.
SignalsInv ==
    /\ signals \in Seq(Signals)
    /\ \A i \in 1..(Len(signals) - 1) : MayFollow(signals[i], signals[i + 1])
    /\ signals # <<>> =>
         /\ det.inTurn = (signals[Len(signals)] # "end")
         /\ det.paused = (signals[Len(signals)] = "pause")

\* Where the bridge stands: in a turn of the caller, and not in a pause of it.
InTurn == IF signals = <<>> THEN det.inTurn ELSE signals[1] # "speech"
Talking == IF signals = <<>> THEN det.inTurn /\ ~det.paused ELSE signals[1] = "pause"

FullRun(r) ==
    /\ r = [live |-> r.live, confirmed |-> r.confirmed, released |-> r.released,
            awaiting |-> r.awaiting, token |-> r.token, text |-> r.text]
    /\ r.live \in BOOLEAN /\ r.confirmed \in BOOLEAN /\ r.released \in BOOLEAN

\* A handler that waits for the reply task: which signal it handles, and why.
WaitInv ==
    /\ pc = "discard" => signals # <<>> /\ signals[1] = "resume" /\ ~run.confirmed /\ ~run.live
    /\ pc = "barge" => signals # <<>> /\ signals[1] = "speech" /\ ~Discardable
    /\ pc \in {"discard", "barge"} => task \in {"none", "done", "cancelling"}
    /\ task = "cancelling" => pc \in {"discard", "barge"}

\* While the caller has the turn only a speculative reply is under way; a reply
\* has text only while its task is at work, and shows no more than it has.
ReplyInv ==
    /\ task \in Places /\ reply \in Nat /\ shown \in Nat /\ shown <= reply
    /\ task \in {"created", "finalizing"} => reply = 0
    /\ pc \notin {"discard", "barge"} =>
         /\ ~Running => reply = 0
         /\ InTurn /\ ~Discardable => ~Running
         /\ Talking => ~Discardable

StreamInv ==
    /\ FullRun(run) /\ DetectorInv /\ SignalsInv /\ WaitInv /\ ReplyInv
    /\ HeldReplyUnseen

LEMMA InitStreamInv == Init => StreamInv
<1> SUFFICES ASSUME Init PROVE StreamInv
  OBVIOUS
<1>1. signals = <<>> /\ signals \in Seq(Signals) /\ Len(signals) = 0
  BY DEF Init
<1>2. FullRun(run) /\ ~run.live /\ ~run.confirmed /\ ~run.released
  BY DEF Init, FullRun, NoRun, NewRun
<1>3. DetectorInv /\ ~det.inTurn
  BY DEF Init, DetectorInv, NewDetector
<1>4. SignalsInv
  BY <1>1, <1>3 DEF SignalsInv, DetectorInv
<1>5. WaitInv /\ ReplyInv /\ HeldReplyUnseen
  BY <1>1, <1>2, <1>3 DEF Init, WaitInv, ReplyInv, HeldReplyUnseen, Places, Running, InTurn, Talking
<1> QED BY <1>2, <1>3, <1>4, <1>5 DEF StreamInv

\* What a frame or a settled ask may do: raise nothing, or the one signal that
\* fits where the detector stands.
Fits(s) ==
    \/ s = "speech" /\ ~det.inTurn /\ det'.inTurn /\ ~det'.paused
    \/ s = "pause" /\ det.inTurn /\ ~det.paused /\ det'.inTurn /\ det'.paused
    \/ s = "resume" /\ det.paused /\ det'.inTurn /\ ~det'.paused
    \/ s = "end" /\ det.inTurn /\ ~det'.inTurn /\ ~det'.paused

LEMMA DetectorSteps ==
    ASSUME DetectorInv, NEW outcome, det' = outcome.det,
           \/ outcome = OnSpeech(det) /\ ~det.asking
           \/ outcome = OnSilence(det) /\ ~det.asking
           \/ det.asking /\ \E done \in BOOLEAN : outcome = SettleAsk(det, done)
    PROVE  /\ DetectorInv'
           /\ \/ outcome.signals = <<>> /\ det'.inTurn = det.inTurn /\ det'.paused = det.paused
              \/ \E s \in Signals : outcome.signals = <<s>> /\ Fits(s)
<1> USE DEF Signals, Fits
<1>1. CASE outcome = OnSpeech(det) /\ ~det.asking
  BY <1>1 DEF DetectorInv, OnSpeech, Outcome, ResetPause
<1>2. CASE outcome = OnSilence(det) /\ ~det.asking
  <2> DEFINE e == [det EXCEPT !.silence = det.silence + 1]
  <2>1. e.inTurn = det.inTurn /\ e.paused = det.paused /\ e.asking = det.asking
        /\ e = [inTurn |-> e.inTurn, onset |-> e.onset, silence |-> e.silence,
                nextAsk |-> e.nextAsk, asking |-> e.asking, paused |-> e.paused]
    BY DEF DetectorInv
  <2>2. \/ ~det.inTurn /\ outcome = Outcome([det EXCEPT !.onset = 0], <<>>)
        \/ det.inTurn /\ outcome \in {Ended(e), StartAsk(e), Outcome(e, <<>>)}
    BY <1>2 DEF OnSilence
  <2> HIDE DEF e
  <2>3. CASE outcome = Outcome([det EXCEPT !.onset = 0], <<>>)
    BY <2>3 DEF DetectorInv, Outcome
  <2>4. CASE det.inTurn /\ outcome = Ended(e)
    BY <2>1, <2>4 DEF DetectorInv, Outcome, Ended, ResetPause
  <2>5. CASE det.inTurn /\ outcome = StartAsk(e)
    BY <2>1, <2>5 DEF DetectorInv, Outcome, StartAsk
  <2>6. CASE outcome = Outcome(e, <<>>)
    BY <2>1, <2>6 DEF DetectorInv, Outcome
  <2> QED BY <2>2, <2>3, <2>4, <2>5, <2>6
<1>3. CASE det.asking /\ \E done \in BOOLEAN : outcome = SettleAsk(det, done)
  <2>1. outcome \in {Ended(det), Outcome([det EXCEPT !.asking = FALSE], <<>>)}
    BY <1>3 DEF SettleAsk
  <2>2. CASE outcome = Ended(det)
    BY <1>3, <2>2 DEF DetectorInv, Outcome, ResetPause, Ended
  <2>3. CASE outcome = Outcome([det EXCEPT !.asking = FALSE], <<>>)
    BY <2>3 DEF DetectorInv, Outcome
  <2> QED BY <2>1, <2>2, <2>3
<1> QED BY <1>1, <1>2, <1>3

\* Signals raised later do not change what the bridge has to handle next.
LEMMA HeardSignals ==
    ASSUME SignalsInv, DetectorInv, DetectorInv', NEW s \in Signals, Fits(s), signals' = signals \o <<s>>
    PROVE  /\ SignalsInv' /\ (InTurn' <=> InTurn) /\ (Talking' => Talking)
           /\ signals # <<>> => signals' # <<>> /\ signals'[1] = signals[1]
<1>1. /\ signals' \in Seq(Signals) /\ Len(signals') = Len(signals) + 1 /\ Len(signals) \in Nat
      /\ signals'[Len(signals) + 1] = s
      /\ \A i \in 1..Len(signals) : signals'[i] = signals[i]
      /\ (signals = <<>>) = (Len(signals) = 0) /\ signals' # <<>>
  BY DEF SignalsInv
<1>2. ASSUME NEW i \in 1..(Len(signals') - 1) PROVE MayFollow(signals'[i], signals'[i + 1])
  <2>1. CASE i = Len(signals)
    BY <1>1, <1>2, <2>1 DEF SignalsInv, DetectorInv, MayFollow, Fits, Signals
  <2>2. CASE i < Len(signals)
    BY <1>1, <1>2, <2>2 DEF SignalsInv
  <2> QED BY <1>1, <1>2, <2>1, <2>2
<1>3. SignalsInv'
  <2>1. det'.inTurn = (s # "end") /\ det'.paused = (s = "pause")
    BY DEF Fits, Signals, DetectorInv
  <2> QED BY <1>1, <1>2, <2>1 DEF SignalsInv
<1>4. (InTurn' <=> InTurn) /\ (Talking' => Talking)
  BY <1>1 DEF InTurn, Talking, Fits, DetectorInv
<1> QED BY <1>1, <1>3, <1>4

\* Handling a signal moves the bridge on to the next one, or to the detector's state.
LEMMA HandledSignals ==
    ASSUME SignalsInv, DetectorInv, signals # <<>>, signals' = Tail(signals), UNCHANGED det
    PROVE  /\ SignalsInv'
           /\ InTurn' <=> (signals[1] # "end")
           /\ Talking' => signals[1] \in {"speech", "resume"}
<1>1. /\ signals' \in Seq(Signals) /\ Len(signals') = Len(signals) - 1 /\ Len(signals) \in Nat \ {0}
      /\ \A i \in 1..Len(signals') : signals'[i] = signals[i + 1]
      /\ \A i \in 1..Len(signals) : signals[i] \in Signals
  BY DEF SignalsInv
<1>5. signals' = <<>> <=> Len(signals') = 0
  BY <1>1, EmptySeq
<1>2. SignalsInv'
  BY <1>1 DEF SignalsInv
<1>3. CASE Len(signals) = 1
  BY <1>1, <1>3, <1>5 DEF InTurn, Talking, SignalsInv, DetectorInv, Signals
<1>4. CASE Len(signals) > 1
  <2>1. signals'[1] = signals[2] /\ MayFollow(signals[1], signals[2])
    BY <1>1, <1>4 DEF SignalsInv
  <2>2. signals' # <<>>
    BY <1>1, <1>4, <1>5
  <2>3. (signals[2] # "speech") = (signals[1] # "end")
        /\ (signals[2] = "pause" => signals[1] \in {"speech", "resume"})
    BY <2>1 DEF MayFollow
  <2> QED BY <1>2, <2>1, <2>2, <2>3 DEF InTurn, Talking
<1> QED BY <1>1, <1>2, <1>3, <1>4

\* A frame or a settled ask only adds to the signals: no handler waits meanwhile.
LEMMA HearingKeepsStreamInv ==
    ASSUME StreamInv, SpeechFrame \/ SilentFrame \/ Asked
    PROVE  StreamInv'
<1> USE DEF turnVars, talkVars, heardVars, sttVars, streamVars
<1>1. PICK outcome :
        /\ Hear(outcome)
        /\ \/ outcome = OnSpeech(det) /\ ~det.asking
           \/ outcome = OnSilence(det) /\ ~det.asking
           \/ det.asking /\ \E done \in BOOLEAN : outcome = SettleAsk(det, done)
  BY DEF SpeechFrame, SilentFrame, Asked, MayPush
<1>2. /\ pc = "idle"
      /\ UNCHANGED <<pc, task, run, reply, shown, pending>>
  BY DEF SpeechFrame, SilentFrame, Asked, MayPush
<1>3. det' = outcome.det /\ signals' = signals \o outcome.signals
  BY <1>1 DEF Hear
<1>4. /\ DetectorInv'
      /\ \/ outcome.signals = <<>> /\ det'.inTurn = det.inTurn /\ det'.paused = det.paused
         \/ \E s \in Signals : outcome.signals = <<s>> /\ Fits(s)
  BY <1>1, <1>3, DetectorSteps DEF StreamInv
<1>5. SignalsInv' /\ (InTurn' <=> InTurn) /\ (Talking' => Talking)
  <2>1. CASE outcome.signals = <<>> /\ det'.inTurn = det.inTurn /\ det'.paused = det.paused
    <3>1. signals' = signals
      BY <1>3, <2>1 DEF StreamInv, SignalsInv
    <3> QED BY <2>1, <3>1 DEF StreamInv, SignalsInv, InTurn, Talking
  <2>2. ASSUME NEW s \in Signals, outcome.signals = <<s>>, Fits(s)
        PROVE  SignalsInv' /\ (InTurn' <=> InTurn) /\ (Talking' => Talking)
    BY <1>3, <1>4, <2>2, HeardSignals DEF StreamInv
  <2> QED BY <1>4, <2>1, <2>2
<1>6. WaitInv' /\ ReplyInv' /\ HeldReplyUnseen' /\ FullRun(run')
  BY <1>2, <1>5 DEF StreamInv, WaitInv, ReplyInv, HeldReplyUnseen, Places, Running, Discardable
<1> QED BY <1>4, <1>5, <1>6 DEF StreamInv

\* Between two signals no handler waits, so what the reply task may be doing is known.
LEMMA SignalHandled ==
    ASSUME StreamInv, NEW s, Signal(s), signals' = Tail(signals), UNCHANGED det
    PROVE  /\ signals # <<>> /\ signals[1] = s /\ pc \notin {"discard", "barge"} /\ ~closed
           /\ DetectorInv' /\ SignalsInv'
           /\ (InTurn' <=> s # "end") /\ (Talking' => s \in {"speech", "resume"})
<1>1. signals # <<>> /\ signals[1] = s /\ pc \notin {"discard", "barge"} /\ ~closed
  BY DEF Signal
<1>2. SignalsInv' /\ (InTurn' <=> s # "end") /\ (Talking' => s \in {"speech", "resume"})
  BY <1>1, HandledSignals DEF StreamInv
<1>3. DetectorInv'
  BY DEF StreamInv, DetectorInv
<1> QED BY <1>1, <1>2, <1>3

LEMMA PauseStartKeepsStreamInv ==
    ASSUME StreamInv, PauseStart
    PROVE  StreamInv'
<1> USE DEF talkVars, heardVars, streamVars
<1>1. /\ Signal("pause") /\ signals' = Tail(signals) /\ pc' \in {"idle", "apply"}
      /\ UNCHANGED <<det, reply, shown, pending>>
      /\ \/ UNCHANGED <<run, task>>
         \/ run' = NewRun(FALSE) /\ task' = "created"
  BY DEF PauseStart, Handled
<1>2. /\ signals # <<>> /\ signals[1] = "pause" /\ pc \notin {"discard", "barge"}
      /\ DetectorInv' /\ SignalsInv' /\ InTurn' /\ ~Talking'
  BY <1>1, SignalHandled
<1>3. ~Discardable /\ ~Running /\ reply = 0 /\ shown = 0
  BY <1>2 DEF StreamInv, ReplyInv, Talking, InTurn
<1>4. CASE UNCHANGED <<run, task>>
  BY <1>1, <1>2, <1>3, <1>4 DEF StreamInv, WaitInv, ReplyInv, HeldReplyUnseen, Places, Running, Discardable
<1>5. CASE run' = NewRun(FALSE) /\ task' = "created"
  <2>1. FullRun(run') /\ run'.live /\ ~run'.confirmed /\ ~run'.released
    BY <1>5 DEF NewRun, FullRun
  <2> QED BY <1>1, <1>2, <1>3, <1>5, <2>1 DEF StreamInv, WaitInv, ReplyInv, HeldReplyUnseen, Places, Running,
                                             Discardable
<1> QED BY <1>1, <1>4, <1>5

LEMMA ResumeKeepsStreamInv ==
    ASSUME StreamInv, ResumeSpeech \/ Discard \/ Discarded
    PROVE  StreamInv'
<1> USE DEF audioVars, talkVars, heardVars, streamVars
<1>1. CASE ResumeSpeech
  <2>1. /\ Signal("resume") /\ signals' = Tail(signals) /\ pc' \in {"idle", "apply"} /\ ~Discardable
        /\ UNCHANGED <<det, run, task, reply, shown, pending>>
    BY <1>1 DEF ResumeSpeech, Handled
  <2>2. /\ signals # <<>> /\ signals[1] = "resume" /\ pc \notin {"discard", "barge"}
        /\ DetectorInv' /\ SignalsInv' /\ InTurn'
    BY <2>1, SignalHandled
  <2>3. ~Running /\ reply = 0
    BY <2>1, <2>2 DEF StreamInv, ReplyInv, InTurn
  <2> QED BY <2>1, <2>2, <2>3 DEF StreamInv, WaitInv, ReplyInv, HeldReplyUnseen, Places, Running, Discardable
<1>2. CASE Discard
  <2>1. /\ pc' = "discard" /\ signals # <<>> /\ signals[1] = "resume" /\ run.live /\ ~run.confirmed
        /\ run' = [run EXCEPT !.live = FALSE] /\ task' = Cancelled
        /\ UNCHANGED <<det, signals, reply, shown, pending>>
    BY <1>2 DEF Discard, Signal, Discardable
  <2>2. FullRun(run') /\ ~run'.live /\ ~run'.confirmed /\ run'.released = run.released
        /\ run'.text = run.text
    BY <2>1 DEF StreamInv, FullRun
  <2>3. DetectorInv' /\ SignalsInv'
    BY <2>1 DEF StreamInv, DetectorInv, SignalsInv
  <2>4. task' \in {"cancelling", "none", "done"}
    BY <2>1 DEF Cancelled, Running, Places, StreamInv, ReplyInv
  <2> QED BY <2>1, <2>2, <2>3, <2>4 DEF StreamInv, WaitInv, ReplyInv, HeldReplyUnseen, Places
<1>3. CASE Discarded
  <2>1. /\ pc = "discard" /\ signals' = Tail(signals) /\ pc' \in {"idle", "apply"} /\ reply' = 0
        /\ ~Running /\ UNCHANGED <<det, run, task, shown, pending>>
    BY <1>3 DEF Discarded, Handled
  <2>2. signals # <<>> /\ signals[1] = "resume" /\ ~run.confirmed /\ ~run.live /\ shown = 0
    BY <2>1 DEF StreamInv, WaitInv, HeldReplyUnseen
  <2>3. DetectorInv' /\ SignalsInv' /\ InTurn'
    BY <2>1, <2>2, HandledSignals DEF StreamInv, DetectorInv
  <2> QED BY <2>1, <2>2, <2>3 DEF StreamInv, WaitInv, ReplyInv, HeldReplyUnseen, Places, Running, Discardable
<1> QED BY <1>1, <1>2, <1>3

LEMMA SpeechKeepsStreamInv ==
    ASSUME StreamInv, SpeechStart \/ BargedIn
    PROVE  StreamInv'
<1> USE DEF talkVars, heardVars, streamVars
<1>1. CASE SpeechStart
  <2>1. /\ Signal("speech") /\ ~Discardable
        /\ UNCHANGED <<det, run, reply, shown, pending>>
    BY <1>1 DEF SpeechStart
  <2>2. CASE Running
    <3>1. pc' = "barge" /\ task' = "cancelling" /\ UNCHANGED signals
          /\ signals # <<>> /\ signals[1] = "speech"
      BY <1>1, <2>1, <2>2 DEF SpeechStart, Signal
    <3> QED BY <2>1, <3>1 DEF StreamInv, DetectorInv, SignalsInv, WaitInv, ReplyInv, HeldReplyUnseen,
                              Places, Discardable
  <2>3. CASE ~Running
    <3>1. signals' = Tail(signals) /\ pc' \in {"idle", "apply"} /\ UNCHANGED task
      BY <1>1, <2>3 DEF SpeechStart, Handled
    <3>2. pc \notin {"discard", "barge"} /\ DetectorInv' /\ SignalsInv'
      BY <2>1, <3>1, SignalHandled
    <3> QED BY <2>1, <2>3, <3>1, <3>2 DEF StreamInv, WaitInv, ReplyInv, HeldReplyUnseen, Places, Running,
                                         Discardable
  <2> QED BY <2>2, <2>3
<1>2. CASE BargedIn
  <2>1. /\ pc = "barge" /\ ~Running /\ signals' = Tail(signals) /\ pc' \in {"idle", "apply"}
        /\ reply' = 0 /\ UNCHANGED <<det, run, task, pending>>
        /\ shown' = 0
    BY <1>2 DEF BargedIn, Handled, StreamInv, ReplyInv
  <2>2. signals # <<>> /\ signals[1] = "speech" /\ ~Discardable
    BY <2>1 DEF StreamInv, WaitInv
  <2>3. DetectorInv' /\ SignalsInv'
    BY <2>1, <2>2, HandledSignals DEF StreamInv, DetectorInv
  <2> QED BY <2>1, <2>2, <2>3 DEF StreamInv, WaitInv, ReplyInv, HeldReplyUnseen, Places, Running,
                                       Discardable
<1> QED BY <1>1, <1>2

\* A reply is released only for a confirmed turn; it is then shown as far as it goes.
LEMMA ReleaseFacts ==
    ASSUME NEW r, FullRun(r), r.confirmed, Released(r)
    PROVE  FullRun(run') /\ run'.confirmed /\ run'.live = r.live /\ shown' = reply'
BY DEF FullRun, Released

LEMMA EndOfTurnKeepsStreamInv ==
    ASSUME StreamInv, EndOfTurn
    PROVE  StreamInv'
<1>1. /\ Signal("end") /\ signals' = Tail(signals) /\ pc' \in {"idle", "apply"}
      /\ UNCHANGED <<det, reply>>
  BY DEF EndOfTurn, Handled
<1>2. /\ signals # <<>> /\ signals[1] = "end" /\ pc \notin {"discard", "barge"}
      /\ DetectorInv' /\ SignalsInv' /\ ~InTurn' /\ ~Talking'
  BY <1>1, SignalHandled
<1>3. InTurn
  BY <1>2 DEF InTurn
<1>4. CASE Discardable
  <2>0. PICK r : r = [run EXCEPT !.confirmed = TRUE]
    OBVIOUS
  <2>1. FullRun(r) /\ r.confirmed
    BY <2>0 DEF StreamInv, FullRun
  <2>2. UNCHANGED task /\ (Released(r) \/ (run' = r /\ UNCHANGED shown))
    BY <1>4, <2>0 DEF EndOfTurn
  <2>3. FullRun(run') /\ run'.confirmed /\ shown' \in {shown, reply'}
    BY <2>1, <2>2, ReleaseFacts
  <2> QED BY <1>1, <1>2, <2>2, <2>3 DEF StreamInv, WaitInv, ReplyInv, HeldReplyUnseen, Running, Places
<1>5. CASE ~Discardable
  <2>1. run' = NewRun(TRUE) /\ task' = "created" /\ UNCHANGED shown
    BY <1>5 DEF EndOfTurn
  <2>2. FullRun(run') /\ run'.confirmed
    BY <2>1 DEF FullRun, NewRun
  <2>3. ~Running /\ reply = 0
    BY <1>2, <1>3, <1>5 DEF StreamInv, ReplyInv
  <2> QED BY <1>1, <1>2, <2>1, <2>2, <2>3 DEF StreamInv, WaitInv, ReplyInv, HeldReplyUnseen, Running,
                                              Places
<1> QED BY <1>4, <1>5

\* What neither the detector nor a signal handler does leaves the place in the turn.
LEMMA SamePlace ==
    ASSUME StreamInv, UNCHANGED <<det, signals, pc>>
    PROVE  DetectorInv' /\ SignalsInv' /\ (InTurn' <=> InTurn) /\ (Talking' <=> Talking)
BY DEF StreamInv, DetectorInv, SignalsInv, InTurn, Talking

LEMMA FinishKeepsStreamInv ==
    ASSUME StreamInv, Finish, run.confirmed, task \in {"replying", "held", "failed"},
           UNCHANGED <<det, signals, pc>>
    PROVE  StreamInv'
<1>1. FullRun(run') /\ run'.confirmed /\ run'.live = run.live
  BY DEF Finish, StreamInv, FullRun
<1>2. reply' = 0 /\ shown' = 0 /\ task' = "done"
  BY DEF Finish
<1> QED BY <1>1, <1>2, SamePlace DEF StreamInv, WaitInv, ReplyInv, HeldReplyUnseen, Running, Places,
                                    Discardable

LEMMA ReplyTaskKeepsStreamInv ==
    ASSUME StreamInv, BeginReply \/ CollectText \/ Delta \/ BrainEnds \/ FinishHeld \/ Unwind
    PROVE  StreamInv'
<1> USE DEF audioVars, talkVars, heardVars, sttVars, streamVars
<1>0. UNCHANGED <<det, signals, pc>>
  BY DEF BeginReply, CollectText, Delta, BrainEnds, FinishHeld, Unwind
<1>1. CASE BeginReply
  <2>1. FullRun(run') /\ run'.confirmed = run.confirmed /\ run'.live = run.live
        /\ run'.released = run.released
    BY <1>1 DEF BeginReply, StreamInv, FullRun
  <2>2. task = "created" /\ task' = "finalizing" /\ UNCHANGED <<reply, shown>>
    BY <1>1 DEF BeginReply
  <2> QED BY <1>0, <2>1, <2>2, SamePlace DEF StreamInv, WaitInv, ReplyInv, HeldReplyUnseen, Running,
                                             Places, Discardable
<1>2. CASE CollectText
  <2>1. FullRun(run') /\ run'.confirmed = run.confirmed /\ run'.live = run.live
        /\ run'.released = run.released /\ run'.text = pending'
    BY <1>2 DEF CollectText, StreamInv, FullRun
  <2>2. task = "finalizing" /\ task' \in {"done", "replying"} /\ UNCHANGED <<reply, shown>>
    BY <1>2 DEF CollectText
  <2> QED BY <1>0, <2>1, <2>2, SamePlace DEF StreamInv, WaitInv, ReplyInv, HeldReplyUnseen, Running,
                                             Places, Discardable
<1>3. CASE Delta
  <2>0. PICK r : r = [run EXCEPT !.token = TRUE]
    OBVIOUS
  <2>1. FullRun(r) /\ r.confirmed = run.confirmed /\ r.live = run.live /\ r.text = run.text
        /\ r.released = run.released
    BY <2>0 DEF StreamInv, FullRun
  <2>2. /\ task \in {"replying", "failed", "cancelling"} /\ UNCHANGED task /\ reply' = reply + 1
        /\ IF run.confirmed THEN Released(r) ELSE run' = r /\ UNCHANGED <<pending, shown>>
    BY <1>3, <2>0 DEF Delta
  <2>3. FullRun(run') /\ run'.confirmed = run.confirmed /\ run'.live = run.live
        /\ (run.confirmed => shown' = reply')
        /\ (~run.confirmed => run'.text = run.text /\ run'.released = run.released)
    BY <2>1, <2>2, ReleaseFacts
  <2> QED BY <1>0, <2>2, <2>3, SamePlace DEF StreamInv, WaitInv, ReplyInv, HeldReplyUnseen, Running,
                                             Places, Discardable
<1>4. CASE BrainEnds \/ FinishHeld
  <2>1. CASE Finish /\ run.confirmed
    BY <1>0, <1>4, <2>1, FinishKeepsStreamInv DEF BrainEnds, FinishHeld
  <2>2. CASE ~run.confirmed
    <3>1. task = "replying" /\ task' \in {"held", "failed"} /\ UNCHANGED <<run, reply, shown, pending>>
      BY <1>4, <2>2 DEF BrainEnds, FinishHeld
    <3> QED BY <1>0, <3>1, SamePlace DEF StreamInv, WaitInv, ReplyInv, HeldReplyUnseen, Running,
                                        Places, Discardable
  <2> QED BY <1>4, <2>1, <2>2 DEF BrainEnds, FinishHeld
<1>5. CASE Unwind
  <2>1. task = "cancelling" /\ task' = "done" /\ UNCHANGED <<run, reply, shown, pending>>
    BY <1>5 DEF Unwind
  <2> QED BY <1>0, <2>1, SamePlace DEF StreamInv, WaitInv, ReplyInv, HeldReplyUnseen, Running,
                                       Places, Discardable
<1> QED BY <1>1, <1>2, <1>3, <1>4, <1>5

LEMMA NextStreamInv == StreamInv /\ [Next]_vars => StreamInv'
<1> SUFFICES ASSUME StreamInv, [Next]_vars PROVE StreamInv'
  OBVIOUS
<1>1. CASE Final \/ Partial \/ StreamFails \/ Interrupt \/ CloseBridge \/ UNCHANGED vars
  <2>1. UNCHANGED <<det, signals, pc, run, task, reply, shown, pending>>
    BY <1>1 DEF Final, Partial, StreamFails, Interrupt, CloseBridge, vars, audioVars, turnVars,
                talkVars, heardVars, sttVars, streamVars
  <2> QED BY <2>1, SamePlace DEF StreamInv, WaitInv, ReplyInv, HeldReplyUnseen, Running, Discardable
<1> QED
  BY <1>1, HearingKeepsStreamInv, PauseStartKeepsStreamInv, ResumeKeepsStreamInv, SpeechKeepsStreamInv,
     EndOfTurnKeepsStreamInv, ReplyTaskKeepsStreamInv DEF Next

\* Nothing of a reply is seen before its turn is confirmed, whatever the caller does
\* meanwhile: the speculative runs of a turn stay out of the client's text and of the
\* history.  (_on_pause_start, _discard_speculation, _release)
THEOREM SpeculationStaysHidden == Spec => []HeldReplyUnseen
<1>1. StreamInv => HeldReplyUnseen
  BY DEF StreamInv
<1> QED BY <1>1, InitStreamInv, NextStreamInv, PTL DEF Spec

\* Every step of the bridge is one event of the stream it promised, or none.
LEMMA NextFollowsContract ==
    ASSUME StreamInv, [Next]_vars
    PROVE  [Contract!StreamNext]_Contract!streamVars
<1> USE DEF turnVars, talkVars, heardVars, sttVars, audioVars,
        Contract!StreamNext, Contract!streamVars
<1>1. CASE SpeechStart
  BY <1>1 DEF SpeechStart, Signal, Contract!Speech
<1>2. CASE BargedIn
  <2>1. CASE reply = 0
    BY <1>2, <2>1 DEF BargedIn
  <2>2. CASE reply # 0
    BY <1>2, <2>2 DEF BargedIn, Contract!End
  <2> QED BY <2>1, <2>2
\* The shown text becomes the text of the reply, which it never exceeds.
<1>3. ASSUME ~closed, UNCHANGED <<cut, closed>>, shown' \in Nat, shown' >= shown
      PROVE  [Contract!StreamNext]_Contract!streamVars
  BY <1>3 DEF Contract!Show, StreamInv, ReplyInv
<1>4. CASE EndOfTurn
  <2>1. ~closed /\ UNCHANGED <<cut, closed, reply>> /\ shown' \in {shown, reply'}
    BY <1>4 DEF EndOfTurn, Signal, Released
  <2> QED BY <1>3, <2>1 DEF StreamInv, ReplyInv
<1>5. CASE Delta
  <2>1. ~closed /\ UNCHANGED <<cut, closed>> /\ shown' \in {shown, reply'} /\ reply' = reply + 1
    BY <1>5 DEF Delta, Quiet, Released
  <2> QED BY <1>3, <2>1 DEF StreamInv, ReplyInv
<1>6. CASE BrainEnds \/ FinishHeld
  BY <1>6 DEF BrainEnds, FinishHeld, Finish, Quiet, Contract!End
<1>7. CASE CloseBridge
  BY <1>7 DEF CloseBridge, Quiet, Contract!Close
<1>8. CASE \/ SpeechFrame \/ SilentFrame \/ Asked \/ PauseStart \/ ResumeSpeech \/ Discard \/ Discarded
           \/ BeginReply \/ CollectText \/ Unwind \/ Final \/ Partial \/ StreamFails \/ Interrupt
           \/ UNCHANGED vars
  BY <1>8 DEF SpeechFrame, SilentFrame, Asked, PauseStart, ResumeSpeech, Discard, Discarded,
     BeginReply, CollectText, Unwind, Final, Partial, StreamFails, Interrupt, vars, streamVars
<1> QED BY <1>1, <1>2, <1>4, <1>5, <1>6, <1>7, <1>8 DEF Next

\* The bridge refines the event stream every bridge promises, its fairness aside: the
\* text of a reply only grows, replies do not overlap, nothing follows the close.
THEOREM CascadeFollowsStream ==
    Spec => Contract!StreamInit /\ [][Contract!StreamNext]_Contract!streamVars
<1>1. Init => Contract!StreamInit
  BY DEF Init, Contract!StreamInit
<1> QED BY <1>1, InitStreamInv, NextStreamInv, NextFollowsContract, PTL DEF Spec

-----------------------------------------------------------------------------
(* Flattened sequences of utterances *)

Words == Seq(Nat)

LEMMA WordsAssociative ==
    ASSUME NEW u \in Words, NEW v \in Words, NEW w \in Words
    PROVE  (u \o v) \o w = u \o (v \o w)
<1>1. u \in Seq(Nat) /\ v \in Seq(Nat) /\ w \in Seq(Nat)
  BY DEF Words
<1> QED BY ONLY <1>1, ConcatAssociative, SMTT(30)

LEMMA WordsJoined ==
    ASSUME NEW u \in Words, NEW v \in Words
    PROVE  u \o v \in Words /\ u \o <<>> = u /\ <<>> \o u = u /\ <<>> \in Words
BY ConcatProperties, ConcatEmptySeq, EmptySeq DEF Words

\* A claim about numbers that fails somewhere fails first at some number.
LEMMA FirstFailure ==
    ASSUME NEW S \in SUBSET Nat, S # {}
    PROVE  \E x \in S : \A y \in S : x <= y
<1>1. PICK x \in S : \A y \in S : ~ (<<y, x>> \in OpToRel(<, Nat))
  BY WFMin, NatLessThanWellFounded
<1>2. ASSUME NEW y \in S PROVE x <= y
  <2>1. <<y, x>> \in OpToRel(<, Nat) <=> y < x
    BY DEF OpToRel
  <2>2. ~ (y < x)
    BY <1>1, <2>1
  <2>3. x \in Nat /\ y \in Nat
    OBVIOUS
  <2> QED BY <2>2, <2>3
<1> QED BY <1>2

\* f[i] is the first i sequences of s, one after the other.
Joins(f, s, n) ==
    f = [i \in 1..n |-> IF i = 1 THEN s[i] ELSE f[i - 1] \o s[i]]

LEMMA JoinsExists ==
    ASSUME NEW s, NEW n \in Nat
    PROVE  \E f : Joins(f, s, n)
<1> DEFINE Bad == {k \in Nat : ~ \E f : Joins(f, s, k)}
<1>1. SUFFICES ASSUME Bad # {} PROVE FALSE
  OBVIOUS
<1>2. PICK k \in Bad : \A j \in Bad : k <= j
  <2>1. Bad \in SUBSET Nat
    OBVIOUS
  <2> HIDE DEF Bad
  <2> QED BY <1>1, <2>1, FirstFailure
<1>3. k # 0
  <2>1. Joins([i \in 1..0 |-> 0], s, 0)
    BY DEF Joins
  <2> QED BY <2>1
<1>4. k \in Nat /\ k - 1 \in Nat /\ ~ (k <= k - 1)
  BY <1>3
<1>5. PICK g : Joins(g, s, k - 1)
  BY <1>2, <1>4
<1> DEFINE f == [i \in 1..k |-> IF i = 1 THEN s[i] ELSE g[i - 1] \o s[i]]
<1>6. ASSUME NEW i \in 1..(k - 1) PROVE f[i] = g[i]
  <2>1. g[i] = IF i = 1 THEN s[i] ELSE g[i - 1] \o s[i]
    BY <1>5 DEF Joins
  <2>2. i \in 1..k
    BY <1>4
  <2> QED BY <2>1, <2>2
<1>7. ASSUME NEW i \in 1..k PROVE f[i] = IF i = 1 THEN s[i] ELSE f[i - 1] \o s[i]
  <2>1. CASE i = 1
    BY <2>1
  <2>2. CASE i # 1
    <3>1. i - 1 \in 1..(k - 1)
      BY <1>4, <2>2
    <3> QED BY <1>6, <2>2, <3>1
  <2> QED BY <2>1, <2>2
<1>8. f = [i \in 1..k |-> IF i = 1 THEN s[i] ELSE f[i - 1] \o s[i]]
  <2>1. f = [i \in 1..k |-> f[i]]
    OBVIOUS
  <2> HIDE DEF f
  <2> QED BY <1>7, <2>1
<1>9. Joins(f, s, k)
  BY <1>8 DEF Joins
<1> QED BY <1>9

\* What FlattenSeq yields is the last of such a function.
LEMMA Flattened ==
    ASSUME NEW s \in Seq(Words)
    PROVE  /\ s = <<>> => FlattenSeq(s) = <<>>
           /\ s # <<>> => \E f : Joins(f, s, Len(s)) /\ FlattenSeq(s) = f[Len(s)]
<1>1. CASE s = <<>>
  BY <1>1 DEF FlattenSeq
<1>2. CASE s # <<>>
  <2>1. Len(s) \in Nat /\ Len(s) # 0
    BY <1>2
  <2> DEFINE flatten == CHOOSE f : Joins(f, s, Len(s))
  <2>2. FlattenSeq(s) = flatten[Len(s)]
    BY <2>1 DEF FlattenSeq, Joins
  <2>3. Joins(flatten, s, Len(s))
    BY <2>1, JoinsExists
  <2> HIDE DEF flatten
  <2> QED BY <1>2, <2>2, <2>3
<1> QED BY <1>1, <1>2

LEMMA JoinsAre ==
    ASSUME NEW s \in Seq(Words), NEW n \in 0..Len(s), NEW f, Joins(f, s, n), NEW i \in 1..n
    PROVE  f[i] \in Words /\ f[i] = IF i = 1 THEN s[1] ELSE f[i - 1] \o s[i]
<1>1. ASSUME NEW j \in 1..n PROVE f[j] = IF j = 1 THEN s[1] ELSE f[j - 1] \o s[j]
  BY DEF Joins
<1> DEFINE Bad == {j \in 1..n : f[j] \notin Words}
<1>2. ASSUME Bad # {} PROVE FALSE
  <2>1. PICK j \in Bad : \A k \in Bad : j <= k
    <3>1. Bad \in SUBSET Nat
      OBVIOUS
    <3> HIDE DEF Bad
    <3> QED BY <1>2, <3>1, FirstFailure
  <2>2. j \in 1..n /\ s[j] \in Words
    BY ElementOfSeq
  <2>3. j = 1 \/ (j - 1 \in 1..n /\ f[j - 1] \in Words)
    BY <2>1, <2>2
  <2>4. f[j] \in Words
    <3>1. CASE j = 1
      BY <1>1, <2>2, <3>1
    <3>2. CASE j # 1
      BY <1>1, <2>2, <2>3, <3>2, ConcatProperties DEF Words
    <3> QED BY <3>1, <3>2
  <2> QED BY <2>1, <2>4
<1> QED BY <1>1, <1>2

\* Two such functions agree where both are defined.
LEMMA JoinsAgree ==
    ASSUME NEW s \in Seq(Words), NEW t \in Seq(Words), NEW n \in Nat, n <= Len(s), n <= Len(t),
           \A i \in 1..n : s[i] = t[i],
           NEW f, Joins(f, s, Len(s)), NEW g, Joins(g, t, Len(t)), NEW i \in 1..n
    PROVE  f[i] = g[i]
<1> DEFINE Bad == {j \in 1..n : f[j] # g[j]}
<1>1. SUFFICES ASSUME Bad # {} PROVE FALSE
  OBVIOUS
<1>2. PICK j \in Bad : \A k \in Bad : j <= k
  <2>1. Bad \in SUBSET Nat
    OBVIOUS
  <2> HIDE DEF Bad
  <2> QED BY <1>1, <2>1, FirstFailure
<1>3. /\ f[j] = IF j = 1 THEN s[1] ELSE f[j - 1] \o s[j]
      /\ g[j] = IF j = 1 THEN t[1] ELSE g[j - 1] \o t[j]
  <2>1. j \in 1..n /\ 1..n \subseteq 1..Len(s) /\ 1..n \subseteq 1..Len(t)
    BY LenProperties
  <2>2. Len(s) \in 0..Len(s) /\ Len(t) \in 0..Len(t)
    BY LenProperties
  <2>3. j \in 1..Len(s) /\ j \in 1..Len(t)
    BY ONLY <2>1
  <2> HIDE DEF Bad
  <2> QED BY <2>2, <2>3, JoinsAre, SMTT(30)
<1>4. j = 1 \/ (j - 1 \in 1..n /\ j - 1 \notin Bad)
  BY <1>2
<1> QED BY <1>3, <1>4

LEMMA FlattenInWords ==
    ASSUME NEW s \in Seq(Words)
    PROVE  FlattenSeq(s) \in Words
<1>1. CASE s = <<>>
  BY <1>1, Flattened, EmptySeq DEF Words
<1>2. CASE s # <<>>
  <2>1. PICK f : Joins(f, s, Len(s)) /\ FlattenSeq(s) = f[Len(s)]
    BY <1>2, Flattened
  <2>2. Len(s) \in 0..Len(s) /\ Len(s) \in 1..Len(s)
    BY <1>2
  <2> QED BY <2>1, <2>2, JoinsAre
<1> QED BY <1>1, <1>2

LEMMA FlattenAppend ==
    ASSUME NEW s \in Seq(Words), NEW w \in Words
    PROVE  FlattenSeq(Append(s, w)) = FlattenSeq(s) \o w
<1> DEFINE t == Append(s, w)
<1>1. /\ t \in Seq(Words) /\ t # <<>> /\ Len(t) = Len(s) + 1 /\ Len(s) \in Nat
      /\ t[Len(s) + 1] = w /\ \A i \in 1..Len(s) : s[i] = t[i]
  BY AppendProperties
<1> HIDE DEF t
<1>2. PICK g : Joins(g, t, Len(t)) /\ FlattenSeq(t) = g[Len(t)]
  BY <1>1, Flattened
<1>3. g[Len(t)] = IF Len(t) = 1 THEN t[1] ELSE g[Len(t) - 1] \o t[Len(t)]
  BY <1>1, <1>2, JoinsAre
<1>4. CASE s = <<>>
  <2>1. FlattenSeq(s) = <<>> /\ Len(s) = 0
    BY <1>4, Flattened
  <2>2. FlattenSeq(t) = w
    BY <1>1, <1>2, <1>3, <2>1
  <2> QED BY <2>1, <2>2, ConcatEmptySeq DEF Words, t
<1>5. CASE s # <<>>
  <2>1. PICK f : Joins(f, s, Len(s)) /\ FlattenSeq(s) = f[Len(s)]
    BY <1>5, Flattened
  <2>2. Len(s) \in 1..Len(s)
    BY <1>5
  <2>3. f[Len(s)] = g[Len(s)]
    BY <1>1, <1>2, <2>1, <2>2, JoinsAgree
  <2>4. Len(t) # 1 /\ Len(t) - 1 = Len(s)
    BY <1>1, <2>2
  <2>5. FlattenSeq(t) = g[Len(s)] \o w
    BY <1>1, <1>2, <1>3, <2>4
  <2> QED BY <2>1, <2>3, <2>5 DEF t
<1> QED BY <1>4, <1>5

LEMMA FlattenHead ==
    ASSUME NEW s \in Seq(Words), s # <<>>
    PROVE  FlattenSeq(s) = Head(s) \o FlattenSeq(Tail(s))
<1> DEFINE t == Tail(s)
<1>1. /\ t \in Seq(Words) /\ Len(t) = Len(s) - 1 /\ Len(s) \in Nat \ {0}
      /\ Head(s) = s[1] /\ s[1] \in Words /\ \A i \in 1..Len(t) : t[i] = s[i + 1]
  BY HeadTailProperties
<1> HIDE DEF t
<1>2. PICK f : Joins(f, s, Len(s)) /\ FlattenSeq(s) = f[Len(s)]
  BY Flattened
<1>3. ASSUME NEW i \in 1..Len(s)
      PROVE  f[i] \in Words /\ f[i] = IF i = 1 THEN s[1] ELSE f[i - 1] \o s[i]
  BY <1>1, <1>2, JoinsAre
<1>4. CASE t = <<>>
  <2>1. FlattenSeq(t) = <<>> /\ Len(t) = 0
    BY <1>1, <1>4, Flattened
  <2>3. Len(s) = 1
    BY <1>1, <2>1
  <2>2. FlattenSeq(s) = s[1]
    BY <1>2, <1>3, <2>3
  <2> QED BY <1>1, <2>1, <2>2, ConcatEmptySeq DEF Words, t
<1>5. CASE t # <<>>
  <2>1. PICK g : Joins(g, t, Len(t)) /\ FlattenSeq(t) = g[Len(t)]
    BY <1>1, <1>5, Flattened
  <2>2. ASSUME NEW i \in 1..Len(t)
        PROVE  g[i] \in Words /\ g[i] = IF i = 1 THEN t[1] ELSE g[i - 1] \o t[i]
    BY <1>1, <2>1, JoinsAre
  <2> DEFINE Bad == {i \in 1..Len(t) : f[i + 1] # s[1] \o g[i]}
  <2>3. ASSUME Bad # {} PROVE FALSE
    <3>1. PICK i \in Bad : \A k \in Bad : i <= k
      <4>1. Len(t) \in Nat
        BY <1>1
      <4>2. Bad \in SUBSET Nat
        <5>1. Bad \subseteq 1..Len(t)
          OBVIOUS
        <5> HIDE DEF Bad
        <5> QED BY <4>1, <5>1
      <4> HIDE DEF Bad
      <4> QED BY <2>3, <4>2, FirstFailure
    <3>0. Len(t) \in Nat
      BY <1>1
    <3>2. i \in 1..Len(t) /\ i \in Nat /\ i + 1 \in 1..Len(s) /\ i + 1 # 1 /\ (i + 1) - 1 = i
      BY <1>1, <3>0
    <3>6. f[i + 1] # s[1] \o g[i]
      BY <3>1
    <3> HIDE DEF Bad
    <3>3. f[i + 1] = f[i] \o s[i + 1] /\ s[i + 1] = t[i] /\ t[i] \in Words
      BY <1>1, <1>3, <3>2, ElementOfSeq
    <3>4. CASE i = 1
      <4>1. f[1] = s[1] /\ g[1] = t[1]
        BY <1>1, <1>3, <2>2, <3>2, <3>4
      <4> QED BY <3>2, <3>3, <3>4, <3>6, <4>1
    <3>5. CASE i # 1
      <4>0. i - 1 \in 1..Len(t) /\ (i - 1) + 1 = i /\ ~ (i <= i - 1)
        BY <3>0, <3>2, <3>5
      <4>1. i - 1 \notin Bad
        BY <3>1, <4>0
      <4>2. f[i] = s[1] \o g[i - 1]
        BY <4>0, <4>1 DEF Bad
      <4>3. g[i] = g[i - 1] \o t[i] /\ g[i - 1] \in Words
        BY <2>2, <3>2, <3>5, <4>0
      <4>4. (s[1] \o g[i - 1]) \o t[i] = s[1] \o (g[i - 1] \o t[i])
        <5>1. s[1] \in Words /\ g[i - 1] \in Words /\ t[i] \in Words
          BY <1>1, <3>3, <4>3
        <5> QED BY <5>1, WordsAssociative
      <4> QED BY <3>3, <3>6, <4>2, <4>3, <4>4
    <3> QED BY <3>4, <3>5
  <2>4. Len(t) \in 1..Len(t) /\ Len(t) + 1 = Len(s)
    BY <1>1, <1>5
  <2>5. f[Len(s)] = s[1] \o g[Len(t)]
    BY <2>3, <2>4
  <2> QED BY <1>1, <1>2, <2>1, <2>5 DEF t
<1> QED BY <1>4, <1>5

LEMMA JoinedAppend ==
    ASSUME NEW u \in Words, NEW v \in Words, NEW n \in Nat
    PROVE  u \o Append(v, n) = Append(u \o v, n)
<1>1. <<n>> \in Words /\ Append(v, n) = v \o <<n>>
  BY AppendIsConcat DEF Words
<1>2. u \o v \in Words
  BY WordsJoined
<1>3. Append(u \o v, n) = (u \o v) \o <<n>>
  BY <1>2, AppendIsConcat DEF Words
<1> QED BY <1>1, <1>3, WordsAssociative

\* One more word into the last of the sequences.
LEMMA FlattenLast ==
    ASSUME NEW s \in Seq(Words), s # <<>>, NEW n \in Nat
    PROVE  LET more == [s EXCEPT ![Len(s)] = Append(@, n)]
           IN  /\ more \in Seq(Words) /\ more # <<>>
               /\ FlattenSeq(more) = Append(FlattenSeq(s), n)
<1> DEFINE more == [s EXCEPT ![Len(s)] = Append(@, n)]
<1>1. PICK front \in Seq(Words), last \in Words : s = Append(front, last)
  BY SequenceEmptyOrAppend
<1>2. /\ Len(s) = Len(front) + 1 /\ Len(front) \in Nat /\ s[Len(s)] = last
      /\ \A i \in 1..Len(front) : s[i] = front[i]
  BY <1>1, AppendProperties
<1>3. Append(last, n) \in Words
  BY AppendProperties DEF Words
<1>4. more = Append(front, Append(last, n))
  <2>1. /\ more \in Seq(Words) /\ Len(more) = Len(s)
        /\ \A j \in 1..Len(s) : more[j] = IF j = Len(s) THEN Append(last, n) ELSE s[j]
    BY <1>2, <1>3, ExceptSeq
  <2> DEFINE whole == Append(front, Append(last, n))
  <2>2. /\ whole \in Seq(Words) /\ Len(whole) = Len(front) + 1
        /\ whole[Len(front) + 1] = Append(last, n)
        /\ \A i \in 1..Len(front) : whole[i] = front[i]
    BY <1>3, AppendProperties
  <2> HIDE DEF more, whole
  <2>3. ASSUME NEW j \in 1..Len(s) PROVE more[j] = whole[j]
    <3>1. j = Len(front) + 1 \/ (j \in 1..Len(front) /\ j # Len(front) + 1)
      BY <1>2
    <3> QED BY <1>2, <2>1, <2>2, <3>1
  <2>4. more = whole
    <3>1. Len(more) = Len(whole)
      BY <1>2, <2>1, <2>2
    <3>2. \A j \in 1..Len(more) : more[j] = whole[j]
      BY <2>1, <2>3
    <3> QED BY <2>1, <2>2, <3>1, <3>2, SeqEqual
  <2> QED BY <2>4 DEF whole
<1> HIDE DEF more
<1>5. more \in Seq(Words) /\ more # <<>>
  BY <1>3, <1>4, AppendProperties
<1>6. FlattenSeq(more) = FlattenSeq(front) \o Append(last, n)
  BY <1>3, <1>4, FlattenAppend
<1>7. FlattenSeq(s) = FlattenSeq(front) \o last
  BY <1>1, FlattenAppend
<1>8. FlattenSeq(front) \in Words
  BY FlattenInWords
<1>9. FlattenSeq(front) \o Append(last, n) = Append(FlattenSeq(front) \o last, n)
  BY <1>8, JoinedAppend
<1> QED BY <1>5, <1>6, <1>7, <1>9 DEF more

-----------------------------------------------------------------------------
(* Every phrase is heard once *)

\* The words of a dialogue that the caller spoke, turn by turn.
SaidBy(turn) == IF turn[1] = "user" THEN turn[2] ELSE <<>>
SaidIn(dialogue) == [i \in DOMAIN dialogue |-> SaidBy(dialogue[i])]

WordsInv ==
    /\ spoken \in Nat
    /\ stt \in Seq(Words) /\ stt # <<>> /\ finals \in Seq(Words)
    /\ pending \in Words /\ partial \in Words /\ run.text \in Words
    /\ SaidIn(history) \in Seq(Words)

\* From the moment a reply has taken its text until its turn is committed, its text
\* is the text that waits to be committed; a final is dropped only after one was missed.
TakenInv ==
    /\ brain => Running
    /\ (brain \/ run.token \/ task \in {"replying", "held", "failed"}) /\ ~run.released =>
          run.text = pending
    /\ ~missed => stale = 0

HeardInv == WordsInv /\ TakenInv /\ HeardOnceInOrder

\* All that was said so far, from the dialogue to what the recogniser still works on.
Heard == ((FlattenSeq(SaidIn(history)) \o pending) \o FlattenSeq(finals)) \o FlattenSeq(stt)

LEMMA HeardIs == HeardOnceInOrder <=> (~missed => Heard = [i \in 1..spoken |-> i])
<1>1. UserWords = FlattenSeq(SaidIn(history))
  BY DEF UserWords, SaidIn, SaidBy
<1> QED BY <1>1 DEF HeardOnceInOrder, Heard

LEMMA PartsAreWords ==
    ASSUME WordsInv
    PROVE  /\ FlattenSeq(SaidIn(history)) \in Words /\ FlattenSeq(finals) \in Words
           /\ FlattenSeq(stt) \in Words /\ Heard \in Words
           /\ FlattenSeq(SaidIn(history)) \o pending \in Words
           /\ (FlattenSeq(SaidIn(history)) \o pending) \o FlattenSeq(finals) \in Words
BY FlattenInWords, WordsJoined DEF WordsInv, Heard

LEMMA DialogueGrows ==
    ASSUME NEW d, IsSequence(d), SaidIn(d) \in Seq(Words), NEW turn, SaidBy(turn) \in Words
    PROVE  /\ SaidIn(Append(d, turn)) \in Seq(Words)
           /\ FlattenSeq(SaidIn(Append(d, turn))) = FlattenSeq(SaidIn(d)) \o SaidBy(turn)
<1>1. PICK S : d \in Seq(S)
  BY DEF IsSequence
<1>2. d \in Seq(S \cup {turn}) /\ turn \in S \cup {turn}
  BY <1>1
<1> DEFINE longer == Append(d, turn)
<1>3. /\ Len(d) \in Nat /\ DOMAIN d = 1..Len(d)
      /\ DOMAIN longer = 1..(Len(d) + 1)
      /\ longer[Len(d) + 1] = turn /\ \A i \in 1..Len(d) : longer[i] = d[i]
  BY <1>2, AppendProperties
<1> HIDE DEF longer
<1> DEFINE words == SaidIn(d)
<1>4. words \in Seq(Words) /\ DOMAIN words = 1..Len(d) /\ Len(words) = Len(d)
      /\ \A i \in 1..Len(d) : words[i] = SaidBy(d[i])
  BY <1>3 DEF SaidIn
<1> HIDE DEF words
<1>5. /\ Append(words, SaidBy(turn)) \in Seq(Words)
      /\ Append(words, SaidBy(turn)) \in [1..(Len(d) + 1) -> Words]
      /\ Append(words, SaidBy(turn))[Len(d) + 1] = SaidBy(turn)
      /\ \A i \in 1..Len(d) : Append(words, SaidBy(turn))[i] = words[i]
  <2> DEFINE whole == Append(words, SaidBy(turn))
  <2>1. /\ whole \in Seq(Words) /\ Len(whole) = Len(d) + 1 /\ whole[Len(d) + 1] = SaidBy(turn)
        /\ \A i \in 1..Len(d) : whole[i] = words[i]
    BY <1>4, AppendProperties
  <2> HIDE DEF whole
  <2>2. whole \in [1..(Len(d) + 1) -> Words]
    BY <2>1
  <2> QED BY <2>1, <2>2 DEF whole
<1>6. SaidIn(longer) = Append(words, SaidBy(turn))
  <2> DEFINE whole == Append(words, SaidBy(turn))
  <2>1. whole = [i \in 1..(Len(d) + 1) |-> whole[i]]
    BY <1>5
  <2>2. ASSUME NEW i \in 1..(Len(d) + 1) PROVE whole[i] = SaidBy(longer[i])
    <3>1. i \in 1..Len(d) \/ i = Len(d) + 1
      BY <1>3
    <3> QED BY <1>3, <1>4, <1>5, <3>1
  <2> HIDE DEF whole
  <2>3. whole = SaidIn(longer)
    BY <1>3, <2>1, <2>2 DEF SaidIn
  <2> QED BY <2>3 DEF whole
<1> QED BY <1>4, <1>5, <1>6, FlattenAppend DEF longer, words

\* Rewriting what was heard of a reply says nothing of the caller's words.
LEMMA DialogueRewritten ==
    ASSUME NEW d, IsSequence(d), NEW i, d[i][1] = "agent", NEW n
    PROVE  SaidIn([d EXCEPT ![i] = <<"agent", n>>]) = SaidIn(d)
<1> DEFINE e == [d EXCEPT ![i] = <<"agent", n>>]
<1>1. DOMAIN e = DOMAIN d
  OBVIOUS
<1>2. ASSUME NEW j \in DOMAIN d PROVE SaidBy(e[j]) = SaidBy(d[j])
  BY DEF SaidBy
<1> HIDE DEF e
<1>3. SaidIn(e) = SaidIn(d)
  BY <1>1, <1>2 DEF SaidIn
<1> QED BY <1>3 DEF e

LEMMA CountingOn ==
    ASSUME NEW n \in Nat
    PROVE  Append([i \in 1..n |-> i], n + 1) = [i \in 1..(n + 1) |-> i]
<1> DEFINE s == [i \in 1..n |-> i]
           t == [i \in 1..(n + 1) |-> i]
<1>1. s \in Seq(Nat) /\ Len(s) = n /\ t \in Seq(Nat) /\ Len(t) = n + 1
  OBVIOUS
<1>2. /\ \A i \in 1..n : s[i] = i
      /\ \A i \in 1..(n + 1) : t[i] = i
  OBVIOUS
<1> DEFINE more == Append(s, n + 1)
<1> HIDE DEF s, t
<1>3. /\ more \in Seq(Nat) /\ Len(more) = n + 1 /\ more[n + 1] = n + 1
      /\ \A i \in 1..n : more[i] = s[i]
  BY <1>1, AppendProperties
<1> HIDE DEF more
<1>4. ASSUME NEW i \in 1..(n + 1) PROVE more[i] = t[i]
  <2>1. i \in 1..n \/ i = n + 1
    OBVIOUS
  <2> QED BY <1>2, <1>3, <2>1
<1>5. more = t
  BY <1>1, <1>3, <1>4, SeqEqual
<1> QED BY <1>5 DEF more, s, t

LEMMA InitHeardInv == Init => HeardInv
<1> SUFFICES ASSUME Init PROVE HeardInv
  OBVIOUS
<1>1. <<>> \in Words /\ <<>> \in Seq(Words)
  BY EmptySeq DEF Words
<1>2. SaidIn(history) = <<>>
  BY DEF Init, SaidIn
<1>3. stt = Append(<<>>, <<>>) /\ stt \in Seq(Words) /\ stt # <<>>
  BY <1>1 DEF Init, NewStream
<1>4. WordsInv
  BY <1>1, <1>2, <1>3 DEF Init, WordsInv, NoRun, NewRun
<1>5. TakenInv
  BY DEF Init, TakenInv, NoRun, NewRun
<1>6. Heard = <<>>
  <2>1. FlattenSeq(<<>>) = <<>>
    BY <1>1, Flattened
  <2>2. FlattenSeq(stt) = <<>> \o <<>>
    BY <1>1, <1>3, <2>1, FlattenAppend
  <2> QED BY <1>1, <1>2, <2>1, <2>2, WordsJoined DEF Heard, Init
<1>7. [i \in 1..spoken |-> i] = <<>>
  BY DEF Init
<1> QED BY <1>4, <1>5, <1>6, <1>7, HeardIs DEF HeardInv

\* A step that moves no words.
LEMMA NoWordsMoved ==
    ASSUME HeardInv, UNCHANGED <<spoken, stt, finals, pending, partial, history, missed>>,
           run'.text \in Words, TakenInv'
    PROVE  HeardInv'
<1>1. WordsInv'
  BY DEF HeardInv, WordsInv
<1>2. HeardOnceInOrder'
  BY DEF HeardInv, HeardOnceInOrder, UserWords
<1> QED BY <1>1, <1>2 DEF HeardInv

\* Words that moved on, none lost and none added.
LEMMA WordsMoved ==
    ASSUME HeardInv, WordsInv', TakenInv', UNCHANGED spoken,
           ~missed' => ~missed /\ Heard' = Heard
    PROVE  HeardInv'
<1>1. ~missed => Heard = [i \in 1..spoken |-> i]
  BY HeardIs DEF HeardInv
<1>2. ~missed' => Heard' = [i \in 1..spoken' |-> i]
  BY <1>1
<1>3. HeardOnceInOrder'
  <2>1. HeardOnceInOrder' <=> (~missed' => Heard' = [i \in 1..spoken' |-> i])
    <3>1. UserWords' = FlattenSeq(SaidIn(history'))
      BY DEF UserWords, SaidIn, SaidBy
    <3> QED BY <3>1 DEF HeardOnceInOrder, Heard
  <2> QED BY <1>2, <2>1
<1> QED BY <1>3 DEF HeardInv

\* A turn is committed: its words go from what waits to the dialogue.
LEMMA Committed ==
    ASSUME WordsInv, IsSequence(history), NEW d, d = Append(history, <<"user", pending>>)
    PROVE  /\ IsSequence(d) /\ SaidIn(d) \in Seq(Words)
           /\ FlattenSeq(SaidIn(d)) = FlattenSeq(SaidIn(history)) \o pending
<1>1. SaidBy(<<"user", pending>>) = pending
  BY DEF SaidBy
<1> QED BY <1>1, DialogueGrows, AppendIsSequence DEF WordsInv

LEMMA AgentSpoke ==
    ASSUME NEW d, IsSequence(d), SaidIn(d) \in Seq(Words), NEW n
    PROVE  /\ SaidIn(Append(d, <<"agent", n>>)) \in Seq(Words)
           /\ FlattenSeq(SaidIn(Append(d, <<"agent", n>>))) = FlattenSeq(SaidIn(d))
<1>1. SaidBy(<<"agent", n>>) = <<>>
  BY DEF SaidBy
<1>2. <<>> \in Words /\ FlattenSeq(SaidIn(d)) \o <<>> = FlattenSeq(SaidIn(d))
  BY FlattenInWords, WordsJoined
<1> QED BY <1>1, <1>2, DialogueGrows

LEMMA HearingKeepsHeardInv ==
    ASSUME HeardInv, SpeechFrame \/ SilentFrame \/ Asked
    PROVE  HeardInv'
<1> USE DEF turnVars, talkVars, heardVars, sttVars
<1>1. UNCHANGED <<turnVars, talkVars, heardVars, missed>>
  BY DEF SpeechFrame, SilentFrame, Asked
<1>2. TakenInv'
  BY <1>1 DEF HeardInv, TakenInv, Running
<1>3. CASE UNCHANGED <<spoken, stt>>
  BY <1>1, <1>2, <1>3, NoWordsMoved DEF HeardInv, WordsInv
<1>4. CASE spoken' = spoken + 1 /\ stt' = [stt EXCEPT ![Len(stt)] = Append(@, spoken + 1)]
  <2>1. spoken \in Nat /\ spoken' \in Nat /\ spoken + 1 \in Nat
    BY <1>4 DEF HeardInv, WordsInv
  <2>2. stt' \in Seq(Words) /\ stt' # <<>> /\ FlattenSeq(stt') = Append(FlattenSeq(stt), spoken + 1)
    BY <1>4, <2>1, FlattenLast DEF HeardInv, WordsInv
  <2>3. WordsInv'
    BY <1>1, <2>1, <2>2 DEF HeardInv, WordsInv
  <2> DEFINE before == (FlattenSeq(SaidIn(history)) \o pending) \o FlattenSeq(finals)
             last == FlattenSeq(stt)
  <2>4. before \in Words /\ last \in Words /\ Heard = before \o last
    BY PartsAreWords DEF HeardInv, Heard
  <2>5. Heard' = before \o Append(last, spoken + 1)
    BY <1>1, <2>2 DEF Heard
  <2> HIDE DEF before, last
  <2>6. Heard' = Append(Heard, spoken + 1)
    BY <2>1, <2>4, <2>5, JoinedAppend
  <2>7. ~missed => Heard = [i \in 1..spoken |-> i]
    BY HeardIs DEF HeardInv
  <2>8. Append([i \in 1..spoken |-> i], spoken + 1) = [i \in 1..(spoken + 1) |-> i]
    BY <2>1, CountingOn
  <2>9. UserWords' = FlattenSeq(SaidIn(history'))
    BY DEF UserWords, SaidIn, SaidBy
  <2>10. HeardOnceInOrder'
    BY <1>1, <1>4, <2>6, <2>7, <2>8, <2>9 DEF HeardOnceInOrder, Heard
  <2> QED BY <1>2, <2>3, <2>10 DEF HeardInv
<1> QED BY <1>3, <1>4 DEF SpeechFrame, SilentFrame, Asked

LEMMA SignalsKeepHeardInv ==
    ASSUME StreamInv, HeardInv,
           PauseStart \/ ResumeSpeech \/ Discard \/ Discarded \/ SpeechStart
    PROVE  HeardInv'
<1> USE DEF audioVars, talkVars, heardVars, sttVars
<1>1. UNCHANGED <<spoken, stt, finals, pending, partial, history, missed, brain>>
  BY DEF PauseStart, ResumeSpeech, Discard, Discarded, SpeechStart
<1>2. CASE PauseStart
  <2>1. CASE UNCHANGED <<run, task>>
    BY <1>1, <1>2, <2>1, NoWordsMoved DEF PauseStart, HeardInv, WordsInv, TakenInv, Running
  <2>2. CASE run' = NewRun(FALSE) /\ task' = "created"
    <3>1. Signal("pause")
      BY <1>2 DEF PauseStart
    <3>2. ~Running
      BY <3>1 DEF Signal, StreamInv, ReplyInv, Talking, InTurn
    <3>3. run'.text = <<>> /\ ~run'.token /\ ~brain'
      BY <1>1, <2>2, <3>2 DEF NewRun, HeardInv, TakenInv
    <3>4. UNCHANGED stale
      BY <1>2 DEF PauseStart
    <3>5. TakenInv'
      BY <1>1, <2>2, <3>3, <3>4 DEF HeardInv, TakenInv, Running
    <3>6. run'.text \in Words
      BY <3>3, EmptySeq DEF Words
    <3> QED BY <1>1, <3>5, <3>6, NoWordsMoved
  <2> QED BY <1>2, <2>1, <2>2 DEF PauseStart
<1>3. CASE ResumeSpeech \/ Discarded
  <2>1. UNCHANGED <<run, task, stale>>
    BY <1>3 DEF ResumeSpeech, Discarded
  <2> QED BY <1>1, <2>1, NoWordsMoved DEF HeardInv, WordsInv, TakenInv, Running
<1>4. CASE Discard
  <2>1. run' = [run EXCEPT !.live = FALSE] /\ task' = Cancelled /\ UNCHANGED stale
    BY <1>4 DEF Discard
  <2>2. run'.text = run.text /\ run'.token = run.token /\ run'.released = run.released
    BY <2>1 DEF StreamInv, FullRun
  <2>3. TakenInv'
    BY <1>1, <2>1, <2>2 DEF HeardInv, TakenInv, Cancelled, Running
  <2> QED BY <1>1, <2>2, <2>3, NoWordsMoved DEF HeardInv, WordsInv
<1>5. CASE SpeechStart
  <2>1. UNCHANGED run /\ stale' = 0 /\ task' = Cancelled
    BY <1>5 DEF SpeechStart, Cancelled
  <2>2. TakenInv'
    BY <1>1, <2>1 DEF HeardInv, TakenInv, Cancelled, Running
  <2> QED BY <1>1, <2>1, <2>2, NoWordsMoved DEF HeardInv, WordsInv
<1> QED BY <1>2, <1>3, <1>4, <1>5

\* A step that only adds what the agent said to the dialogue, or rewrites it.
LEMMA OnlyAgentSpoke ==
    ASSUME HeardInv, UNCHANGED <<spoken, stt, finals, pending, partial, missed, brain, run, task, stale>>,
           SaidIn(history') \in Seq(Words),
           FlattenSeq(SaidIn(history')) = FlattenSeq(SaidIn(history))
    PROVE  HeardInv'
<1>1. WordsInv'
  BY DEF HeardInv, WordsInv
<1>2. TakenInv'
  BY DEF HeardInv, TakenInv, Running
<1>3. Heard' = Heard
  BY DEF Heard
<1> QED BY <1>1, <1>2, <1>3, WordsMoved

LEMMA InterruptionsKeepHeardInv ==
    ASSUME Inv, HeardInv, BargedIn \/ Interrupt
    PROVE  HeardInv'
<1> USE DEF audioVars, turnVars, talkVars, heardVars, sttVars
<1>1. UNCHANGED <<spoken, stt, finals, pending, partial, missed, brain, run, task, stale>>
  BY DEF BargedIn, Interrupt
<1>2. \/ UNCHANGED history
      \/ \E n : history' = Append(history, <<"agent", n>>)
      \/ index # None /\ \E n : history' = [history EXCEPT ![index] = <<"agent", n>>]
  BY DEF BargedIn, Interrupt
<1>3. SaidIn(history') \in Seq(Words) /\ FlattenSeq(SaidIn(history')) = FlattenSeq(SaidIn(history))
  <2>1. CASE UNCHANGED history
    BY <2>1 DEF HeardInv, WordsInv
  <2>2. ASSUME NEW n, history' = Append(history, <<"agent", n>>) PROVE /\ SaidIn(history') \in Seq(Words)
               /\ FlattenSeq(SaidIn(history')) = FlattenSeq(SaidIn(history))
    BY <2>2, AgentSpoke DEF HeardInv, WordsInv, Inv
  <2>3. ASSUME index # None, NEW n, history' = [history EXCEPT ![index] = <<"agent", n>>]
        PROVE  /\ SaidIn(history') \in Seq(Words)
               /\ FlattenSeq(SaidIn(history')) = FlattenSeq(SaidIn(history))
    <3>1. history[index][1] = "agent"
      BY <2>3 DEF Inv, IndexInv
    <3>2. SaidIn(history') = SaidIn(history)
      BY <2>3, <3>1, DialogueRewritten DEF Inv
    <3> QED BY <3>2 DEF HeardInv, WordsInv
  <2> QED BY <1>2, <2>1, <2>2, <2>3
<1> QED BY <1>1, <1>3, OnlyAgentSpoke

LEMMA ReleasedKeepsHeardInv ==
    ASSUME HeardInv, IsSequence(history), NEW r, FullRun(r), r.text = run.text,
           r.released = run.released, ~r.released => r.text = pending,
           Released(r), UNCHANGED <<spoken, stt, finals, partial, missed, stale>>, brain' => Running'
    PROVE  HeardInv'
<1>1. CASE r.released
  <2>1. run' = r /\ UNCHANGED <<history, pending>>
    BY <1>1 DEF Released
  <2>2. TakenInv'
    BY <1>1, <2>1 DEF HeardInv, TakenInv
  <2> QED BY <2>1, <2>2, NoWordsMoved DEF HeardInv, WordsInv
<1>2. CASE ~r.released
  <2>1. /\ run' = [r EXCEPT !.released = TRUE] /\ pending' = <<>>
        /\ history' = Append(history, <<"user", pending>>)
    BY <1>2 DEF Released
  <2>2. run'.released /\ run'.text = run.text
    BY <2>1 DEF FullRun
  <2>3. /\ SaidIn(history') \in Seq(Words)
        /\ FlattenSeq(SaidIn(history')) = FlattenSeq(SaidIn(history)) \o pending
    BY <2>1, Committed DEF HeardInv
  <2>4. pending' \in Words /\ (FlattenSeq(SaidIn(history)) \o pending) \o pending'
                               = FlattenSeq(SaidIn(history)) \o pending
    BY <2>1, PartsAreWords, WordsJoined DEF HeardInv
  <2>5. Heard' = Heard
    BY <2>3, <2>4 DEF Heard
  <2>6. WordsInv'
    BY <2>2, <2>3, <2>4 DEF HeardInv, WordsInv
  <2>7. TakenInv'
    BY <2>2 DEF HeardInv, TakenInv
  <2> QED BY <2>5, <2>6, <2>7, WordsMoved
<1> QED BY <1>1, <1>2

LEMMA EndOfTurnKeepsHeardInv ==
    ASSUME Inv, StreamInv, HeardInv, EndOfTurn
    PROVE  HeardInv'
<1> USE DEF sttVars
<1>1. UNCHANGED <<spoken, stt, finals, partial, missed, brain, stale>>
  BY DEF EndOfTurn
<1>2. CASE Discardable
  <2>0. PICK r : r = [run EXCEPT !.confirmed = TRUE]
    OBVIOUS
  <2>1. FullRun(r) /\ r.text = run.text /\ r.released = run.released /\ r.token = run.token
    BY <2>0 DEF StreamInv, FullRun
  <2>2. brain' => Running'
    BY <1>1, <1>2 DEF EndOfTurn, HeardInv, TakenInv, Running
  <2>3. CASE run.token
    <3>1. Released(r)
      BY <1>2, <2>0, <2>3 DEF EndOfTurn
    <3>2. ~r.released => r.text = pending
      BY <2>1, <2>3 DEF HeardInv, TakenInv
    <3> QED BY <1>1, <2>1, <2>2, <3>1, <3>2, ReleasedKeepsHeardInv DEF Inv
  <2>4. CASE ~run.token
    <3>1. run' = r /\ UNCHANGED <<history, pending, task>>
      BY <1>2, <2>0, <2>4 DEF EndOfTurn
    <3>2. TakenInv'
      BY <1>1, <2>1, <2>2, <3>1 DEF HeardInv, TakenInv
    <3> QED BY <1>1, <2>1, <3>1, <3>2, NoWordsMoved DEF HeardInv, WordsInv
  <2> QED BY <2>3, <2>4
<1>3. CASE ~Discardable
  <2>1. Signal("end") /\ run' = NewRun(TRUE) /\ task' = "created" /\ UNCHANGED <<history, pending>>
    BY <1>3 DEF EndOfTurn
  <2>2. ~Running
    BY <1>3, <2>1 DEF Signal, StreamInv, ReplyInv, InTurn
  <2>3. run'.text = <<>> /\ ~run'.token /\ ~brain'
    BY <1>1, <2>1, <2>2 DEF NewRun, HeardInv, TakenInv
  <2>4. TakenInv'
    BY <1>1, <2>1, <2>3 DEF HeardInv, TakenInv
  <2>5. run'.text \in Words
    BY <2>3, EmptySeq DEF Words
  <2> QED BY <1>1, <2>1, <2>4, <2>5, NoWordsMoved
<1> QED BY <1>2, <1>3

\* A reply takes all finals there are; with no partial text none of them is left over.
LEMMA TakingTextKeepsHeardInv ==
    ASSUME StreamInv, HeardInv, BeginReply \/ CollectText
    PROVE  HeardInv'
<1> USE DEF audioVars, talkVars, sttVars
<1>1. CASE BeginReply
  <2>1. /\ run' = [run EXCEPT !.awaiting = TRUE] /\ task' = "finalizing" /\ Running
        /\ UNCHANGED <<spoken, history, missed, brain, pending, finals, partial, stale>>
        /\ stt' \in {stt, Append(stt, <<>>)}
    BY <1>1 DEF BeginReply, Running
  <2>2. run'.text = run.text /\ run'.token = run.token /\ run'.released = run.released
    BY <2>1 DEF StreamInv, FullRun
  <2>3. <<>> \in Words
    BY EmptySeq DEF Words
  <2>4. /\ stt' \in Seq(Words) /\ stt' # <<>>
        /\ FlattenSeq(stt') = FlattenSeq(stt)
    <3>1. stt \in Seq(Words) /\ stt # <<>>
      BY DEF HeardInv, WordsInv
    <3>2. CASE stt' = stt
      BY <3>1, <3>2
    <3>3. CASE stt' = Append(stt, <<>>)
      <4>1. FlattenSeq(stt') = FlattenSeq(stt) \o <<>>
        BY <2>3, <3>1, <3>3, FlattenAppend
      <4>2. FlattenSeq(stt) \o <<>> = FlattenSeq(stt)
        BY <3>1, FlattenInWords, WordsJoined
      <4>3. stt' \in Seq(Words) /\ stt' # <<>>
        BY <2>3, <3>1, <3>3, AppendProperties
      <4> QED BY <4>1, <4>2, <4>3
    <3> QED BY <2>1, <3>2, <3>3
  <2>6. WordsInv'
    BY <2>1, <2>2, <2>4 DEF HeardInv, WordsInv
  <2>7. TakenInv'
    BY <2>1, <2>2 DEF HeardInv, TakenInv, Running
  <2>8. Heard' = Heard
    BY <2>1, <2>4 DEF Heard
  <2> QED BY <2>1, <2>6, <2>7, <2>8, WordsMoved
<1>2. CASE CollectText
  <2> DEFINE before == FlattenSeq(SaidIn(history))
             taken == FlattenSeq(finals)
             rest == FlattenSeq(stt)
  <2>1. /\ pending' = (pending \o taken) \o partial /\ finals' = <<>> /\ partial' = <<>>
        /\ run' = [run EXCEPT !.awaiting = FALSE, !.text = pending']
        /\ task' = IF pending' = <<>> THEN "done" ELSE "replying"
        /\ brain' = (pending' # <<>>)
        /\ stale' = stale + (IF final THEN 0 ELSE 1)
        /\ missed' <=> (missed \/ ~final \/ partial # <<>>)
        /\ UNCHANGED <<spoken, history, stt>>
    BY <1>2 DEF CollectText
  <2>2. /\ before \in Words /\ taken \in Words /\ rest \in Words /\ pending \in Words /\ partial \in Words
        /\ Heard = ((before \o pending) \o taken) \o rest
    BY PartsAreWords DEF HeardInv, WordsInv, Heard
  <2>3. Heard' = ((before \o pending') \o FlattenSeq(finals')) \o rest
    BY <2>1 DEF Heard
  <2> HIDE DEF before, taken, rest
  <2>4. finals' \in Seq(Words) /\ FlattenSeq(finals') = <<>>
    BY <2>1, Flattened, EmptySeq
  <2>5. pending' \in Words /\ partial' \in Words
    <3>1. pending \o taken \in Words
      BY <2>2, WordsJoined
    <3> QED BY <2>1, <2>2, <3>1, WordsJoined
  <2>6. run'.text = pending'
    BY <2>1 DEF StreamInv, FullRun
  <2>7. WordsInv'
    BY <2>1, <2>4, <2>5, <2>6 DEF HeardInv, WordsInv
  <2>8. TakenInv'
    <3>1. brain' => Running'
      BY <2>1 DEF Running
    <3>2. ~missed' => stale' = 0
      <4>1. ASSUME ~missed' PROVE stale = 0 /\ stale' = stale + 0
        BY <2>1, <4>1 DEF HeardInv, TakenInv
      <4> QED BY <4>1
    <3> QED BY <2>6, <3>1, <3>2 DEF TakenInv
  <2>9. ASSUME ~missed' PROVE Heard' = Heard
    <3>1. pending' = pending \o taken
      <4>1. pending \o taken \in Words /\ partial = <<>>
        BY <2>1, <2>2, <2>9, WordsJoined
      <4> QED BY <2>1, <4>1, WordsJoined
    <3>2. (before \o pending') \o FlattenSeq(finals') = before \o pending'
      <4>1. before \o pending' \in Words
        BY <2>2, <2>5, WordsJoined
      <4> QED BY <2>4, <4>1, WordsJoined
    <3>3. before \o pending' = (before \o pending) \o taken
      <4>1. before \in Words /\ pending \in Words /\ taken \in Words
        BY <2>2
      <4> QED BY ONLY <3>1, <4>1, WordsAssociative
    <3> QED BY <2>2, <2>3, <3>2, <3>3
  <2> QED BY <2>1, <2>7, <2>8, <2>9, WordsMoved
<1> QED BY <1>1, <1>2

\* The end of a reply commits its turn, if it was not, and what the agent said.
LEMMA FinishKeepsHeardInv ==
    ASSUME Inv, StreamInv, HeardInv, Finish, task \in {"replying", "held", "failed"},
           UNCHANGED <<spoken, stt, finals, partial, missed, stale>>
    PROVE  HeardInv'
<1> DEFINE committed == IF run.released THEN history ELSE Append(history, <<"user", run.text>>)
           waiting == IF run.released THEN pending ELSE <<>>
<1>1. ~run.released => run.text = pending
  BY DEF HeardInv, TakenInv
<1>2. /\ IsSequence(committed) /\ SaidIn(committed) \in Seq(Words) /\ waiting \in Words
      /\ FlattenSeq(SaidIn(committed)) \o waiting = FlattenSeq(SaidIn(history)) \o pending
  <2>1. CASE run.released
    BY <2>1 DEF Inv, HeardInv, WordsInv
  <2>2. CASE ~run.released
    <3>1. committed = Append(history, <<"user", pending>>) /\ waiting = <<>>
      BY <1>1, <2>2
    <3>2. /\ IsSequence(committed) /\ SaidIn(committed) \in Seq(Words)
          /\ FlattenSeq(SaidIn(committed)) = FlattenSeq(SaidIn(history)) \o pending
      BY <3>1, Committed DEF Inv, HeardInv
    <3> HIDE DEF committed, waiting
    <3> QED BY <3>1, <3>2, PartsAreWords, WordsJoined DEF HeardInv
  <2> QED BY <2>1, <2>2
<1>3. /\ history' = IF reply = 0 THEN committed ELSE Append(committed, <<"agent", reply>>)
      /\ pending' = waiting /\ run' = [run EXCEPT !.released = TRUE]
      /\ task' = "done" /\ ~brain'
  BY DEF Finish
<1> HIDE DEF committed, waiting
<1>4. /\ SaidIn(history') \in Seq(Words)
      /\ FlattenSeq(SaidIn(history')) = FlattenSeq(SaidIn(committed))
  BY <1>2, <1>3, AgentSpoke
<1>5. run'.released /\ run'.text = run.text
  BY <1>3 DEF StreamInv, FullRun
<1>6. WordsInv'
  BY <1>2, <1>3, <1>4, <1>5 DEF HeardInv, WordsInv
<1>7. TakenInv'
  BY <1>3, <1>5 DEF HeardInv, TakenInv
<1>8. Heard' = Heard
  BY <1>2, <1>3, <1>4 DEF Heard
<1> QED BY <1>6, <1>7, <1>8, WordsMoved

LEMMA ReplyKeepsHeardInv ==
    ASSUME Inv, StreamInv, HeardInv, Delta \/ BrainEnds \/ FinishHeld \/ Unwind
    PROVE  HeardInv'
<1> USE DEF audioVars, talkVars, heardVars, sttVars
<1>1. UNCHANGED <<spoken, stt, finals, partial, missed, stale>>
  BY DEF Delta, BrainEnds, FinishHeld, Unwind
<1>2. CASE Delta
  <2>0. PICK r : r = [run EXCEPT !.token = TRUE]
    OBVIOUS
  <2>1. FullRun(r) /\ r.text = run.text /\ r.released = run.released
    BY <2>0 DEF StreamInv, FullRun
  <2>2. brain /\ UNCHANGED <<brain, task>>
    BY <1>2 DEF Delta
  <2>3. brain' => Running'
    BY <2>2 DEF HeardInv, TakenInv, Running
  <2>4. ~r.released => r.text = pending
    BY <2>1, <2>2 DEF HeardInv, TakenInv
  <2>5. CASE run.confirmed
    <3>1. Released(r)
      BY <1>2, <2>0, <2>5 DEF Delta
    <3> QED BY <1>1, <2>1, <2>3, <2>4, <3>1, ReleasedKeepsHeardInv DEF Inv
  <2>6. CASE ~run.confirmed
    <3>1. run' = r /\ UNCHANGED <<history, pending>>
      BY <1>2, <2>0, <2>6 DEF Delta
    <3>2. TakenInv'
      BY <1>1, <2>1, <2>2, <2>3, <2>4, <3>1 DEF HeardInv, TakenInv
    <3> QED BY <1>1, <2>1, <3>1, <3>2, NoWordsMoved DEF HeardInv, WordsInv
  <2> QED BY <2>5, <2>6
<1>3. CASE BrainEnds \/ FinishHeld
  <2>1. CASE Finish
    BY <1>1, <1>3, <2>1, FinishKeepsHeardInv DEF BrainEnds, FinishHeld
  <2>2. CASE ~Finish
    <3>1. /\ task = "replying" /\ task' \in {"held", "failed"}
          /\ UNCHANGED <<run, history, pending>>
      BY <1>3, <2>2 DEF BrainEnds, FinishHeld
    <3>2. TakenInv'
      BY <1>1, <3>1 DEF HeardInv, TakenInv, Running
    <3> QED BY <1>1, <3>1, <3>2, NoWordsMoved DEF HeardInv, WordsInv
  <2> QED BY <2>1, <2>2
<1>4. CASE Unwind
  <2>1. task' = "done" /\ ~brain' /\ UNCHANGED <<run, history, pending>>
    BY <1>4 DEF Unwind
  <2>2. TakenInv'
    BY <1>1, <2>1 DEF HeardInv, TakenInv
  <2> QED BY <1>1, <2>1, <2>2, NoWordsMoved DEF HeardInv, WordsInv
<1> QED BY <1>2, <1>3, <1>4

\* A final takes the first utterance the recogniser still works on to the finals.
LEMMA RecogniserKeepsHeardInv ==
    ASSUME HeardInv, Final \/ Partial \/ StreamFails
    PROVE  HeardInv'
<1> USE DEF audioVars, turnVars, talkVars, sttVars
<1>1. UNCHANGED <<spoken, history, pending, brain, run, task>>
  BY DEF Final, Partial, StreamFails, heardVars
<1>2. /\ stt \in Seq(Words) /\ stt # <<>> /\ Utterance \in Words
      /\ Tail(stt) \in Seq(Words) /\ FlattenSeq(stt) = Utterance \o FlattenSeq(Tail(stt))
  BY HeadTailProperties, FlattenHead DEF HeardInv, WordsInv, Utterance
<1>3. CASE Partial
  <2>1. partial' = Utterance /\ UNCHANGED <<stt, finals, stale, missed>>
    BY <1>3 DEF Partial
  <2>2. WordsInv'
    BY <1>1, <1>2, <2>1 DEF HeardInv, WordsInv
  <2>3. TakenInv'
    BY <1>1, <2>1 DEF HeardInv, TakenInv, Running
  <2>4. Heard' = Heard
    BY <1>1, <2>1 DEF Heard
  <2> QED BY <1>1, <2>1, <2>2, <2>3, <2>4, WordsMoved
<1>4. CASE StreamFails
  <2>1. stt' = NewStream /\ missed' /\ UNCHANGED heardVars
    BY <1>4 DEF StreamFails
  <2>2. <<>> \in Words
    BY EmptySeq DEF Words
  <2>3. stt' \in Seq(Words) /\ stt' # <<>>
    BY <2>1, <2>2 DEF NewStream
  <2>4. WordsInv'
    BY <1>1, <2>1, <2>3 DEF HeardInv, WordsInv, heardVars
  <2>5. TakenInv'
    BY <1>1, <2>1 DEF HeardInv, TakenInv, Running, heardVars
  <2> QED BY <1>1, <2>1, <2>4, <2>5, WordsMoved
<1>5. CASE Final
  <2>1. /\ stt' = Tail(stt) /\ Len(stt) > 1 /\ partial' = <<>> /\ UNCHANGED missed
        /\ \/ stale > 0 /\ UNCHANGED finals
           \/ /\ ~ (stale > 0) /\ UNCHANGED stale
              /\ finals' = IF Utterance = <<>> THEN finals ELSE Append(finals, Utterance)
    BY <1>5 DEF Final, Finalising
  <2>2. stt' \in Seq(Words) /\ stt' # <<>>
    <3> DEFINE rest == Tail(stt)
    <3>1. stt \in Seq(Words) /\ stt # <<>> /\ rest \in Seq(Words) /\ Len(stt) > 1 /\ stt' = rest
      BY <1>2, <2>1
    <3>2. Len(rest) = Len(stt) - 1 /\ Len(stt) \in Nat
      BY <3>1, HeadTailProperties
    <3> HIDE DEF rest
    <3>3. Len(rest) # 0
      BY <3>1, <3>2
    <3> QED BY <3>1, <3>3
  <2>3. finals \in Seq(Words)
    BY DEF HeardInv, WordsInv
  <2>4. finals' \in Seq(Words)
    <3>1. Append(finals, Utterance) \in Seq(Words)
      BY <1>2, <2>3, AppendProperties
    <3> QED BY <2>1, <2>3, <3>1
  <2>5. WordsInv'
    BY <1>1, <2>1, <2>2, <2>4, EmptySeq DEF HeardInv, WordsInv, Words
  <2>6. ASSUME ~missed PROVE stale = 0 /\ UNCHANGED stale
        /\ finals' = IF Utterance = <<>> THEN finals ELSE Append(finals, Utterance)
    BY <2>1, <2>6 DEF HeardInv, TakenInv
  <2>7. TakenInv'
    BY <1>1, <2>1, <2>6 DEF HeardInv, TakenInv, Running
  <2>8. ASSUME ~missed PROVE Heard' = Heard
    <3> DEFINE before == FlattenSeq(SaidIn(history)) \o pending
               taken == FlattenSeq(finals)
               rest == FlattenSeq(Tail(stt))
    <3>1. /\ before \in Words /\ taken \in Words /\ rest \in Words
          /\ before \o taken \in Words /\ Utterance \in Words
          /\ Heard = (before \o taken) \o (Utterance \o rest)
      BY <1>2, PartsAreWords, FlattenInWords DEF HeardInv, Heard
    <3>2. Heard' = (before \o FlattenSeq(finals')) \o rest
      BY <1>1, <2>1 DEF Heard
    <3>3. FlattenSeq(finals') = taken \o Utterance
      <4>1. CASE Utterance = <<>>
        BY <2>6, <2>8, <3>1, <4>1, WordsJoined
      <4>2. CASE Utterance # <<>>
        BY <1>2, <2>3, <2>6, <2>8, <4>2, FlattenAppend
      <4> QED BY <4>1, <4>2
    <3> HIDE DEF before, taken, rest
    <3>4. before \o (taken \o Utterance) = (before \o taken) \o Utterance
      BY <3>1, WordsAssociative
    <3>5. ((before \o taken) \o Utterance) \o rest = (before \o taken) \o (Utterance \o rest)
      BY <3>1, WordsAssociative
    <3> QED BY <3>1, <3>2, <3>3, <3>4, <3>5
  <2> QED BY <1>1, <2>1, <2>5, <2>7, <2>8, WordsMoved
<1> QED BY <1>3, <1>4, <1>5

LEMMA NextHeardInv == Inv /\ StreamInv /\ HeardInv /\ [Next]_vars => HeardInv'
<1> SUFFICES ASSUME Inv, StreamInv, HeardInv, [Next]_vars PROVE HeardInv'
  OBVIOUS
<1>1. CASE CloseBridge \/ UNCHANGED vars
  <2>1. UNCHANGED <<spoken, stt, finals, pending, partial, history, missed, brain, run, task, stale>>
    BY <1>1 DEF CloseBridge, vars, audioVars, turnVars, talkVars, heardVars, sttVars
  <2>2. TakenInv'
    BY <2>1 DEF HeardInv, TakenInv, Running
  <2> QED BY <2>1, <2>2, NoWordsMoved DEF HeardInv, WordsInv
<1> QED
  BY <1>1, HearingKeepsHeardInv, SignalsKeepHeardInv, InterruptionsKeepHeardInv, EndOfTurnKeepsHeardInv,
     TakingTextKeepsHeardInv, ReplyKeepsHeardInv, RecogniserKeepsHeardInv DEF Next

\* Every phrase of the caller reaches the dialogue once and in order, for any number of
\* phrases, speculations, interruptions and failures of the model, while turns are
\* answered from finals and the stream stays up.  (_finish_turn, _pump_stt, _commit_user)
THEOREM EveryPhraseHeardOnce == Spec => []HeardOnceInOrder
<1>1. HeardInv => HeardOnceInOrder
  BY DEF HeardInv
<1> QED BY <1>1, InitInv, NextInv, InitStreamInv, NextStreamInv, InitHeardInv, NextHeardInv, PTL DEF Spec
=============================================================================
