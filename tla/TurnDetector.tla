----------------------------- MODULE TurnDetector ------------------------------
(***************************************************************************)
(* Turn taking of a cascade call (realtime/cascade/turn.py): voice         *)
(* activity gates the audio, and Smart Turn is asked about every pause     *)
(* whether the caller is done. Time is counted in audio frames, so the     *)
(* detector is a function of its state and the next frame. While an ask is *)
(* in flight push() only buffers: a frame is never processed before the    *)
(* ask is settled.                                                         *)
(***************************************************************************)
EXTENDS Naturals, Sequences

CONSTANTS
    OnsetFrames,   \* speech frames that open a turn (_ONSET_FRAMES)
    MinSilence,    \* frames of silence before the first ask (min_silence_ms)
    MaxSilence,    \* frames of silence that end a turn whatever Smart Turn says
    Reask          \* frames between two asks of one pause

ASSUME DetectorAssumption ==
    /\ OnsetFrames \in Nat \ {0}
    /\ MinSilence \in Nat \ {0}
    /\ MaxSilence \in Nat \ {0}
    /\ Reask \in Nat \ {0}

Signals == {"speech", "pause", "resume", "end"}

Detectors ==
    [inTurn : BOOLEAN, onset : 0..OnsetFrames, silence : 0..MaxSilence,
     nextAsk : Nat, asking : BOOLEAN, paused : BOOLEAN]

NewDetector ==
    [inTurn |-> FALSE, onset |-> 0, silence |-> 0,
     nextAsk |-> MinSilence, asking |-> FALSE, paused |-> FALSE]

ResetPause(d) == [d EXCEPT !.silence = 0, !.nextAsk = MinSilence, !.paused = FALSE]

Outcome(d, s) == [det |-> d, signals |-> s]

Ended(d) == Outcome([ResetPause(d) EXCEPT !.inTurn = FALSE, !.asking = FALSE], <<"end">>)

\* An ask announces a tentative end of turn, once per pause.
StartAsk(d) ==
    Outcome([d EXCEPT !.asking = TRUE, !.paused = TRUE, !.nextAsk = d.silence + Reask],
            IF d.paused THEN <<>> ELSE <<"pause">>)

OnSpeech(d) ==
    IF d.inTurn
    THEN Outcome(ResetPause(d), IF d.paused THEN <<"resume">> ELSE <<>>)
    ELSE IF d.onset + 1 < OnsetFrames
         THEN Outcome([d EXCEPT !.onset = d.onset + 1], <<>>)
         ELSE Outcome([ResetPause(d) EXCEPT !.inTurn = TRUE, !.onset = 0], <<"speech">>)

OnSilence(d) ==
    IF ~d.inTurn
    THEN Outcome([d EXCEPT !.onset = 0], <<>>)
    ELSE LET e == [d EXCEPT !.silence = d.silence + 1]
         IN  IF e.silence >= MaxSilence THEN Ended(e)
             ELSE IF e.silence >= e.nextAsk THEN StartAsk(e)
             ELSE Outcome(e, <<>>)

\* Smart Turn says the caller is done, or that the turn goes on (or fails).
SettleAsk(d, done) ==
    IF done THEN Ended(d) ELSE Outcome([d EXCEPT !.asking = FALSE], <<>>)

\* The words of a new phrase reach the recogniser with this speech frame.
OpensPhrase(d) ==
    IF d.inTurn THEN d.silence > 0 ELSE d.onset + 1 >= OnsetFrames
================================================================================
