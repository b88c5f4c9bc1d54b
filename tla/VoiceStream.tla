------------------------------ MODULE VoiceStream ------------------------------
(***************************************************************************)
(* What every RealtimeBridge promises the runtime about its event stream   *)
(* (external/voice/conversation/contract.py): the text of one agent reply  *)
(* grows until TurnEnded closes it, replies never overlap, a reply that    *)
(* the caller cut off is still closed, and SessionClosed is the last event.*)
(***************************************************************************)
EXTENDS Naturals

VARIABLES
    shown,    \* length of the open reply's text, 0 when no reply is open
    cut,      \* the caller began to speak over the open reply
    closed    \* SessionClosed has been sent

streamVars == <<shown, cut, closed>>

StreamInit == shown = 0 /\ cut = FALSE /\ closed = FALSE

\* AgentTranscript(is_final=False): the whole text so far, longer every time.
Show == ~closed /\ shown' > shown /\ shown' \in Nat /\ UNCHANGED <<cut, closed>>

\* SpeechStarted: the caller speaks.
Speech == ~closed /\ cut' = (shown # 0) /\ UNCHANGED <<shown, closed>>

\* AgentTranscript(is_final=True) and TurnEnded.
End == ~closed /\ shown' = 0 /\ cut' = FALSE /\ UNCHANGED closed

Close == ~closed /\ closed' = TRUE /\ UNCHANGED <<shown, cut>>

StreamNext == Show \/ Speech \/ End \/ Close

\* The half cascade mutes a cut reply until its TurnEnded (half_cascade.py),
\* so a cut reply that never ended would silence the agent for good.
StreamSpec ==
    /\ StreamInit
    /\ [][StreamNext]_streamVars
    /\ cut ~> (~cut \/ closed)
================================================================================
