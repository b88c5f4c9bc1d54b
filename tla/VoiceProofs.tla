------------------------------ MODULE VoiceProofs ------------------------------
(***************************************************************************)
(* Proofs about voice calls.                                               *)
(* VoiceCalls: for any number of calls, with or without avatars, any       *)
(* ceiling, balance and length of a call, nobody is left in a room and the *)
(* calls explain the balance.                                              *)
(* SpokenReply: for any number of turns, any length of replies and any     *)
(* moment of a barge-in, a cut reply stays silent, every character is      *)
(* billed once, and the bridge keeps the event stream it promises.         *)
(***************************************************************************)
EXTENDS VoiceCalls, SpokenReply, Sums, TLAPS

-----------------------------------------------------------------------------
(* VoiceCalls. *)

\* What a call holds, by where its handler stands. A room is being joined only
\* while the call connects, and open only until the handler's finally; the
\* bridge is closed before on_stopped.
HoldingInv ==
    \A c \in Calls :
        /\ media[c] = "joining" => phase[c] = "connecting"
        /\ media[c] = "open" =>
              phase[c] \in {"connecting", "live", "stopping", "stopped", "closing"}
        /\ phase[c] \in {"stopped", "hook"} => bridge[c] = "closed"

\* A row is there from Open on, and closed only by the closing transaction.
RowInv ==
    \A c \in Calls :
        /\ phase[c] \in {"idle", "setup", "checked", "refused"} => row[c] = "none"
        /\ phase[c] \in {"connecting", "live", "stopping", "stopped", "hook", "closing", "writing"}
              => row[c] = "active"
        /\ phase[c] = "done" <=> row[c] \in {"completed", "failed"}

\* What has left the balance for a call and what was left owing.
ChargeInv ==
    \A c \in Calls :
        /\ phase[c] = "done" => charged[c] + shortfall[c] = minutes[c]
        /\ phase[c] # "done" => charged[c] = 0 /\ shortfall[c] = 0
        /\ shortfall[c] > 0 => balance < Floor

CallsInv == TypeOK /\ HoldingInv /\ RowInv /\ ChargeInv

LEMMA InitCalls == CallsInit => CallsInv
BY CallsAssumption DEF CallsInit, CallsInv, TypeOK, HoldingInv, RowInv, ChargeInv, Phases, Floor

\* The variables' types, one step for each action.
LEMMA NextTypes == CallsInv /\ [CallsNext]_callVars => TypeOK'
<1> SUFFICES ASSUME CallsInv, [CallsNext]_callVars PROVE TypeOK'
  OBVIOUS
<1> USE DEF CallsInv, TypeOK, Phases, Goto, Elapses, mediaVars, moneyVars
<1>1. ASSUME NEW c \in Calls, Accept(c) \/ Check(c) \/ Open(c) PROVE TypeOK'
  BY <1>1 DEF Accept, Check, Open
<1>2. ASSUME NEW c \in Calls, BridgeConnects(c) \/ AvatarJoins(c) \/ ConnectFails(c) \/ Connected(c)
      PROVE TypeOK'
  BY <1>2 DEF BridgeConnects, AvatarJoins, ConnectFails, Connected
<1>3. ASSUME NEW c \in Calls, CallEnds(c) \/ CloseBridge(c) \/ StopMedia(c) \/ HookRuns(c)
      PROVE TypeOK'
  BY <1>3, CallsAssumption DEF CallEnds, CloseBridge, StopMedia, HookRuns
<1>4. ASSUME NEW c \in Calls, ReadAgent(c) \/ CloseFails(c) PROVE TypeOK'
  BY <1>4 DEF ReadAgent, CloseFails
<1>4a. ASSUME NEW c \in Calls, Age(c) PROVE TypeOK'
  BY <1>4a DEF Age
<1>5. ASSUME NEW c \in Calls, CloseCall(c) PROVE TypeOK'
  BY <1>5 DEF CloseCall
<1>6. CASE Crash
  BY <1>6 DEF Crash, InProcess
<1>7. CASE UNCHANGED callVars
  BY <1>7 DEF callVars
<1> QED BY <1>1, <1>2, <1>3, <1>4, <1>4a, <1>5, <1>6, <1>7 DEF CallsNext, Step

LEMMA NextHoldings == CallsInv /\ [CallsNext]_callVars => HoldingInv'
<1> SUFFICES ASSUME CallsInv, [CallsNext]_callVars PROVE HoldingInv'
  OBVIOUS
<1> USE DEF CallsInv, TypeOK, Phases, Goto, Elapses, mediaVars, moneyVars, HoldingInv
<1>1. ASSUME NEW c \in Calls, Accept(c) \/ Check(c) \/ Open(c) PROVE HoldingInv'
  BY <1>1 DEF Accept, Check, Open
<1>2. ASSUME NEW c \in Calls, BridgeConnects(c) \/ AvatarJoins(c) \/ ConnectFails(c) \/ Connected(c)
      PROVE HoldingInv'
  BY <1>2 DEF BridgeConnects, AvatarJoins, ConnectFails, Connected
<1>3. ASSUME NEW c \in Calls, CallEnds(c) \/ CloseBridge(c) \/ StopMedia(c) \/ HookRuns(c)
      PROVE HoldingInv'
  BY <1>3 DEF CallEnds, CloseBridge, StopMedia, HookRuns
<1>4. ASSUME NEW c \in Calls, ReadAgent(c) \/ CloseCall(c) \/ CloseFails(c) \/ Age(c)
      PROVE HoldingInv'
  BY <1>4 DEF ReadAgent, CloseCall, CloseFails, Age
<1>5. CASE Crash
  BY <1>5 DEF Crash, InProcess
<1>6. CASE UNCHANGED callVars
  BY <1>6 DEF callVars
<1> QED BY <1>1, <1>2, <1>3, <1>4, <1>5, <1>6 DEF CallsNext, Step

LEMMA NextRows == CallsInv /\ [CallsNext]_callVars => RowInv'
<1> SUFFICES ASSUME CallsInv, [CallsNext]_callVars PROVE RowInv'
  OBVIOUS
<1> USE DEF CallsInv, TypeOK, Phases, Goto, Elapses, mediaVars, moneyVars, RowInv
<1>1. ASSUME NEW c \in Calls, Accept(c) \/ Check(c) \/ Open(c) PROVE RowInv'
  BY <1>1 DEF Accept, Check, Open
<1>2. ASSUME NEW c \in Calls, BridgeConnects(c) \/ AvatarJoins(c) \/ ConnectFails(c) \/ Connected(c)
      PROVE RowInv'
  BY <1>2 DEF BridgeConnects, AvatarJoins, ConnectFails, Connected
<1>3. ASSUME NEW c \in Calls, CallEnds(c) \/ CloseBridge(c) \/ StopMedia(c) \/ HookRuns(c)
      PROVE RowInv'
  BY <1>3 DEF CallEnds, CloseBridge, StopMedia, HookRuns
<1>4. ASSUME NEW c \in Calls, ReadAgent(c) \/ CloseCall(c) \/ CloseFails(c) \/ Age(c)
      PROVE RowInv'
  BY <1>4 DEF ReadAgent, CloseCall, CloseFails, Age
<1>5. CASE Crash
  BY <1>5 DEF Crash, InProcess
<1>6. CASE UNCHANGED callVars
  BY <1>6 DEF callVars
<1> QED BY <1>1, <1>2, <1>3, <1>4, <1>5, <1>6 DEF CallsNext, Step

LEMMA NextCharges == CallsInv /\ [CallsNext]_callVars => ChargeInv'
<1> SUFFICES ASSUME CallsInv, [CallsNext]_callVars PROVE ChargeInv'
  OBVIOUS
<1> USE DEF CallsInv, TypeOK, Phases, Goto, Elapses, mediaVars, moneyVars, ChargeInv
<1>1. ASSUME NEW c \in Calls, Accept(c) \/ Check(c) \/ Open(c) PROVE ChargeInv'
  BY <1>1 DEF Accept, Check, Open
<1>2. ASSUME NEW c \in Calls, BridgeConnects(c) \/ AvatarJoins(c) \/ ConnectFails(c) \/ Connected(c)
      PROVE ChargeInv'
  BY <1>2 DEF BridgeConnects, AvatarJoins, ConnectFails, Connected
<1>3. ASSUME NEW c \in Calls, CallEnds(c) \/ CloseBridge(c) \/ StopMedia(c) \/ HookRuns(c)
      PROVE ChargeInv'
  BY <1>3 DEF CallEnds, CloseBridge, StopMedia, HookRuns
<1>4. ASSUME NEW c \in Calls, ReadAgent(c) \/ CloseFails(c) \/ Age(c) PROVE ChargeInv'
  BY <1>4 DEF ReadAgent, CloseFails, Age
<1>5. ASSUME NEW c \in Calls, CloseCall(c) PROVE ChargeInv'
  <2>1. PICK taken \in Nat :
          /\ taken = (IF minutes[c] < balance THEN minutes[c] ELSE balance)
          /\ taken <= balance /\ taken <= minutes[c]
          /\ taken < minutes[c] => taken = balance
    OBVIOUS
  <2>2. /\ balance' = balance - taken /\ minutes' = minutes
        /\ charged' = [charged EXCEPT ![c] = taken]
        /\ shortfall' = [shortfall EXCEPT ![c] = minutes[c] - taken]
        /\ phase' = [phase EXCEPT ![c] = "done"]
    BY <1>5, <2>1 DEF CloseCall
  <2>3. minutes[c] - taken > 0 => balance' < Floor
    BY <2>1, <2>2 DEF Floor
  <2>4. balance < Floor => balance' < Floor
    BY <2>1, <2>2 DEF Floor
  <2> QED BY <2>1, <2>2, <2>3, <2>4
<1>6. CASE Crash
  BY <1>6 DEF Crash, InProcess
<1>7. CASE UNCHANGED callVars
  BY <1>7 DEF callVars
<1> QED BY <1>1, <1>2, <1>3, <1>4, <1>5, <1>6, <1>7 DEF CallsNext, Step

THEOREM CallsInvariant == CallsSpec => []CallsInv
<1>1. CallsInv /\ [CallsNext]_callVars => CallsInv'
  BY NextTypes, NextHoldings, NextRows, NextCharges DEF CallsInv
<1> QED BY InitCalls, <1>1, PTL DEF CallsSpec

\* No call leaves its avatar in a room behind it, whichever step failed (connect,
\* on_stopped and the handler's finally in runtime.py and voice_sessions.py).
THEOREM NobodyLeftInTheRoom == CallsSpec => []NoAvatarLeftBehind
<1>1. CallsInv => NoAvatarLeftBehind
  BY DEF CallsInv, TypeOK, HoldingInv, NoAvatarLeftBehind
<1> QED BY CallsInvariant, <1>1, PTL

\* What the calls were charged is what is gone from the balance.
BooksInv == balance + SumFunctionOnSet(charged, Calls) = Credits

\* Nothing has been charged when nothing has been placed.
LEMMA InitBooks == CallsInit => BooksInv
<1> SUFFICES ASSUME CallsInit PROVE BooksInv
  OBVIOUS
<1>1. SumFunctionOnSet(charged, Calls) = 0
  BY CallsAssumption, SumZero DEF CallsInit
<1> QED BY <1>1, CallsAssumption DEF CallsInit, BooksInv

\* Only the closing of a call moves money, and what it takes it charges.
LEMMA NextBooks == CallsInv /\ BooksInv /\ [CallsNext]_callVars => BooksInv'
<1> SUFFICES ASSUME CallsInv, BooksInv, [CallsNext]_callVars PROVE BooksInv'
  OBVIOUS
<1>1. ASSUME NEW c \in Calls, CloseCall(c) PROVE BooksInv'
  <2>1. PICK taken \in Nat : /\ taken <= balance
                             /\ balance' = balance - taken
                             /\ charged' = [charged EXCEPT ![c] = taken]
    <3>1. minutes[c] \in Nat /\ balance \in Nat
      BY DEF CallsInv, TypeOK
    <3>2. PICK taken : taken = (IF minutes[c] < balance THEN minutes[c] ELSE balance)
      OBVIOUS
    <3>3. taken \in Nat /\ taken <= balance
      BY <3>1, <3>2
    <3> QED BY <1>1, <3>2, <3>3 DEF CloseCall
  <2>2. charged[c] = 0
    BY <1>1 DEF CloseCall, Goto, CallsInv, ChargeInv
  <2>3. charged \in [Calls -> Nat] /\ charged' \in [Calls -> Nat] /\ charged'[c] = taken
        /\ balance \in Nat
    BY <2>1 DEF CallsInv, TypeOK
  <2>4. SumFunctionOnSet(charged', Calls) + charged[c] = SumFunctionOnSet(charged, Calls) + charged'[c]
    <3>1. \A d \in Calls : /\ charged[d] \in Nat /\ charged'[d] \in Nat
                           /\ d # c => charged[d] = charged'[d]
      BY <2>1, <2>3
    <3>2. IsFiniteSet(Calls)
      BY CallsAssumption
    <3>3. PICK f, g : f = charged /\ g = charged'
      OBVIOUS
    <3> QED BY <3>1, <3>2, <3>3, SumChange
  <2>5. SumFunctionOnSet(charged, Calls) \in Nat /\ SumFunctionOnSet(charged', Calls) \in Nat
    BY <2>3, CallsAssumption, SumType
  <2>6. SumFunctionOnSet(charged', Calls) = SumFunctionOnSet(charged, Calls) + taken
    BY <2>2, <2>3, <2>4, <2>5
  <2> QED BY <2>1, <2>3, <2>5, <2>6 DEF BooksInv
<1>2. UNCHANGED <<balance, charged>> => BooksInv'
  BY DEF BooksInv
<1>3. ASSUME NEW c \in Calls, Step(c), ~CloseCall(c) PROVE UNCHANGED <<balance, charged>>
  BY <1>3 DEF Step, Accept, Check, Open, BridgeConnects, AvatarJoins, ConnectFails, Connected,
              CallEnds, CloseBridge, StopMedia, HookRuns, ReadAgent, CloseFails, Age, moneyVars
<1>4. Crash \/ UNCHANGED callVars => UNCHANGED <<balance, charged>>
  BY DEF Crash, callVars, moneyVars
<1> QED BY <1>1, <1>2, <1>3, <1>4 DEF CallsNext

\* A call is charged by its closing only, for every minute of it, and the balance
\* is not enough for another call once one has run short (close_session, _charge).
THEOREM ChargedWhenClosed == CallsSpec => []CallsAccounted
<1>1. CallsInv => CallsAccounted
  BY DEF CallsInv, TypeOK, RowInv, ChargeInv, CallsAccounted
<1> QED BY CallsInvariant, <1>1, PTL

\* Whatever fails or crashes, what left the organization's balance is the sum of
\* what its closed calls were charged (close_session, _charge).
THEOREM BalanceExplained == CallsSpec => []ClosedCallsExplainBalance
<1>1. CallsInit => CallsInv /\ BooksInv
  BY InitCalls, InitBooks
<1>2. CallsInv /\ BooksInv /\ [CallsNext]_callVars => (CallsInv /\ BooksInv)'
  BY NextTypes, NextHoldings, NextRows, NextCharges, NextBooks DEF CallsInv
<1>3. CallsInv /\ BooksInv => ClosedCallsExplainBalance
  BY DEF CallsInv, TypeOK, RowInv, ChargeInv, CallsAccounted, BooksInv, ClosedCallsExplainBalance
<1> QED BY <1>1, <1>2, <1>3, PTL DEF CallsSpec

-----------------------------------------------------------------------------
(* SpokenReply: types and control. *)

Modes == {"none", "opening", "open", "flushing"}
Sessions == [mode : Modes, turn : Int, sent : Nat, voiced : Nat]
PendingSteps == [kind : {"count", "end"}, value : Nat]
Events ==
    [kind : {"audio", "speech", "error", "closed"}, value : Int]
        \cup [kind : {"ended"}, value : [turn : Nat, chars : Nat]]

\* Every variable has its type.
SpokenType ==
    /\ shown \in Nat /\ cut \in BOOLEAN /\ closed \in BOOLEAN
    /\ pc \in {"idle", "drain", "open", "closing", "dead"}
    /\ job \in [text : Nat, final : BOOLEAN]
    /\ turn \in Nat /\ cancelled \in Int /\ spoken \in Nat
    /\ tts \in Sessions /\ after \in Seq(PendingSteps) /\ chars \in Nat
    /\ out \in Seq(Events)
    /\ told \in Int /\ billed \in Nat /\ sent \in Nat
    /\ speaking \in BOOLEAN /\ over \in BOOLEAN /\ failed \in BOOLEAN
    /\ outShown \in Nat /\ outCut \in BOOLEAN /\ outClosed \in BOOLEAN

\* Where the pump may stand: a session is opened once nothing is pending, for a turn
\* that was not cut; a tail to speak belongs to a reply with text.
PumpInv ==
    /\ pc \in {"open", "dead"} => after = <<>>
    /\ pc \in {"idle", "closing"} => ~job.final
    /\ pc \in {"drain", "open"} => cancelled # turn /\ (job.final \/ shown > 0)
    /\ pc = "drain" => tts.mode \in {"none", "flushing"}
    /\ pc = "open" => tts.mode \in {"none", "opening"}
    /\ cancelled <= turn /\ (cancelled = turn => after = <<>>)
    /\ ~job.final => spoken <= shown

\* Which session there is: one that is opening or open speaks the current turn, which
\* was not cut and has text; one that flushes is of an earlier turn, and the step
\* that counts it is the next.
SessionInv ==
    /\ tts.mode = "none" => tts.turn = NoTurn
    /\ tts.mode = "opening" => pc \in {"open", "dead"}
    /\ tts.mode \in {"opening", "open"} => after = <<>> /\ tts.turn = turn /\ cancelled # turn
    /\ tts.mode = "open" => shown > 0
    /\ tts.mode = "flushing" => tts.turn < turn /\ after # <<>> /\ Head(after).kind = "count"

ControlInv == SpokenType /\ PumpInv /\ SessionInv


LEMMA InitControl == Init => ControlInv
<1> SUFFICES ASSUME Init PROVE ControlInv
  OBVIOUS
<1>1. NoTts \in Sessions /\ NoTts.mode = "none" /\ NoTts.turn = NoTurn /\ NoTurn \in Int /\ NoTurn < 0
  BY DEF NoTts, NoTurn, Sessions, Modes
<1>2. NoJob \in [text : Nat, final : BOOLEAN] /\ NoJob.final = FALSE
  BY DEF NoJob
<1>3. SpokenType
  <2>1. /\ shown \in Nat /\ cut \in BOOLEAN /\ closed \in BOOLEAN
        /\ pc \in {"idle", "drain", "open", "closing", "dead"}
        /\ job \in [text : Nat, final : BOOLEAN]
    BY <1>2 DEF Init, StreamInit
  <2>2. /\ turn \in Nat /\ cancelled \in Int /\ spoken \in Nat
        /\ tts \in Sessions /\ after \in Seq(PendingSteps) /\ chars \in Nat
        /\ out \in Seq(Events)
    BY <1>1 DEF Init
  <2>3. /\ told \in Int /\ billed \in Nat /\ sent \in Nat
        /\ speaking \in BOOLEAN /\ over \in BOOLEAN /\ failed \in BOOLEAN
        /\ outShown \in Nat /\ outCut \in BOOLEAN /\ outClosed \in BOOLEAN
    BY <1>1 DEF Init
  <2> QED BY <2>1, <2>2, <2>3 DEF SpokenType
<1>4. PumpInv
  BY <1>1, <1>2 DEF Init, StreamInit, PumpInv
<1>5. SessionInv
  BY <1>1 DEF Init, SessionInv
<1> QED BY <1>3, <1>4, <1>5 DEF ControlInv

-----------------------------------------------------------------------------
(* The shared parts of the actions. *)

LEMMA PutType ==
    ASSUME SpokenType, NEW kind, NEW value, Put(kind, value),
           [kind |-> kind, value |-> value] \in Events
    PROVE  out' \in Seq(Events)
BY DEF SpokenType, Put

LEMMA AbortType ==
    ASSUME SpokenType, AbortSpeech(chars) PROVE chars' \in Nat /\ tts' = NoTts /\ tts' \in Sessions
BY DEF SpokenType, AbortSpeech, Sessions, Modes, NoTts, NoTurn

LEMMA EndTurnType ==
    ASSUME SpokenType, EndTurn
    PROVE  /\ chars' \in Nat /\ outShown' \in Nat /\ outCut' \in BOOLEAN
           /\ out' \in Seq(Events) /\ after' \in Seq(PendingSteps)
           /\ after = <<>> => after' = <<>>
           /\ after # <<>> => after' # <<>> /\ Head(after') = Head(after)
<1>1. CASE after = <<>>
  <2>1. [kind |-> "ended", value |-> [turn |-> turn, chars |-> chars]] \in Events
    BY DEF SpokenType, Events
  <2>2. out' \in Seq(Events)
    BY <1>1, <2>1, PutType DEF EndTurn
  <2>3. chars' = 0 /\ outShown' = 0 /\ outCut' = FALSE /\ after' = after
    BY <1>1 DEF EndTurn
  <2> QED BY <1>1, <2>2, <2>3 DEF SpokenType
<1>2. CASE after # <<>>
  <2>1. PICK step : step = [kind |-> "end", value |-> turn]
    OBVIOUS
  <2>2. step \in PendingSteps
    BY <2>1 DEF SpokenType, PendingSteps
  <2>3. after' = Append(after, step)
    BY <1>2, <2>1 DEF EndTurn
  <2>4. after' \in Seq(PendingSteps) /\ after' # <<>> /\ Head(after') = Head(after)
    BY <1>2, <2>2, <2>3 DEF SpokenType
  <2> QED BY <1>2, <2>4 DEF EndTurn, SpokenType
<1> QED BY <1>1, <1>2

LEMMA FlushType ==
    ASSUME SpokenType, tts.mode \in {"opening", "open"}, after = <<>>, FlushAndEnd(tts)
    PROVE  /\ tts' \in Sessions /\ tts'.mode = "flushing" /\ tts'.turn = tts.turn
           /\ after' = <<[kind |-> "count", value |-> tts.sent], [kind |-> "end", value |-> turn]>>
           /\ after' \in Seq(PendingSteps) /\ after' # <<>> /\ Head(after').kind = "count"
           /\ turn' = turn + 1 /\ spoken' = 0
           /\ UNCHANGED <<chars, out, outShown, outCut>>
<1>1. PICK tally, end : tally = [kind |-> "count", value |-> tts.sent] /\ end = [kind |-> "end", value |-> turn]
  OBVIOUS
<1>2. tally \in PendingSteps /\ end \in PendingSteps /\ tally.kind = "count"
  BY <1>1 DEF SpokenType, Sessions, PendingSteps
<1>3. after' = <<tally, end>>
  BY <1>1 DEF FlushAndEnd
<1>4. after' \in Seq(PendingSteps) /\ after' # <<>> /\ Head(after') = tally
  BY <1>2, <1>3
<1>5. tts' \in Sessions /\ tts'.mode = "flushing" /\ tts'.turn = tts.turn
  BY DEF FlushAndEnd, SpokenType, Sessions, Modes
<1> QED BY <1>1, <1>2, <1>3, <1>4, <1>5 DEF FlushAndEnd, NextTurn

LEMMA SendTailType ==
    ASSUME SpokenType, NEW text \in Nat, SendTail(text)
    PROVE  /\ tts' \in Sessions /\ tts'.mode = "open" /\ tts'.turn = tts.turn
           /\ tts'.sent = tts.sent + text /\ sent' = sent + text /\ sent' \in Nat
<1>1. PICK m \in Modes, u \in Int, s \in Nat, v \in Nat :
        tts = [mode |-> m, turn |-> u, sent |-> s, voiced |-> v]
  BY DEF SpokenType, Sessions
<1>2. tts' = [mode |-> "open", turn |-> u, sent |-> s + text, voiced |-> v]
  BY <1>1 DEF SendTail
<1>3. sent' = sent + text /\ sent' \in Nat
  BY DEF SendTail, SpokenType
<1> QED BY <1>1, <1>2, <1>3 DEF Sessions, Modes

-----------------------------------------------------------------------------
(* The pump. *)

LEMMA InnerTextControl == ControlInv /\ InnerText => ControlInv'
<1> SUFFICES ASSUME ControlInv, InnerText PROVE ControlInv'
  OBVIOUS
<1> USE DEF ControlInv
<1>1. /\ pc = "idle" /\ shown' \in Nat /\ shown' > shown /\ shown' - spoken \in Nat
      /\ UNCHANGED <<cut, closed, turn, cancelled, after, chars, out, failed, speaking, told, billed,
                     over, outCut, outClosed>>
  <2>1. /\ pc = "idle" /\ shown' \in Nat /\ shown' > shown
        /\ UNCHANGED <<cut, closed, turn, cancelled, after, chars, out, failed, speaking, told, billed,
                       over, outCut, outClosed>>
    BY DEF InnerText, Show, runtimeVars
  <2>2. spoken <= shown /\ spoken \in Nat /\ shown \in Nat
    BY <2>1 DEF PumpInv, SpokenType
  <2>3. shown' \in Nat /\ shown' > shown
    BY <2>1
  <2>4. shown' - spoken \in Nat
    <3>1. \A a, b, c \in Nat : a > b /\ c <= b => a - c \in Nat
      OBVIOUS
    <3> QED BY <2>2, <2>3, <3>1
  <2> QED BY <2>1, <2>4
<1>2. CASE Muted
  <2>1. outShown' = shown' /\ UNCHANGED <<pc, job, spoken, tts, sent>>
    BY <1>2 DEF InnerText
  <2> QED BY <1>1, <2>1 DEF SpokenType, PumpInv, SessionInv
<1>3. CASE ~Muted /\ tts.mode = "open"
  <2>1. outShown' = shown' /\ spoken' = shown' /\ UNCHANGED <<pc, job>> /\ SendTail(shown' - spoken)
    BY <1>3 DEF InnerText
  <2>2. /\ tts' \in Sessions /\ tts'.mode = "open" /\ tts'.turn = tts.turn /\ sent' \in Nat
    BY <1>1, <2>1, SendTailType
  <2> QED BY <1>1, <1>3, <2>1, <2>2 DEF SpokenType, PumpInv, SessionInv
<1>4. CASE ~Muted /\ tts.mode # "open"
  <2>1. /\ pc' = "drain" /\ job' = [text |-> shown' - spoken, final |-> FALSE] /\ spoken' = shown'
        /\ UNCHANGED <<tts, sent, outShown>>
    BY <1>4 DEF InnerText
  <2>2. tts.mode \in {"none", "flushing"} /\ cancelled # turn
    BY <1>1, <1>4 DEF SpokenType, Sessions, Modes, SessionInv, Muted
  <2>3. PICK tail \in Nat : tail = shown' - spoken
    BY <1>1
  <2>4. job' = [text |-> tail, final |-> FALSE]
    BY <2>1, <2>3
  <2>5. shown \in Nat
    BY DEF SpokenType
  <2>6. job' \in [text : Nat, final : BOOLEAN] /\ job'.final = FALSE /\ shown' > 0 /\ spoken' <= shown'
        /\ spoken' \in Nat
    BY <1>1, <2>1, <2>4, <2>5
  <2> QED BY <1>1, <2>1, <2>2, <2>6 DEF SpokenType, PumpInv, SessionInv
<1> QED BY <1>2, <1>3, <1>4

LEMMA InnerEndControl == ControlInv /\ InnerEnd => ControlInv'
<1> SUFFICES ASSUME ControlInv, InnerEnd PROVE ControlInv'
  OBVIOUS
<1> USE DEF ControlInv
<1>1. /\ pc = "idle" /\ shown' = 0 /\ cut' = FALSE
      /\ UNCHANGED <<closed, cancelled, failed, sent, speaking, told, billed, over, outClosed>>
  BY DEF InnerEnd, End, runtimeVars
<1>2. CASE shown = 0 \/ Muted
  <2>1. EndTurn /\ turn' = turn + 1 /\ spoken' = 0 /\ UNCHANGED <<pc, job, tts>>
    BY <1>2 DEF InnerEnd, NextTurn
  <2>2. /\ chars' \in Nat /\ outShown' \in Nat /\ outCut' \in BOOLEAN
        /\ out' \in Seq(Events) /\ after' \in Seq(PendingSteps)
        /\ after = <<>> => after' = <<>>
        /\ after # <<>> => after' # <<>> /\ Head(after') = Head(after)
    BY <2>1, EndTurnType
  <2>3. tts.mode \notin {"opening", "open"}
    BY <1>1, <1>2 DEF SessionInv, Muted
  <2>4. turn' \in Nat /\ turn' > turn
    BY <2>1 DEF SpokenType
  <2>5. SpokenType'
    BY <1>1, <2>1, <2>2, <2>4 DEF SpokenType
  <2>6. PumpInv'
    BY <1>1, <2>1, <2>2, <2>4 DEF SpokenType, PumpInv
  <2>7. SessionInv'
    BY <1>1, <2>1, <2>2, <2>3, <2>4 DEF SpokenType, SessionInv, Sessions
  <2> QED BY <2>5, <2>6, <2>7
<1>3. CASE ~(shown = 0 \/ Muted) /\ tts.mode = "open"
  <2>1. FlushAndEnd(tts) /\ UNCHANGED <<pc, job>>
    BY <1>3 DEF InnerEnd
  <2>2. after = <<>> /\ tts.turn = turn
    BY <1>3 DEF SessionInv
  <2>3. /\ tts' \in Sessions /\ tts'.mode = "flushing" /\ tts'.turn = tts.turn
        /\ after' \in Seq(PendingSteps) /\ after' # <<>> /\ Head(after').kind = "count"
        /\ turn' = turn + 1 /\ spoken' = 0
        /\ UNCHANGED <<chars, out, outShown, outCut>>
    BY <1>3, <2>1, <2>2, FlushType
  <2>4. turn' \in Nat /\ turn' > turn
    BY <2>3 DEF SpokenType
  <2>5. SpokenType'
    BY <1>1, <2>1, <2>3, <2>4 DEF SpokenType
  <2>6. PumpInv'
    BY <1>1, <2>1, <2>3, <2>4 DEF SpokenType, PumpInv
  <2>7. SessionInv'
    BY <1>1, <2>1, <2>2, <2>3, <2>4 DEF SessionInv
  <2> QED BY <2>5, <2>6, <2>7
<1>4. CASE ~(shown = 0 \/ Muted) /\ tts.mode # "open"
  <2>1. /\ pc' = "drain" /\ job' = [text |-> 0, final |-> TRUE]
        /\ UNCHANGED <<turn, spoken, tts, after, chars, out, outShown, outCut>>
    BY <1>4 DEF InnerEnd
  <2> QED BY <1>1, <1>4, <2>1 DEF SpokenType, PumpInv, SessionInv, Sessions, Modes, Muted
<1> QED BY <1>2, <1>3, <1>4

LEMMA DrainedControl == ControlInv /\ Drained => ControlInv'
<1> SUFFICES ASSUME ControlInv, Drained PROVE ControlInv'
  OBVIOUS
<1>1. /\ pc = "drain" /\ after = <<>> /\ pc' = "open"
      /\ tts' = [mode |-> "opening", turn |-> turn, sent |-> 0, voiced |-> 0]
      /\ UNCHANGED <<shown, cut, closed, job, turn, cancelled, spoken, after, chars, out, failed, sent,
                     speaking, told, billed, over, outShown, outCut, outClosed>>
  BY DEF Drained, streamVars, runtimeVars, outerVars
<1>2. tts' \in Sessions /\ tts'.mode = "opening" /\ tts'.turn = turn
  BY <1>1 DEF ControlInv, SpokenType, Sessions, Modes
<1> QED BY <1>1, <1>2 DEF ControlInv, SpokenType, PumpInv, SessionInv

LEMMA OpenedControl == ControlInv /\ Opened => ControlInv'
<1> SUFFICES ASSUME ControlInv, Opened PROVE ControlInv'
  OBVIOUS
<1> USE DEF ControlInv
<1>1. /\ pc = "open" /\ after = <<>> /\ pc' = "idle" /\ job' = NoJob /\ ~job'.final
      /\ job' \in [text : Nat, final : BOOLEAN] /\ job.text \in Nat
      /\ tts.mode \in {"none", "opening"}
      /\ UNCHANGED <<shown, cut, closed, cancelled, failed, speaking, told, billed, over, outClosed>>
  BY DEF Opened, NoJob, PumpInv, SpokenType, streamVars, runtimeVars
<1>2. CASE tts.mode = "none" /\ job.final
  <2>1. EndTurn /\ turn' = turn + 1 /\ spoken' = 0 /\ UNCHANGED <<tts, sent>>
    BY <1>2 DEF Opened, NextTurn
  <2>2. /\ chars' \in Nat /\ outShown' \in Nat /\ outCut' \in BOOLEAN
        /\ out' \in Seq(Events) /\ after' \in Seq(PendingSteps) /\ after' = <<>>
    BY <1>1, <2>1, EndTurnType
  <2> QED BY <1>1, <1>2, <2>1, <2>2 DEF SpokenType, PumpInv, SessionInv
<1>3. CASE tts.mode = "none" /\ ~job.final
  <2>1. outShown' = shown /\ UNCHANGED <<tts, sent, turn, spoken, after, chars, out, outCut>>
    BY <1>3 DEF Opened
  <2> QED BY <1>1, <1>3, <2>1 DEF SpokenType, PumpInv, SessionInv
<1>4. CASE tts.mode # "none" /\ job.final
  <2>1. FlushAndEnd(tts) /\ UNCHANGED sent
    BY <1>4 DEF Opened
  <2>2. tts.mode \in {"opening", "open"} /\ tts.turn = turn
    BY <1>1, <1>4 DEF SessionInv
  <2>3. /\ tts' \in Sessions /\ tts'.mode = "flushing" /\ tts'.turn = tts.turn
        /\ after' \in Seq(PendingSteps) /\ after' # <<>> /\ Head(after').kind = "count"
        /\ turn' = turn + 1 /\ spoken' = 0
        /\ UNCHANGED <<chars, out, outShown, outCut>>
    BY <1>1, <2>1, <2>2, FlushType
  <2> QED BY <1>1, <2>1, <2>2, <2>3 DEF SpokenType, PumpInv, SessionInv
<1>5. CASE tts.mode # "none" /\ ~job.final
  <2>1. SendTail(job.text) /\ outShown' = shown /\ UNCHANGED <<turn, spoken, after, chars, out, outCut>>
    BY <1>5 DEF Opened
  <2>2. tts' \in Sessions /\ tts'.mode = "open" /\ tts'.turn = tts.turn /\ sent' \in Nat
    BY <1>1, <2>1, SendTailType
  <2> QED BY <1>1, <1>5, <2>1, <2>2 DEF SpokenType, PumpInv, SessionInv
<1> QED BY <1>2, <1>3, <1>4, <1>5

LEMMA InnerSpeechControl == ControlInv /\ InnerSpeech => ControlInv'
<1> SUFFICES ASSUME ControlInv, InnerSpeech PROVE ControlInv'
  OBVIOUS
<1> USE DEF ControlInv
<1>1. /\ pc = "idle" /\ cut' \in BOOLEAN /\ outCut' \in BOOLEAN
      /\ AbortSpeech(chars) /\ Put("speech", tts.turn)
      /\ IF tts.mode = "open"
         THEN cancelled' = turn /\ spoken' = 0
         ELSE UNCHANGED <<cancelled, spoken>>
      /\ UNCHANGED <<shown, closed, pc, job, turn, after, failed, sent, speaking, told, billed, over,
                     outShown, outClosed>>
  BY DEF InnerSpeech, Speech, runtimeVars
<1>2. chars' \in Nat /\ tts' = NoTts /\ tts' \in Sessions
  BY <1>1, AbortType
<1>3. [kind |-> "speech", value |-> tts.turn] \in Events
  BY DEF Events, SpokenType, Sessions
<1>4. out' \in Seq(Events)
  BY <1>1, <1>3, PutType
<1>5. tts'.mode = "none" /\ tts'.turn = NoTurn
  BY <1>2 DEF NoTts
<1>6. CASE tts.mode = "open"
  BY <1>1, <1>2, <1>4, <1>5, <1>6 DEF SpokenType, PumpInv, SessionInv
<1>7. CASE tts.mode # "open"
  BY <1>1, <1>2, <1>4, <1>5, <1>7 DEF SpokenType, PumpInv, SessionInv
<1> QED BY <1>6, <1>7

\* InnerClosed and OpenFails: only the pump's place changes.
LEMMA PumpMovesControl == ControlInv /\ (InnerClosed \/ OpenFails) => ControlInv'
<1> SUFFICES ASSUME ControlInv, InnerClosed \/ OpenFails PROVE ControlInv'
  OBVIOUS
<1>1. /\ (pc = "idle" /\ pc' = "closing") \/ (pc = "open" /\ pc' = "dead")
      /\ closed' = TRUE \/ closed' = closed
      /\ UNCHANGED <<shown, cut, job, turn, cancelled, spoken, tts, after, chars, out, failed, sent,
                     speaking, told, billed, over, outShown, outCut, outClosed>>
  BY DEF InnerClosed, Close, OpenFails, streamVars, runtimeVars, outerVars
<1>2. closed' \in BOOLEAN
  BY <1>1 DEF ControlInv, SpokenType
<1>3. SpokenType'
  BY <1>1, <1>2 DEF ControlInv, SpokenType
<1>4. PumpInv'
  BY <1>1 DEF ControlInv, PumpInv, SessionInv, SpokenType
<1>5. SessionInv'
  BY <1>1 DEF ControlInv, PumpInv, SessionInv
<1> QED BY <1>3, <1>4, <1>5 DEF ControlInv

LEMMA PumpEndsControl == ControlInv /\ PumpEnds => ControlInv'
<1> SUFFICES ASSUME ControlInv, PumpEnds PROVE ControlInv'
  OBVIOUS
<1>1. /\ pc = "closing" /\ after = <<>> /\ pc' = "dead" /\ outClosed' = TRUE /\ Put("closed", NoTurn)
      /\ UNCHANGED <<shown, cut, closed, job, turn, cancelled, spoken, tts, after, chars, failed, sent,
                     speaking, told, billed, over, outShown, outCut>>
  BY DEF PumpEnds, streamVars, runtimeVars
<1>2. [kind |-> "closed", value |-> NoTurn] \in Events
  BY DEF Events, NoTurn
<1>3. out' \in Seq(Events)
  BY <1>1, <1>2, PutType DEF ControlInv
<1> QED BY <1>1, <1>3 DEF ControlInv, SpokenType, PumpInv, SessionInv

-----------------------------------------------------------------------------
(* The session, the steps behind it and the runtime. *)

LEMMA AudioControl == ControlInv /\ Audio => ControlInv'
<1> SUFFICES ASSUME ControlInv, Audio PROVE ControlInv'
  OBVIOUS
<1>1. /\ tts' = [tts EXCEPT !.voiced = @ + 1] /\ Put("audio", tts.turn)
      /\ UNCHANGED <<shown, cut, closed, pc, job, turn, cancelled, spoken, after, chars, failed, sent,
                     speaking, told, billed, over, outShown, outCut, outClosed>>
  BY DEF Audio, streamVars, pumpVars, runtimeVars, outerVars
<1>2. [kind |-> "audio", value |-> tts.turn] \in Events
  BY DEF ControlInv, SpokenType, Sessions, Events
<1>3. out' \in Seq(Events)
  BY <1>1, <1>2, PutType DEF ControlInv
<1>4. tts' \in Sessions /\ tts'.mode = tts.mode /\ tts'.turn = tts.turn
  <2>1. tts' = [tts EXCEPT !.voiced = @ + 1] /\ tts \in Sessions
    BY <1>1 DEF ControlInv, SpokenType
  <2> QED BY <2>1 DEF Sessions
<1> QED BY <1>1, <1>3, <1>4 DEF ControlInv, SpokenType, PumpInv, SessionInv

LEMMA SpeechFailsControl == ControlInv /\ SpeechFails => ControlInv'
<1> SUFFICES ASSUME ControlInv, SpeechFails PROVE ControlInv'
  OBVIOUS
<1>1. /\ failed' = TRUE /\ Put("error", NoTurn)
      /\ UNCHANGED <<shown, cut, closed, pc, job, turn, cancelled, spoken, tts, after, chars, sent,
                     speaking, told, billed, over, outShown, outCut, outClosed>>
  BY DEF SpeechFails, streamVars, pumpVars, runtimeVars, outerVars
<1>2. [kind |-> "error", value |-> NoTurn] \in Events
  BY DEF Events, NoTurn
<1>3. out' \in Seq(Events)
  BY <1>1, <1>2, PutType DEF ControlInv
<1> QED BY <1>1, <1>3 DEF ControlInv, SpokenType, PumpInv, SessionInv

LEMMA FlushedControl == ControlInv /\ Flushed => ControlInv'
<1> SUFFICES ASSUME ControlInv, Flushed PROVE ControlInv'
  OBVIOUS
<1>1. /\ tts' = NoTts
      /\ UNCHANGED <<shown, cut, closed, pc, job, turn, cancelled, spoken, after, chars, out, failed, sent,
                     speaking, told, billed, over, outShown, outCut, outClosed>>
  BY DEF Flushed, streamVars, pumpVars, runtimeVars, outerVars
<1>2. tts' \in Sessions /\ tts'.mode = "none" /\ tts'.turn = NoTurn
  BY <1>1 DEF NoTts, NoTurn, Sessions, Modes
<1> QED BY <1>1, <1>2 DEF ControlInv, SpokenType, PumpInv, SessionInv

LEMMA CountControl == ControlInv /\ Count => ControlInv'
<1> SUFFICES ASSUME ControlInv, Count PROVE ControlInv'
  OBVIOUS
<1>1. /\ after # <<>> /\ tts.mode # "flushing" /\ chars' = chars + Head(after).value
      /\ after' = Tail(after)
      /\ UNCHANGED <<shown, cut, closed, pc, job, turn, cancelled, spoken, tts, out, failed, sent,
                     speaking, told, billed, over, outShown, outCut, outClosed>>
  BY DEF Count, streamVars, pumpVars, runtimeVars, outerVars
<1>2. after' \in Seq(PendingSteps) /\ Head(after) \in PendingSteps
  BY <1>1 DEF ControlInv, SpokenType
<1>3. chars' \in Nat
  BY <1>1, <1>2 DEF ControlInv, SpokenType, PendingSteps
<1> QED BY <1>1, <1>2, <1>3 DEF ControlInv, SpokenType, PumpInv, SessionInv, Sessions, Modes

LEMMA EndInOrderControl == ControlInv /\ EndInOrder => ControlInv'
<1> SUFFICES ASSUME ControlInv, EndInOrder PROVE ControlInv'
  OBVIOUS
<1>1. /\ after # <<>> /\ Head(after).kind = "end" /\ chars' = 0 /\ after' = Tail(after)
      /\ outShown' = 0 /\ outCut' = FALSE
      /\ Put("ended", [turn |-> Head(after).value, chars |-> chars])
      /\ UNCHANGED <<shown, cut, closed, pc, job, turn, cancelled, spoken, tts, failed, sent,
                     speaking, told, billed, over, outClosed>>
  BY DEF EndInOrder, streamVars, pumpVars, runtimeVars
<1>2. after' \in Seq(PendingSteps) /\ Head(after) \in PendingSteps
  BY <1>1 DEF ControlInv, SpokenType
<1>3. [kind |-> "ended", value |-> [turn |-> Head(after).value, chars |-> chars]] \in Events
  BY <1>2 DEF ControlInv, SpokenType, PendingSteps, Events
<1>4. out' \in Seq(Events)
  BY <1>1, <1>3, PutType DEF ControlInv
<1>5. tts.mode # "flushing"
  BY <1>1 DEF ControlInv, SessionInv
<1> QED BY <1>1, <1>2, <1>4, <1>5 DEF ControlInv, SpokenType, PumpInv, SessionInv, Sessions, Modes

LEMMA TakeType ==
    ASSUME SpokenType, NEW kind, Take(kind)
    PROVE  /\ ~over /\ out # <<>> /\ Head(out).kind = kind /\ Head(out) \in Events
           /\ out' = Tail(out) /\ out' \in Seq(Events)
BY DEF SpokenType, Take

LEMMA CallerSpeaksControl == ControlInv /\ CallerSpeaks => ControlInv'
<1> SUFFICES ASSUME ControlInv, CallerSpeaks PROVE ControlInv'
  OBVIOUS
<1>1. /\ Take("speech") /\ told' = Head(out).value /\ speaking' = FALSE
      /\ UNCHANGED <<shown, cut, closed, pc, job, turn, cancelled, spoken, after, failed, sent,
                     billed, over, outShown, outCut, outClosed>>
  BY DEF CallerSpeaks, streamVars, pumpVars, outerVars
<1>2. out' \in Seq(Events) /\ Head(out) \in Events /\ Head(out).kind = "speech"
  BY <1>1, TakeType DEF ControlInv
<1>3. told' \in Int
  BY <1>1, <1>2 DEF Events
<1>4. CASE AbortSpeech(chars)
  <2>1. chars' \in Nat /\ tts' \in Sessions /\ tts'.mode = "none" /\ tts'.turn = NoTurn
    BY <1>4, AbortType DEF ControlInv, NoTts
  <2>2. SpokenType'
    BY <1>1, <1>2, <1>3, <2>1 DEF ControlInv, SpokenType
  <2>3. PumpInv'
    BY <1>1, <2>1 DEF ControlInv, SpokenType, PumpInv
  <2>4. SessionInv'
    BY <1>1, <2>1 DEF ControlInv, SpokenType, SessionInv
  <2> QED BY <2>2, <2>3, <2>4 DEF ControlInv
<1>5. CASE UNCHANGED <<tts, chars>>
  <2>1. tts' = tts /\ chars' = chars
    BY <1>5
  <2>2. SpokenType'
    BY <1>1, <1>2, <1>3, <2>1 DEF ControlInv, SpokenType
  <2>3. PumpInv'
    BY <1>1, <2>1 DEF ControlInv, PumpInv
  <2>4. SessionInv'
    BY <1>1, <2>1 DEF ControlInv, SessionInv
  <2> QED BY <2>2, <2>3, <2>4 DEF ControlInv
<1>6. AbortSpeech(chars) \/ UNCHANGED <<tts, chars>>
  BY DEF CallerSpeaks
<1> QED BY <1>4, <1>5, <1>6

\* PlayAudio, TurnDone, Finished and HangUp touch only the runtime and the queue.
LEMMA RuntimeControl ==
    ControlInv /\ (PlayAudio \/ TurnDone \/ Finished \/ HangUp) => ControlInv'
<1> SUFFICES ASSUME ControlInv, PlayAudio \/ TurnDone \/ Finished \/ HangUp PROVE ControlInv'
  OBVIOUS
<1>1. UNCHANGED <<shown, cut, closed, pc, job, turn, cancelled, spoken, tts, after, chars, failed, sent,
                  told, outShown, outCut, outClosed>>
  BY DEF PlayAudio, TurnDone, Finished, HangUp, streamVars, pumpVars, outerVars
<1>2. out' \in Seq(Events) /\ speaking' \in BOOLEAN /\ over' \in BOOLEAN /\ billed' \in Nat
  <2>1. CASE PlayAudio
    BY <2>1, TakeType DEF PlayAudio, ControlInv, SpokenType
  <2>2. CASE TurnDone
    <3>1. out' \in Seq(Events) /\ Head(out) \in Events /\ Head(out).kind = "ended"
      BY <2>2, TakeType DEF TurnDone, ControlInv
    <3>2. Head(out).value.chars \in Nat
      BY <3>1 DEF Events
    <3>3. billed' = billed + Head(out).value.chars /\ speaking' = FALSE /\ over' = over
      BY <2>2 DEF TurnDone
    <3>4. over' \in BOOLEAN /\ speaking' \in BOOLEAN
      BY <3>3 DEF ControlInv, SpokenType
    <3>5. billed' \in Nat
      <4>1. billed \in Nat /\ billed' = billed + Head(out).value.chars
        BY <3>3 DEF ControlInv, SpokenType
      <4> QED BY <3>2, <4>1
    <3> QED BY <3>1, <3>4, <3>5
  <2>3. CASE Finished
    BY <2>3, TakeType DEF Finished, ControlInv, SpokenType
  <2>4. CASE HangUp
    BY <2>4 DEF HangUp, ControlInv, SpokenType
  <2> QED BY <2>1, <2>2, <2>3, <2>4
<1> QED BY <1>1, <1>2 DEF ControlInv, SpokenType, PumpInv, SessionInv

LEMMA NextControl == ControlInv /\ [Next]_vars => ControlInv'
<1>1. ControlInv /\ UNCHANGED vars => ControlInv'
  BY DEF vars, streamVars, pumpVars, runtimeVars, outerVars, ControlInv, SpokenType, PumpInv, SessionInv
<1> QED BY <1>1, InnerTextControl, InnerEndControl, InnerSpeechControl, PumpMovesControl,
           DrainedControl, OpenedControl, PumpEndsControl, AudioControl, SpeechFailsControl,
           FlushedControl, CountControl, EndInOrderControl, RuntimeControl, CallerSpeaksControl
        DEF Next

-----------------------------------------------------------------------------
(* No sound of a reply after the client was told to stop playing it. *)

\* The client was told, or is about to be told, to stop playing turn v.
Stopped(v) == told = v \/ \E i \in DOMAIN out : out[i].kind = "speech" /\ out[i].value = v

\* A turn that was stopped is over, or it is the current one and muted; and it is not
\* the turn whose flush is still running.
SilenceInv ==
    /\ \A v \in Int : Stopped(v) => v < turn \/ (v = turn /\ cancelled = turn)
    /\ tts.mode = "flushing" => ~Stopped(tts.turn)
    /\ CutReplyStaysSilent

LEMMA InitSilence == Init => SilenceInv
BY DEF Init, SilenceInv, Stopped, CutReplyStaysSilent, NoTts, NoTurn

\* The session that sounds is not of a stopped turn.
LEMMA SoundingNotStopped ==
    ControlInv /\ SilenceInv /\ tts.mode # "none" => ~Stopped(tts.turn)
<1> SUFFICES ASSUME ControlInv, SilenceInv, tts.mode # "none" PROVE ~Stopped(tts.turn)
  OBVIOUS
<1>1. CASE tts.mode = "flushing"
  BY <1>1 DEF SilenceInv
<1>2. CASE tts.mode # "flushing"
  <2>1. tts.mode \in {"opening", "open"}
    BY <1>2 DEF ControlInv, SpokenType, Sessions, Modes
  <2>2. tts.turn = turn /\ cancelled # turn /\ turn \in Int
    BY <2>1 DEF ControlInv, SessionInv, SpokenType
  <2> QED BY <2>2 DEF SilenceInv
<1> QED BY <1>1, <1>2

\* What a step that neither stops a turn nor sounds does with the queue.
QueueQuiet ==
    /\ told' = told
    /\ \/ out' = out
       \/ out' = Tail(out) /\ out # <<>>
       \/ \E e : out' = Append(out, e) /\ e.kind \notin {"audio", "speech"}

\* A session that flushes did so before, or was open.
SessionGoesOn ==
    tts'.mode = "flushing" => tts.mode # "none" /\ tts'.turn = tts.turn

LEMMA QuietQueue ==
    ASSUME ControlInv, CutReplyStaysSilent, QueueQuiet
    PROVE  CutReplyStaysSilent' /\ \A v : Stopped(v)' => Stopped(v)
<1>0. out \in Seq(Events)
  BY DEF ControlInv, SpokenType
<1>1. CASE out' = out
  BY <1>1 DEF QueueQuiet, Stopped, CutReplyStaysSilent
<1>2. CASE out' = Tail(out) /\ out # <<>>
  <2>1. \A i \in DOMAIN out' : i + 1 \in DOMAIN out /\ out'[i] = out[i + 1]
    BY <1>0, <1>2
  <2>2. told' = told
    BY DEF QueueQuiet
  <2>3. CutReplyStaysSilent'
    <3>1. ASSUME NEW j \in DOMAIN out', out'[j].kind = "audio"
          PROVE  /\ \A i \in 1..(j - 1) : out'[i].kind = "speech" => out'[i].value # out'[j].value
                 /\ told' # out'[j].value
      <4>1. j + 1 \in DOMAIN out /\ out[j + 1].kind = "audio" /\ out'[j].value = out[j + 1].value
        BY <2>1, <3>1
      <4>2. ASSUME NEW i \in 1..(j - 1), out'[i].kind = "speech" PROVE out'[i].value # out'[j].value
        <5>1. i \in DOMAIN out' /\ i + 1 \in 1..((j + 1) - 1)
          BY <1>0, <1>2, <3>1
        <5>2. out[i + 1].kind = "speech" /\ out'[i].value = out[i + 1].value
          BY <2>1, <4>2, <5>1
        <5> QED BY <4>1, <5>1, <5>2 DEF CutReplyStaysSilent
      <4> QED BY <2>2, <4>1, <4>2 DEF CutReplyStaysSilent
    <3> QED BY <3>1 DEF CutReplyStaysSilent
  <2> QED BY <2>1, <2>2, <2>3 DEF Stopped
<1>3. ASSUME NEW e, out' = Append(out, e), e.kind \notin {"audio", "speech"}
      PROVE  CutReplyStaysSilent' /\ \A v : Stopped(v)' => Stopped(v)
  <2>1. \A i \in DOMAIN out' : (i \in DOMAIN out /\ out'[i] = out[i]) \/ out'[i] = e
    BY <1>0, <1>3
  <2>2. \A j \in DOMAIN out : \A i \in 1..(j - 1) : i \in DOMAIN out /\ out'[i] = out[i]
    BY <1>0, <1>3
  <2>3. told' = told
    BY DEF QueueQuiet
  <2>4. CutReplyStaysSilent'
    BY <1>3, <2>1, <2>2, <2>3 DEF CutReplyStaysSilent
  <2> QED BY <1>3, <2>1, <2>3, <2>4 DEF Stopped
<1> QED BY <1>1, <1>2, <1>3 DEF QueueQuiet

LEMMA QuietSilence ==
    ASSUME ControlInv, SilenceInv, QueueQuiet, SessionGoesOn,
           turn' \in Nat, turn' > turn \/ (turn' = turn /\ cancelled' = cancelled)
    PROVE  SilenceInv'
<1>1. CutReplyStaysSilent' /\ \A v : Stopped(v)' => Stopped(v)
  BY QuietQueue DEF SilenceInv
<1>2. ASSUME NEW v \in Int, Stopped(v)' PROVE v < turn' \/ (v = turn' /\ cancelled' = turn')
  <2>1. v < turn \/ (v = turn /\ cancelled = turn)
    BY <1>1, <1>2 DEF SilenceInv
  <2>2. turn \in Nat
    BY DEF ControlInv, SpokenType
  <2> QED BY <2>1, <2>2
<1>3. tts'.mode = "flushing" => ~Stopped(tts.turn)'
  <2>1. SUFFICES ASSUME tts'.mode = "flushing", Stopped(tts.turn)' PROVE FALSE
    OBVIOUS
  <2>2. PICK v : v = tts.turn /\ v = tts'.turn /\ ~Stopped(v)
    BY <2>1, SoundingNotStopped DEF SessionGoesOn
  <2>3. Stopped(v)'
    BY <2>1, <2>2 DEF Stopped
  <2> QED BY <1>1, <2>2, <2>3
<1> QED BY <1>1, <1>2, <1>3 DEF SilenceInv, Stopped

\* SpeechStarted: the turn of the session it ends is stopped, and muted if it goes on.
LEMMA InnerSpeechSilence == ControlInv /\ SilenceInv /\ InnerSpeech => SilenceInv'
<1> SUFFICES ASSUME ControlInv, SilenceInv, InnerSpeech PROVE SilenceInv'
  OBVIOUS
<1>0. out \in Seq(Events) /\ turn \in Nat
  BY DEF ControlInv, SpokenType
<1>1. PICK e : e = [kind |-> "speech", value |-> tts.turn]
  OBVIOUS
<1>2. /\ pc = "idle" /\ out' = Append(out, e) /\ told' = told /\ turn' = turn /\ tts' = NoTts
      /\ cancelled' = (IF tts.mode = "open" THEN turn ELSE cancelled)
  BY <1>1 DEF InnerSpeech, Put, AbortSpeech, runtimeVars
<1>3. \A i \in DOMAIN out' : (i \in DOMAIN out /\ out'[i] = out[i]) \/ out'[i] = e
  BY <1>0, <1>2
<1>4. \A j \in DOMAIN out : \A i \in 1..(j - 1) : i \in DOMAIN out /\ out'[i] = out[i]
  BY <1>0, <1>2
<1>5. CutReplyStaysSilent'
  BY <1>1, <1>2, <1>3, <1>4 DEF SilenceInv, CutReplyStaysSilent
<1>6. tts'.mode = "none"
  BY <1>2 DEF NoTts
<1>7. \A v : Stopped(v)' => Stopped(v) \/ v = tts.turn
  BY <1>1, <1>2, <1>3 DEF Stopped
<1>8. tts.turn < turn \/ (tts.turn = turn /\ tts.mode = "open")
  BY <1>0, <1>2 DEF ControlInv, SpokenType, SessionInv, Sessions, Modes, NoTurn
<1>9. ASSUME NEW v \in Int, Stopped(v)' PROVE v < turn' \/ (v = turn' /\ cancelled' = turn')
  BY <1>2, <1>7, <1>8, <1>9 DEF SilenceInv
<1> QED BY <1>5, <1>6, <1>9 DEF SilenceInv, Stopped

LEMMA AudioSilence == ControlInv /\ SilenceInv /\ Audio => SilenceInv'
<1> SUFFICES ASSUME ControlInv, SilenceInv, Audio PROVE SilenceInv'
  OBVIOUS
<1>0. out \in Seq(Events)
  BY DEF ControlInv, SpokenType
<1>1. PICK e : e = [kind |-> "audio", value |-> tts.turn]
  OBVIOUS
<1>2. /\ out' = Append(out, e) /\ tts' = [tts EXCEPT !.voiced = @ + 1] /\ tts.mode # "none"
      /\ UNCHANGED <<told, turn, cancelled>>
  BY <1>1 DEF Audio, Put, pumpVars, runtimeVars
<1>3. tts'.mode = tts.mode /\ tts'.turn = tts.turn
  BY <1>2 DEF ControlInv, SpokenType, Sessions
<1>4. \A i \in DOMAIN out' : (i \in DOMAIN out /\ out'[i] = out[i]) \/ out'[i] = e
  BY <1>0, <1>2
<1>5. \A j \in DOMAIN out' : \A i \in 1..(j - 1) : i \in DOMAIN out /\ out'[i] = out[i]
  BY <1>0, <1>2
<1>6. ~Stopped(tts.turn)
  BY <1>2, SoundingNotStopped
<1>7. \A v : Stopped(v)' => Stopped(v)
  BY <1>1, <1>2, <1>4 DEF Stopped
<1>8. CutReplyStaysSilent'
  <2>1. ASSUME NEW j \in DOMAIN out', out'[j].kind = "audio"
        PROVE  /\ \A i \in 1..(j - 1) : out'[i].kind = "speech" => out'[i].value # out'[j].value
               /\ told' # out'[j].value
    <3>1. CASE j \in DOMAIN out /\ out'[j] = out[j]
      BY <1>2, <1>5, <2>1, <3>1 DEF SilenceInv, CutReplyStaysSilent
    <3>2. CASE out'[j] = e
      BY <1>1, <1>2, <1>5, <1>6, <3>2 DEF Stopped
    <3> QED BY <1>4, <3>1, <3>2
  <2> QED BY <2>1 DEF CutReplyStaysSilent
<1>9. \A v \in Int : Stopped(v)' => v < turn' \/ (v = turn' /\ cancelled' = turn')
  BY <1>2, <1>7 DEF SilenceInv
<1>10. (tts.mode = "flushing" => ~Stopped(tts.turn))'
  BY <1>3, <1>6, <1>7 DEF Stopped
<1> QED BY <1>8, <1>9, <1>10 DEF SilenceInv

\* The runtime tells the client: the turn was already on its way to being stopped.
LEMMA CallerSpeaksSilence == ControlInv /\ SilenceInv /\ CallerSpeaks => SilenceInv'
<1> SUFFICES ASSUME ControlInv, SilenceInv, CallerSpeaks PROVE SilenceInv'
  OBVIOUS
<1>0. out \in Seq(Events)
  BY DEF ControlInv, SpokenType
<1>1. /\ out # <<>> /\ Head(out).kind = "speech" /\ told' = Head(out).value /\ out' = Tail(out)
      /\ UNCHANGED <<turn, cancelled>>
  BY DEF CallerSpeaks, Take, pumpVars
<1>2. tts' = NoTts \/ tts' = tts
  BY DEF CallerSpeaks, AbortSpeech
<1>3. \A i \in DOMAIN out' : i + 1 \in DOMAIN out /\ out'[i] = out[i + 1]
  BY <1>0, <1>1
<1>4. 1 \in DOMAIN out /\ Head(out) = out[1]
  BY <1>0, <1>1
<1>5. \A v : Stopped(v)' => Stopped(v)
  BY <1>1, <1>3, <1>4 DEF Stopped
<1>6. CutReplyStaysSilent'
  <2>1. ASSUME NEW j \in DOMAIN out', out'[j].kind = "audio"
        PROVE  /\ \A i \in 1..(j - 1) : out'[i].kind = "speech" => out'[i].value # out'[j].value
               /\ told' # out'[j].value
    <3>1. j + 1 \in DOMAIN out /\ out[j + 1].kind = "audio" /\ out'[j].value = out[j + 1].value
      BY <1>3, <2>1
    <3>2. ASSUME NEW i \in 0..(j - 1), out[i + 1].kind = "speech"
          PROVE  out[i + 1].value # out'[j].value
      <4>1. i + 1 \in 1..((j + 1) - 1)
        BY <1>0, <1>1, <2>1
      <4> QED BY <3>1, <3>2, <4>1 DEF SilenceInv, CutReplyStaysSilent
    <3>3. 0 \in 0..(j - 1) /\ \A i \in 1..(j - 1) : i \in 0..(j - 1) /\ i \in DOMAIN out'
      BY <1>0, <1>1, <2>1
    <3>4. told' # out'[j].value
      BY <1>1, <1>4, <3>2, <3>3
    <3> QED BY <1>3, <3>2, <3>3, <3>4
  <2> QED BY <2>1 DEF CutReplyStaysSilent
<1>7. tts'.mode = "flushing" => tts' = tts
  BY <1>2 DEF NoTts
<1> QED BY <1>1, <1>5, <1>6, <1>7 DEF SilenceInv, Stopped

LEMMA NextSilence == ControlInv /\ SilenceInv /\ [Next]_vars => SilenceInv'
<1> SUFFICES ASSUME ControlInv, SilenceInv, [Next]_vars PROVE SilenceInv'
  OBVIOUS
<1>0. turn \in Nat /\ tts \in Sessions
  BY DEF ControlInv, SpokenType
<1> DEFINE Later == turn' \in Nat /\ (turn' > turn \/ (turn' = turn /\ cancelled' = cancelled))
           Quiet == QueueQuiet /\ SessionGoesOn /\ Later
<1>1. ASSUME Quiet PROVE SilenceInv'
  BY <1>1, QuietSilence
<1>2. \A kind, value : kind \notin {"audio", "speech"} /\ Put(kind, value) /\ told' = told => QueueQuiet
  BY DEF Put, QueueQuiet
<1>3. EndTurn /\ told' = told => QueueQuiet
  BY <1>2 DEF EndTurn, QueueQuiet
<1>4. \A session : FlushAndEnd(session) => turn' = turn + 1 /\ out' = out
  BY DEF FlushAndEnd, NextTurn
<1>5. ASSUME FlushAndEnd(tts) PROVE tts'.turn = tts.turn
  BY <1>0, <1>5 DEF FlushAndEnd, Sessions
<1>6. \A text : SendTail(text) => tts'.mode = "open"
  BY <1>0 DEF SendTail, Sessions
<1>7. CASE InnerText
  <2>1. QueueQuiet /\ Later
    BY <1>0, <1>7 DEF InnerText, QueueQuiet, runtimeVars
  <2>2. SessionGoesOn
    BY <1>6, <1>7 DEF InnerText, SessionGoesOn
  <2> QED BY <1>1, <2>1, <2>2
<1>8. CASE InnerEnd
  <2>1. told' = told /\ cancelled' = cancelled
    BY <1>8 DEF InnerEnd, runtimeVars
  <2>2. CASE EndTurn /\ NextTurn /\ UNCHANGED tts
    BY <1>0, <1>1, <1>3, <2>1, <2>2 DEF NextTurn, SessionGoesOn
  <2>3. CASE tts.mode = "open" /\ FlushAndEnd(tts)
    BY <1>0, <1>1, <1>4, <1>5, <2>1, <2>3 DEF QueueQuiet, SessionGoesOn
  <2>4. CASE UNCHANGED <<turn, tts, out>>
    BY <1>0, <1>1, <2>1, <2>4 DEF QueueQuiet, SessionGoesOn
  <2> QED BY <1>8, <2>2, <2>3, <2>4 DEF InnerEnd
<1>9. CASE Drained
  BY <1>0, <1>1, <1>9 DEF Drained, QueueQuiet, SessionGoesOn, runtimeVars
<1>10. CASE Opened
  <2>1. told' = told /\ cancelled' = cancelled
    BY <1>10 DEF Opened, runtimeVars
  <2>2. CASE EndTurn /\ NextTurn /\ UNCHANGED tts
    BY <1>0, <1>1, <1>3, <2>1, <2>2 DEF NextTurn, SessionGoesOn
  <2>3. CASE tts.mode # "none" /\ FlushAndEnd(tts)
    BY <1>0, <1>1, <1>4, <1>5, <2>1, <2>3 DEF QueueQuiet, SessionGoesOn
  <2>4. CASE UNCHANGED <<turn, tts, out>>
    BY <1>0, <1>1, <2>1, <2>4 DEF QueueQuiet, SessionGoesOn
  <2>5. CASE SendTail(job.text) /\ UNCHANGED <<turn, out>>
    BY <1>0, <1>1, <1>6, <2>1, <2>5 DEF QueueQuiet, SessionGoesOn
  <2> QED BY <1>10, <2>2, <2>3, <2>4, <2>5 DEF Opened
<1>11. CASE OpenFails \/ InnerClosed
  BY <1>0, <1>1, <1>11 DEF OpenFails, InnerClosed, QueueQuiet, SessionGoesOn, runtimeVars
<1>12. CASE PumpEnds \/ SpeechFails
  BY <1>0, <1>1, <1>2, <1>12 DEF PumpEnds, SpeechFails, SessionGoesOn, pumpVars, runtimeVars
<1>13. CASE Flushed \/ Count
  BY <1>0, <1>1, <1>13 DEF Flushed, Count, QueueQuiet, SessionGoesOn, NoTts, pumpVars, runtimeVars
<1>14. CASE EndInOrder
  BY <1>0, <1>1, <1>2, <1>14 DEF EndInOrder, SessionGoesOn, pumpVars, runtimeVars
<1>15. CASE PlayAudio \/ TurnDone \/ Finished \/ HangUp
  BY <1>0, <1>1, <1>15
  DEF PlayAudio, TurnDone, Finished, HangUp, Take, QueueQuiet, SessionGoesOn, pumpVars
<1>16. CASE UNCHANGED vars
  BY <1>0, <1>1, <1>16 DEF vars, QueueQuiet, SessionGoesOn, pumpVars, runtimeVars
<1> QED BY <1>7, <1>8, <1>9, <1>10, <1>11, <1>12, <1>13, <1>14, <1>15, <1>16, InnerSpeechSilence,
           AudioSilence, CallerSpeaksSilence DEF Next

\* Once the client has been told to stop playing a reply no sound of it is left on its
\* way, for any number of turns, any length of replies and any moment of the barge-in.
\* (half_cascade.py: _cancelled_turn, _abort_speech)
THEOREM CutReplySilenced == Spec => []CutReplyStaysSilent
<1>1. Init => ControlInv /\ SilenceInv
  BY InitControl, InitSilence
<1>2. ControlInv /\ SilenceInv /\ [Next]_vars => (ControlInv /\ SilenceInv)'
  BY NextControl, NextSilence
<1>3. SilenceInv => CutReplyStaysSilent
  BY DEF SilenceInv
<1> QED BY <1>1, <1>2, <1>3, PTL DEF Spec

-----------------------------------------------------------------------------
(* The characters on their way to the bill. *)

LEMMA TransitType == \A q \in Seq(Events) : InTransit(q) \in Nat
<1> SUFFICES ASSUME NEW q \in Seq(Events) PROVE InTransit(q) \in Nat
  OBVIOUS
<1> DEFINE f == [i \in DOMAIN q |-> EndedChars(q[i])]
<1>1. \A i \in DOMAIN q : f[i] \in Nat
  <2>1. \A s \in Events : EndedChars(s) \in Nat
    BY DEF EndedChars, Events
  <2>2. \A i \in DOMAIN q : q[i] \in Events
    OBVIOUS
  <2> QED BY <2>1, <2>2
<1>2. IsFiniteSet(DOMAIN q)
  BY FS_Interval
<1> HIDE DEF f
<1>3. SumFunctionOnSet(f, DOMAIN q) \in Nat
  BY <1>1, <1>2, SumType
<1> QED BY <1>3 DEF InTransit, f

LEMMA TransitEmpty == InTransit(<<>>) = 0
<1> DEFINE f == [i \in DOMAIN <<>> |-> EndedChars(<<>>[i])]
<1>1. DOMAIN <<>> = {}
  OBVIOUS
<1>2. SumFunctionOnSet(f, DOMAIN <<>>) = 0
  BY <1>1, FS_EmptySet, SumZero
<1> QED BY <1>2 DEF InTransit

LEMMA TransitAppend ==
    ASSUME NEW q \in Seq(Events), NEW e \in Events
    PROVE  InTransit(Append(q, e)) = InTransit(q) + EndedChars(e)
<1> DEFINE f == [i \in DOMAIN q |-> EndedChars(q[i])]
           g == [i \in DOMAIN Append(q, e) |-> EndedChars(Append(q, e)[i])]
<1>1. /\ Len(q) \in Nat /\ DOMAIN q = 1..Len(q) /\ DOMAIN Append(q, e) = 1..(Len(q) + 1)
      /\ \A i \in 1..Len(q) : Append(q, e)[i] = q[i] /\ q[i] \in Events
      /\ Append(q, e)[Len(q) + 1] = e
  OBVIOUS
<1>2. \A s \in Events : EndedChars(s) \in Nat
  BY DEF EndedChars, Events
<1>3. /\ \A i \in 1..Len(q) : f[i] \in Nat /\ g[i] = f[i]
      /\ g[Len(q) + 1] = EndedChars(e) /\ g[Len(q) + 1] \in Nat
  BY <1>1, <1>2
<1> HIDE DEF f, g
<1>4. SumFunctionOnSet(g, 1..(Len(q) + 1)) = SumFunctionOnSet(f, 1..Len(q)) + g[Len(q) + 1]
  BY <1>1, <1>3, SumAppend
<1> QED BY <1>1, <1>3, <1>4 DEF InTransit, f, g

LEMMA TransitTail ==
    ASSUME NEW q \in Seq(Events), q # <<>>
    PROVE  InTransit(q) = EndedChars(Head(q)) + InTransit(Tail(q))
<1> DEFINE f == [i \in DOMAIN q |-> EndedChars(q[i])]
           g == [i \in DOMAIN Tail(q) |-> EndedChars(Tail(q)[i])]
<1>1. PICK n \in Nat : Len(q) = n + 1
  <2>1. Len(q) \in Nat /\ Len(q) > 0
    OBVIOUS
  <2>2. Len(q) - 1 \in Nat /\ Len(q) = (Len(q) - 1) + 1
    BY <2>1
  <2> QED BY <2>2
<1>2. /\ DOMAIN q = 1..(n + 1) /\ DOMAIN Tail(q) = 1..n /\ Head(q) = q[1]
      /\ \A i \in 1..n : Tail(q)[i] = q[i + 1]
      /\ \A i \in 1..(n + 1) : q[i] \in Events
  BY <1>1
<1>3. \A s \in Events : EndedChars(s) \in Nat
  BY DEF EndedChars, Events
<1>4. 1 \in 1..(n + 1) /\ \A i \in 1..n : i + 1 \in 1..(n + 1)
  OBVIOUS
<1>5. f[1] = EndedChars(Head(q)) /\ f[1] \in Nat
  BY <1>2, <1>3, <1>4
<1>6. \A i \in 1..n : g[i] \in Nat /\ f[i + 1] = g[i]
  BY <1>2, <1>3, <1>4
<1> HIDE DEF f, g
<1>7. SumFunctionOnSet(f, 1..(n + 1)) = f[1] + SumFunctionOnSet(g, 1..n)
  BY <1>5, <1>6, SumBehead
<1> QED BY <1>2, <1>5, <1>7 DEF InTransit, f, g

LEMMA CountingType == \A q \in Seq(PendingSteps) : ToCount(q) \in Nat
<1> SUFFICES ASSUME NEW q \in Seq(PendingSteps) PROVE ToCount(q) \in Nat
  OBVIOUS
<1> DEFINE f == [i \in DOMAIN q |-> CountedLater(q[i])]
<1>1. \A i \in DOMAIN q : f[i] \in Nat
  <2>1. \A s \in PendingSteps : CountedLater(s) \in Nat
    BY DEF CountedLater, PendingSteps
  <2>2. \A i \in DOMAIN q : q[i] \in PendingSteps
    OBVIOUS
  <2> QED BY <2>1, <2>2
<1>2. IsFiniteSet(DOMAIN q)
  BY FS_Interval
<1> HIDE DEF f
<1>3. SumFunctionOnSet(f, DOMAIN q) \in Nat
  BY <1>1, <1>2, SumType
<1> QED BY <1>3 DEF ToCount, f

LEMMA CountingEmpty == ToCount(<<>>) = 0
<1> DEFINE f == [i \in DOMAIN <<>> |-> CountedLater(<<>>[i])]
<1>1. DOMAIN <<>> = {}
  OBVIOUS
<1>2. SumFunctionOnSet(f, DOMAIN <<>>) = 0
  BY <1>1, FS_EmptySet, SumZero
<1> QED BY <1>2 DEF ToCount

LEMMA CountingAppend ==
    ASSUME NEW q \in Seq(PendingSteps), NEW e \in PendingSteps
    PROVE  ToCount(Append(q, e)) = ToCount(q) + CountedLater(e)
<1> DEFINE f == [i \in DOMAIN q |-> CountedLater(q[i])]
           g == [i \in DOMAIN Append(q, e) |-> CountedLater(Append(q, e)[i])]
<1>1. /\ Len(q) \in Nat /\ DOMAIN q = 1..Len(q) /\ DOMAIN Append(q, e) = 1..(Len(q) + 1)
      /\ \A i \in 1..Len(q) : Append(q, e)[i] = q[i] /\ q[i] \in PendingSteps
      /\ Append(q, e)[Len(q) + 1] = e
  OBVIOUS
<1>2. \A s \in PendingSteps : CountedLater(s) \in Nat
  BY DEF CountedLater, PendingSteps
<1>3. /\ \A i \in 1..Len(q) : f[i] \in Nat /\ g[i] = f[i]
      /\ g[Len(q) + 1] = CountedLater(e) /\ g[Len(q) + 1] \in Nat
  BY <1>1, <1>2
<1> HIDE DEF f, g
<1>4. SumFunctionOnSet(g, 1..(Len(q) + 1)) = SumFunctionOnSet(f, 1..Len(q)) + g[Len(q) + 1]
  BY <1>1, <1>3, SumAppend
<1> QED BY <1>1, <1>3, <1>4 DEF ToCount, f, g

LEMMA CountingTail ==
    ASSUME NEW q \in Seq(PendingSteps), q # <<>>
    PROVE  ToCount(q) = CountedLater(Head(q)) + ToCount(Tail(q))
<1> DEFINE f == [i \in DOMAIN q |-> CountedLater(q[i])]
           g == [i \in DOMAIN Tail(q) |-> CountedLater(Tail(q)[i])]
<1>1. PICK n \in Nat : Len(q) = n + 1
  <2>1. Len(q) \in Nat /\ Len(q) > 0
    OBVIOUS
  <2>2. Len(q) - 1 \in Nat /\ Len(q) = (Len(q) - 1) + 1
    BY <2>1
  <2> QED BY <2>2
<1>2. /\ DOMAIN q = 1..(n + 1) /\ DOMAIN Tail(q) = 1..n /\ Head(q) = q[1]
      /\ \A i \in 1..n : Tail(q)[i] = q[i + 1]
      /\ \A i \in 1..(n + 1) : q[i] \in PendingSteps
  BY <1>1
<1>3. \A s \in PendingSteps : CountedLater(s) \in Nat
  BY DEF CountedLater, PendingSteps
<1>4. 1 \in 1..(n + 1) /\ \A i \in 1..n : i + 1 \in 1..(n + 1)
  OBVIOUS
<1>5. f[1] = CountedLater(Head(q)) /\ f[1] \in Nat
  BY <1>2, <1>3, <1>4
<1>6. \A i \in 1..n : g[i] \in Nat /\ f[i + 1] = g[i]
  BY <1>2, <1>3, <1>4
<1> HIDE DEF f, g
<1>7. SumFunctionOnSet(f, 1..(n + 1)) = f[1] + SumFunctionOnSet(g, 1..n)
  BY <1>5, <1>6, SumBehead
<1> QED BY <1>2, <1>5, <1>7 DEF ToCount, f, g

\* What the open session still has to be counted for.
Held == IF tts.mode \in {"opening", "open"} THEN tts.sent ELSE 0

LEMMA HeldType == SpokenType => Held \in Nat
BY DEF SpokenType, Sessions, Held

LEMMA BillType ==
    SpokenType => /\ sent \in Nat /\ billed \in Nat /\ chars \in Nat /\ Held \in Nat
                  /\ InTransit(out) \in Nat /\ ToCount(after) \in Nat
BY HeldType, TransitType, CountingType DEF SpokenType

LEMMA BillTypeNext ==
    SpokenType' => /\ chars' \in Nat /\ Held' \in Nat
                   /\ InTransit(out') \in Nat /\ ToCount(after') \in Nat
<1> SUFFICES ASSUME SpokenType'
             PROVE  /\ chars' \in Nat /\ Held' \in Nat
                    /\ InTransit(out') \in Nat /\ ToCount(after') \in Nat
  OBVIOUS
<1>1. chars' \in Nat /\ tts' \in Sessions /\ out' \in Seq(Events) /\ after' \in Seq(PendingSteps)
  BY DEF SpokenType
<1>2. Held' \in Nat
  BY <1>1 DEF Held, Sessions
<1>3. InTransit(out') \in Nat /\ ToCount(after') \in Nat
  BY <1>1, TransitType, CountingType
<1> QED BY <1>1, <1>2, <1>3

\* An event that carries no characters.
LEMMA PutCarriesNothing ==
    ASSUME SpokenType, NEW kind \in {"audio", "speech", "error", "closed"}, NEW value \in Int,
           Put(kind, value)
    PROVE  InTransit(out') = InTransit(out)
<1>1. PICK e : e = [kind |-> kind, value |-> value]
  OBVIOUS
<1>2. e \in Events /\ EndedChars(e) = 0
  BY <1>1 DEF Events, EndedChars
<1>3. InTransit(out') = InTransit(out) + EndedChars(e)
  BY <1>1, <1>2, TransitAppend DEF Put, SpokenType
<1> QED BY <1>2, <1>3, BillType

\* TurnEnded takes the turn's characters along.
LEMMA PutCarriesTurn ==
    ASSUME SpokenType, NEW t \in Nat, Put("ended", [turn |-> t, chars |-> chars])
    PROVE  InTransit(out') = InTransit(out) + chars
<1>1. PICK e : e = [kind |-> "ended", value |-> [turn |-> t, chars |-> chars]]
  OBVIOUS
<1>2. e \in Events /\ EndedChars(e) = chars
  BY <1>1 DEF Events, EndedChars, SpokenType
<1>3. InTransit(out') = InTransit(out) + EndedChars(e)
  BY <1>1, <1>2, TransitAppend DEF Put, SpokenType
<1> QED BY <1>2, <1>3

LEMMA EndTurnBill ==
    ASSUME SpokenType, EndTurn
    PROVE  chars' + InTransit(out') + ToCount(after') = chars + InTransit(out) + ToCount(after)
<1>1. CASE after = <<>>
  <2>1. InTransit(out') = InTransit(out) + chars
    BY <1>1, PutCarriesTurn DEF EndTurn, SpokenType
  <2>2. chars' = 0 /\ after' = after
    BY <1>1 DEF EndTurn
  <2> QED BY <2>1, <2>2, BillType
<1>2. CASE after # <<>>
  <2>1. PICK step : step = [kind |-> "end", value |-> turn]
    OBVIOUS
  <2>2. step \in PendingSteps /\ CountedLater(step) = 0
    BY <2>1 DEF SpokenType, PendingSteps, CountedLater
  <2>3. after' = Append(after, step) /\ chars' = chars /\ out' = out
    BY <1>2, <2>1 DEF EndTurn
  <2>4. ToCount(after') = ToCount(after) + CountedLater(step)
    BY <2>2, <2>3, CountingAppend DEF SpokenType
  <2> QED BY <2>2, <2>3, <2>4, BillType
<1> QED BY <1>1, <1>2

LEMMA FlushBill ==
    ASSUME SpokenType, tts.mode \in {"opening", "open"}, after = <<>>, FlushAndEnd(tts)
    PROVE  ToCount(after') = Held /\ ToCount(after) = 0 /\ Held' = 0
<1>1. PICK tally, end : tally = [kind |-> "count", value |-> tts.sent] /\ end = [kind |-> "end", value |-> turn]
  OBVIOUS
<1>2. /\ tally \in PendingSteps /\ end \in PendingSteps
      /\ CountedLater(tally) = tts.sent /\ CountedLater(end) = 0 /\ tts.sent \in Nat
  BY <1>1 DEF SpokenType, Sessions, PendingSteps, CountedLater
<1>3. after' = Append(Append(<<>>, tally), end) /\ Append(<<>>, tally) \in Seq(PendingSteps)
      /\ <<>> \in Seq(PendingSteps)
  BY <1>1, <1>2, FlushType
<1>4. ToCount(Append(<<>>, tally)) = ToCount(<<>>) + CountedLater(tally)
  BY <1>2, <1>3, CountingAppend
<1>5. ToCount(after') = ToCount(Append(<<>>, tally)) + CountedLater(end)
  BY <1>2, <1>3, CountingAppend
<1>6. Held' = 0 /\ Held = tts.sent
  BY FlushType DEF Held
<1> QED BY <1>2, <1>4, <1>5, <1>6, CountingEmpty

LEMMA AbortBill ==
    ASSUME SpokenType, AbortSpeech(chars) PROVE chars' = chars + Held /\ Held' = 0
BY DEF AbortSpeech, Held, NoTts

\* Steps that leave the bill and everything on its way to it alone.
LEMMA QuietBill ==
    ASSUME ControlInv, ControlInv', EveryCharBilledOnce, over' = over,
           UNCHANGED <<sent, billed, chars>>, InTransit(out') = InTransit(out),
           after' = after, Held' = Held
    PROVE  EveryCharBilledOnce'
BY DEF EveryCharBilledOnce, Held

LEMMA InnerTextBill == ControlInv /\ EveryCharBilledOnce /\ InnerText => EveryCharBilledOnce'
<1> SUFFICES ASSUME ControlInv, EveryCharBilledOnce, InnerText PROVE EveryCharBilledOnce'
  OBVIOUS
<1>0. ControlInv' /\ SpokenType
  BY InnerTextControl DEF ControlInv
<1>1. UNCHANGED <<after, chars, out, billed, over>> /\ shown' \in Nat /\ shown' > shown /\ pc = "idle"
      /\ ~over
  BY DEF InnerText, Show, runtimeVars, Room
<1>2. CASE UNCHANGED <<tts, sent>>
  BY <1>0, <1>1, <1>2, QuietBill DEF Held
<1>3. CASE tts.mode = "open" /\ SendTail(shown' - spoken)
  <2>1. PICK text \in Nat : text = shown' - spoken
    <3>1. \A a, b, c \in Nat : a > b /\ c <= b => a - c \in Nat
      OBVIOUS
    <3>2. spoken \in Nat /\ shown \in Nat /\ spoken <= shown
      BY <1>1 DEF ControlInv, PumpInv, SpokenType
    <3>3. shown' - spoken \in Nat
      BY <1>1, <3>1, <3>2
    <3> QED BY <3>3
  <2>2. tts'.mode = "open" /\ tts'.sent = tts.sent + text /\ sent' = sent + text
    BY <1>0, <1>3, <2>1, SendTailType
  <2>3. Held = tts.sent /\ Held' = tts.sent + text
    BY <1>3, <2>2 DEF Held
  <2>4. sent = billed + chars + InTransit(out) + ToCount(after) + Held
    BY <1>1 DEF EveryCharBilledOnce, Held
  <2>5. sent' = billed' + chars' + InTransit(out') + ToCount(after') + Held'
    BY <1>0, <1>1, <2>2, <2>3, <2>4, BillType
  <2> QED BY <2>5 DEF EveryCharBilledOnce, Held
<1> QED BY <1>2, <1>3 DEF InnerText

LEMMA InnerEndBill == ControlInv /\ EveryCharBilledOnce /\ InnerEnd => EveryCharBilledOnce'
<1> SUFFICES ASSUME ControlInv, EveryCharBilledOnce, InnerEnd PROVE EveryCharBilledOnce'
  OBVIOUS
<1>0. ControlInv' /\ SpokenType /\ SpokenType'
  BY InnerEndControl DEF ControlInv
<1>1. UNCHANGED <<sent, billed, over>> /\ ~over
  BY DEF InnerEnd, runtimeVars, Room
<1>2. sent = billed + chars + InTransit(out) + ToCount(after) + Held
  BY <1>1 DEF EveryCharBilledOnce, Held
<1>3. chars' + InTransit(out') + ToCount(after') + Held' = chars + InTransit(out) + ToCount(after) + Held
  <2>1. CASE EndTurn /\ UNCHANGED tts
    <3>1. chars' + InTransit(out') + ToCount(after') = chars + InTransit(out) + ToCount(after)
      BY <1>0, <2>1, EndTurnBill
    <3>2. Held' = Held
      BY <2>1 DEF Held
    <3> QED BY <3>1, <3>2
  <2>2. CASE tts.mode = "open" /\ FlushAndEnd(tts)
    <3>1. after = <<>>
      BY <2>2 DEF ControlInv, SessionInv
    <3>2. ToCount(after') = Held /\ ToCount(after) = 0 /\ Held' = 0
      BY <1>0, <2>2, <3>1, FlushBill
    <3>3. UNCHANGED <<chars, out>>
      BY <2>2 DEF FlushAndEnd
    <3> QED BY <1>0, <3>2, <3>3, BillType
  <2>3. CASE UNCHANGED <<tts, after, chars, out>>
    BY <2>3 DEF Held
  <2> QED BY <2>1, <2>2, <2>3 DEF InnerEnd
<1>4. sent' = billed' + chars' + InTransit(out') + ToCount(after') + Held'
  <2>1. /\ chars' \in Nat /\ InTransit(out') \in Nat /\ ToCount(after') \in Nat /\ Held' \in Nat
    BY <1>0, BillTypeNext
  <2> QED BY <1>0, <1>1, <1>2, <1>3, <2>1, BillType
<1> QED BY <1>4 DEF EveryCharBilledOnce, Held

LEMMA OpenedBill == ControlInv /\ EveryCharBilledOnce /\ Opened => EveryCharBilledOnce'
<1> SUFFICES ASSUME ControlInv, EveryCharBilledOnce, Opened PROVE EveryCharBilledOnce'
  OBVIOUS
<1>0. ControlInv' /\ SpokenType /\ SpokenType' /\ job.text \in Nat
  BY OpenedControl DEF ControlInv, SpokenType
<1>1. UNCHANGED <<billed, over>> /\ ~over /\ after = <<>> /\ tts.mode \in {"none", "opening"}
  BY DEF Opened, runtimeVars, Room, ControlInv, PumpInv
<1>2. sent = billed + chars + InTransit(out) + ToCount(after) + Held
  BY <1>1 DEF EveryCharBilledOnce, Held
<1>3. /\ chars' \in Nat /\ InTransit(out') \in Nat /\ ToCount(after') \in Nat /\ Held' \in Nat
  BY <1>0, BillTypeNext
<1>4. CASE EndTurn /\ UNCHANGED <<tts, sent>>
  <2>1. chars' + InTransit(out') + ToCount(after') = chars + InTransit(out) + ToCount(after)
    BY <1>0, <1>4, EndTurnBill
  <2>2. Held' = Held
    BY <1>4 DEF Held
  <2>3. sent' = sent /\ billed' = billed /\ billed \in Nat /\ chars \in Nat /\ Held \in Nat
        /\ InTransit(out) \in Nat /\ ToCount(after) \in Nat
    BY <1>0, <1>1, <1>4, BillType
  <2>4. sent' = billed' + (chars + InTransit(out) + ToCount(after)) + Held'
    BY <1>2, <2>2, <2>3
  <2>5. sent' = billed' + chars' + InTransit(out') + ToCount(after') + Held'
    BY <1>3, <2>1, <2>3, <2>4
  <2> QED BY <2>5 DEF EveryCharBilledOnce, Held
<1>5. CASE UNCHANGED <<tts, sent, after, chars, out>>
  BY <1>0, <1>1, <1>5, QuietBill DEF Held
<1>6. CASE tts.mode = "opening" /\ FlushAndEnd(tts) /\ UNCHANGED sent
  <2>1. ToCount(after') = Held /\ ToCount(after) = 0 /\ Held' = 0
    BY <1>0, <1>1, <1>6, FlushBill
  <2>2. UNCHANGED <<chars, out>>
    BY <1>6 DEF FlushAndEnd
  <2>3. sent' = billed' + chars' + InTransit(out') + ToCount(after') + Held'
    BY <1>0, <1>1, <1>2, <1>6, <2>1, <2>2, BillType
  <2> QED BY <2>3 DEF EveryCharBilledOnce, Held
<1>7. CASE tts.mode = "opening" /\ SendTail(job.text) /\ UNCHANGED <<after, chars, out>>
  <2>1. tts'.mode = "open" /\ tts'.sent = tts.sent + job.text /\ sent' = sent + job.text
    BY <1>0, <1>7, SendTailType
  <2>2. Held = tts.sent /\ Held' = tts.sent + job.text
    BY <1>7, <2>1 DEF Held
  <2>3. sent' = billed' + chars' + InTransit(out') + ToCount(after') + Held'
    BY <1>0, <1>1, <1>2, <1>7, <2>1, <2>2, BillType
  <2> QED BY <2>3 DEF EveryCharBilledOnce, Held
<1> QED BY <1>1, <1>4, <1>5, <1>6, <1>7 DEF Opened

LEMMA InnerSpeechBill == ControlInv /\ EveryCharBilledOnce /\ InnerSpeech => EveryCharBilledOnce'
<1> SUFFICES ASSUME ControlInv, EveryCharBilledOnce, InnerSpeech PROVE EveryCharBilledOnce'
  OBVIOUS
<1>0. SpokenType /\ tts.turn \in Int
  BY DEF ControlInv, SpokenType, Sessions
<1>1. UNCHANGED <<sent, billed, after, over>> /\ ~over /\ AbortSpeech(chars) /\ Put("speech", tts.turn)
  BY DEF InnerSpeech, runtimeVars, Room
<1>2. sent = billed + chars + InTransit(out) + ToCount(after) + Held
  BY <1>1 DEF EveryCharBilledOnce, Held
<1>3. chars' = chars + Held /\ Held' = 0 /\ InTransit(out') = InTransit(out)
  BY <1>0, <1>1, AbortBill, PutCarriesNothing
<1>4. sent' = billed' + chars' + InTransit(out') + ToCount(after') + Held'
  BY <1>0, <1>1, <1>2, <1>3, BillType
<1> QED BY <1>4 DEF EveryCharBilledOnce, Held

\* The counters of a flush and of a turn are handed on in order.
LEMMA PendingBill == ControlInv /\ EveryCharBilledOnce /\ (Count \/ EndInOrder) => EveryCharBilledOnce'
<1> SUFFICES ASSUME ControlInv, EveryCharBilledOnce, Count \/ EndInOrder PROVE EveryCharBilledOnce'
  OBVIOUS
<1>0. SpokenType
  BY DEF ControlInv
<1>1. UNCHANGED <<sent, billed, tts, over>> /\ ~over /\ after # <<>> /\ after' = Tail(after)
  BY DEF Count, EndInOrder, runtimeVars, Room
<1>2. sent = billed + chars + InTransit(out) + ToCount(after) + Held
  BY <1>1 DEF EveryCharBilledOnce, Held
<1>3. /\ ToCount(after) = CountedLater(Head(after)) + ToCount(after') /\ Head(after) \in PendingSteps
      /\ ToCount(after') \in Nat
  <2>1. after \in Seq(PendingSteps)
    BY <1>0 DEF SpokenType
  <2>2. Head(after) \in PendingSteps /\ Tail(after) \in Seq(PendingSteps)
    BY <1>1, <2>1
  <2> QED BY <1>1, <2>1, <2>2, CountingTail, CountingType
<1>4. Held' = Held
  BY <1>1 DEF Held
<1>5. CASE Count
  <2>1. chars' = chars + CountedLater(Head(after)) /\ out' = out
    BY <1>5 DEF Count, CountedLater
  <2>2. CountedLater(Head(after)) \in Nat
    BY <1>3 DEF PendingSteps, CountedLater
  <2>3. sent' = billed' + chars' + InTransit(out') + ToCount(after') + Held'
    BY <1>0, <1>1, <1>2, <1>3, <1>4, <2>1, <2>2, BillType
  <2> QED BY <2>3 DEF EveryCharBilledOnce, Held
<1>6. CASE EndInOrder
  <2>1. /\ Head(after).kind = "end" /\ Head(after).value \in Nat /\ chars' = 0
        /\ Put("ended", [turn |-> Head(after).value, chars |-> chars])
    BY <1>3, <1>6 DEF EndInOrder, PendingSteps
  <2>2. InTransit(out') = InTransit(out) + chars
    BY <1>0, <2>1, PutCarriesTurn
  <2>3. CountedLater(Head(after)) = 0
    BY <2>1 DEF CountedLater
  <2>4. sent' = billed' + chars' + InTransit(out') + ToCount(after') + Held'
    BY <1>0, <1>1, <1>2, <1>3, <1>4, <2>1, <2>2, <2>3, BillType
  <2> QED BY <2>4 DEF EveryCharBilledOnce, Held
<1> QED BY <1>5, <1>6

\* The runtime takes the next event.
LEMMA TakeBill ==
    ASSUME SpokenType, NEW kind, Take(kind)
    PROVE  /\ InTransit(out) = EndedChars(Head(out)) + InTransit(out') /\ InTransit(out') \in Nat
           /\ kind # "ended" => InTransit(out') = InTransit(out)
<1>1. out # <<>> /\ Head(out).kind = kind /\ out' = Tail(out) /\ out' \in Seq(Events)
  BY TakeType
<1>2. InTransit(out) = EndedChars(Head(out)) + InTransit(out') /\ InTransit(out') \in Nat
  BY <1>1, TransitTail, TransitType DEF SpokenType
<1>3. kind # "ended" => EndedChars(Head(out)) = 0
  BY <1>1 DEF EndedChars
<1> QED BY <1>2, <1>3

LEMMA CallerSpeaksBill == ControlInv /\ EveryCharBilledOnce /\ CallerSpeaks => EveryCharBilledOnce'
<1> SUFFICES ASSUME ControlInv, EveryCharBilledOnce, CallerSpeaks PROVE EveryCharBilledOnce'
  OBVIOUS
<1>0. SpokenType
  BY DEF ControlInv
<1>1. UNCHANGED <<sent, billed, after, over>> /\ ~over /\ Take("speech")
  BY DEF CallerSpeaks, Take
<1>2. sent = billed + chars + InTransit(out) + ToCount(after) + Held
  BY <1>1 DEF EveryCharBilledOnce, Held
<1>3. InTransit(out') = InTransit(out)
  BY <1>0, <1>1, TakeBill
<1>4. chars' + Held' = chars + Held
  <2>1. CASE AbortSpeech(chars)
    BY <1>0, <2>1, AbortBill, BillType
  <2>2. CASE UNCHANGED <<tts, chars>>
    BY <2>2 DEF Held
  <2> QED BY <2>1, <2>2 DEF CallerSpeaks
<1>5. chars' \in Nat /\ Held' \in Nat
  BY CallerSpeaksControl, BillTypeNext DEF ControlInv
<1>6. sent' = billed' + chars' + InTransit(out') + ToCount(after') + Held'
  BY <1>0, <1>1, <1>2, <1>3, <1>4, <1>5, BillType
<1> QED BY <1>6 DEF EveryCharBilledOnce, Held

LEMMA TurnDoneBill == ControlInv /\ EveryCharBilledOnce /\ TurnDone => EveryCharBilledOnce'
<1> SUFFICES ASSUME ControlInv, EveryCharBilledOnce, TurnDone PROVE EveryCharBilledOnce'
  OBVIOUS
<1>0. SpokenType
  BY DEF ControlInv
<1>1. /\ UNCHANGED <<sent, chars, tts, after, over>> /\ ~over /\ Take("ended")
      /\ billed' = billed + Head(out).value.chars
  BY DEF TurnDone, Take
<1>2. sent = billed + chars + InTransit(out) + ToCount(after) + Held
  BY <1>1 DEF EveryCharBilledOnce, Held
<1>3. Head(out).kind = "ended" /\ Head(out) \in Events
  BY <1>0, <1>1, TakeType
<1>4. EndedChars(Head(out)) = Head(out).value.chars /\ EndedChars(Head(out)) \in Nat
  BY <1>3 DEF EndedChars, Events
<1>5. InTransit(out) = EndedChars(Head(out)) + InTransit(out') /\ InTransit(out') \in Nat
  BY <1>0, <1>1, TakeBill
<1>6. Held' = Held
  BY <1>1 DEF Held
<1>7. sent' = billed' + chars' + InTransit(out') + ToCount(after') + Held'
  BY <1>0, <1>1, <1>2, <1>4, <1>5, <1>6, BillType
<1> QED BY <1>7 DEF EveryCharBilledOnce, Held

LEMMA NextBill == ControlInv /\ EveryCharBilledOnce /\ [Next]_vars => EveryCharBilledOnce'
<1> SUFFICES ASSUME ControlInv, EveryCharBilledOnce, [Next]_vars PROVE EveryCharBilledOnce'
  OBVIOUS
<1>0. ControlInv' /\ SpokenType
  BY NextControl DEF ControlInv
<1>1. CASE InnerClosed \/ OpenFails
  BY <1>0, <1>1, QuietBill DEF InnerClosed, OpenFails, runtimeVars, Held
<1>2. CASE Drained
  <2>1. tts'.mode = "opening" /\ tts'.sent = 0 /\ tts.mode \notin {"opening", "open"}
    BY <1>2 DEF Drained, ControlInv, PumpInv
  <2>2. Held = 0 /\ Held' = 0
    BY <2>1 DEF Held
  <2> QED BY <1>0, <1>2, <2>2, QuietBill DEF Drained, runtimeVars
<1>3. CASE PumpEnds
  <2>1. InTransit(out') = InTransit(out)
    BY <1>0, <1>3, PutCarriesNothing DEF PumpEnds, NoTurn
  <2> QED BY <1>0, <1>3, <2>1, QuietBill DEF PumpEnds, runtimeVars, Held
<1>4. CASE Audio
  <2>1. InTransit(out') = InTransit(out)
    BY <1>0, <1>4, PutCarriesNothing DEF Audio, SpokenType, Sessions
  <2>2. Held' = Held
    BY <1>0, <1>4 DEF Audio, SpokenType, Sessions, Held
  <2> QED BY <1>0, <1>4, <2>1, <2>2, QuietBill DEF Audio, pumpVars, runtimeVars
<1>5. CASE SpeechFails
  <2>1. InTransit(out') = InTransit(out)
    BY <1>0, <1>5, PutCarriesNothing DEF SpeechFails, NoTurn
  <2> QED BY <1>0, <1>5, <2>1, QuietBill DEF SpeechFails, runtimeVars, Held
<1>6. CASE Flushed
  <2>1. Held = 0 /\ Held' = 0
    BY <1>6 DEF Flushed, Held, NoTts
  <2> QED BY <1>0, <1>6, <2>1, QuietBill DEF Flushed, runtimeVars
<1>7. CASE PlayAudio
  <2>1. InTransit(out') = InTransit(out)
    BY <1>0, <1>7, TakeBill DEF PlayAudio
  <2> QED BY <1>0, <1>7, <2>1, QuietBill DEF PlayAudio, Held
<1>8. CASE Finished \/ HangUp
  BY <1>8 DEF Finished, HangUp, EveryCharBilledOnce
<1>9. CASE UNCHANGED vars
  BY <1>0, <1>9, QuietBill DEF vars, pumpVars, runtimeVars, Held
<1> QED BY <1>1, <1>2, <1>3, <1>4, <1>5, <1>6, <1>7, <1>8, <1>9, InnerTextBill, InnerEndBill,
           OpenedBill, InnerSpeechBill, PendingBill, CallerSpeaksBill, TurnDoneBill DEF Next

\* Every character handed to the synthesiser is billed once, for any number of turns,
\* whichever session was flushed, aborted by the pump or aborted by the runtime.
\* (half_cascade.py: _turn_chars, _session_chars; runtime.py: _speech_chars)
THEOREM CharactersBilledOnce == Spec => []EveryCharBilledOnce
<1>1. Init => ControlInv /\ EveryCharBilledOnce
  <2> SUFFICES ASSUME Init PROVE EveryCharBilledOnce
    BY InitControl
  <2>1. InTransit(out) = 0 /\ ToCount(after) = 0
    BY TransitEmpty, CountingEmpty DEF Init
  <2> QED BY <2>1 DEF Init, EveryCharBilledOnce, NoTts
<1>2. ControlInv /\ EveryCharBilledOnce /\ [Next]_vars => (ControlInv /\ EveryCharBilledOnce)'
  BY NextControl, NextBill
<1> QED BY <1>1, <1>2, PTL DEF Spec

-----------------------------------------------------------------------------
(* The event stream the runtime is given. *)

OuterClosed == outClosed \/ over \/ pc = "dead"

\* What is pending ends a turn; while nothing is pending and no final text waits to be
\* spoken, the reply the client sees is the one the inner bridge is writing.
OuterInv ==
    /\ after # <<>> => after[Len(after)].kind = "end"
    /\ after = <<>> /\ ~job.final => outShown <= shown
    /\ outClosed => pc = "dead"

LEMMA InitOuter == Init => OuterInv
BY DEF Init, StreamInit, OuterInv

\* The four events of the stream, and a step that is none.
LEMMA OuterShow ==
    ASSUME ~OuterClosed, ~OuterClosed', outShown' \in Nat, outShown \in Nat, outShown' >= outShown,
           outCut' = outCut
    PROVE  [Outer!StreamNext]_Outer!streamVars
<1>1. CASE outShown' = outShown
  BY <1>1 DEF OuterClosed, Outer!streamVars
<1>2. CASE outShown' > outShown
  BY <1>2 DEF OuterClosed, Outer!StreamNext, Outer!Show
<1> QED BY <1>1, <1>2

LEMMA OuterSpeech ==
    ASSUME ~OuterClosed, ~OuterClosed', outShown' = outShown, outCut' = (outShown # 0)
    PROVE  [Outer!StreamNext]_Outer!streamVars
BY DEF OuterClosed, Outer!StreamNext, Outer!Speech

LEMMA OuterEnd ==
    ASSUME ~OuterClosed, ~OuterClosed', outShown' = 0, outCut' = FALSE
    PROVE  [Outer!StreamNext]_Outer!streamVars
BY DEF OuterClosed, Outer!StreamNext, Outer!End

LEMMA OuterClose ==
    ASSUME OuterClosed => OuterClosed', UNCHANGED <<outShown, outCut>>
    PROVE  [Outer!StreamNext]_Outer!streamVars
<1>1. CASE ~OuterClosed /\ OuterClosed'
  BY <1>1 DEF OuterClosed, Outer!StreamNext, Outer!Close
<1>2. CASE ~OuterClosed /\ ~OuterClosed'
  BY <1>2 DEF OuterClosed, Outer!streamVars
<1>3. CASE OuterClosed /\ OuterClosed'
  BY <1>3 DEF OuterClosed, Outer!streamVars
<1> QED BY <1>1, <1>2, <1>3

\* A turn ends at once, or behind what is pending.
LEMMA EndTurnOuter ==
    ASSUME SpokenType, EndTurn
    PROVE  /\ after' # <<>> => after'[Len(after')].kind = "end"
           /\ after = <<>> => after' = <<>> /\ outShown' = 0 /\ outCut' = FALSE
           /\ after # <<>> => after' # <<>> /\ UNCHANGED <<outShown, outCut>>
<1>1. CASE after = <<>>
  BY <1>1 DEF EndTurn
<1>2. CASE after # <<>>
  <2>1. PICK step : step = [kind |-> "end", value |-> turn]
    OBVIOUS
  <2>2. after' = Append(after, step) /\ UNCHANGED <<outShown, outCut>>
    BY <1>2, <2>1 DEF EndTurn
  <2>3. after'[Len(after')] = step /\ after' # <<>>
    BY <2>2 DEF SpokenType
  <2> QED BY <1>2, <2>1, <2>2, <2>3
<1> QED BY <1>1, <1>2

LEMMA FlushOuter ==
    ASSUME SpokenType, tts.mode \in {"opening", "open"}, after = <<>>, FlushAndEnd(tts)
    PROVE  after' # <<>> /\ after'[Len(after')].kind = "end" /\ UNCHANGED <<outShown, outCut>>
<1>1. PICK tally, end : tally = [kind |-> "count", value |-> tts.sent] /\ end = [kind |-> "end", value |-> turn]
  OBVIOUS
<1>2. after' = <<tally, end>> /\ UNCHANGED <<outShown, outCut>>
  BY <1>1, FlushType
<1>3. after' # <<>> /\ after'[Len(after')] = end
  BY <1>2
<1> QED BY <1>1, <1>2, <1>3

LEMMA NextOuter ==
    ASSUME ControlInv, OuterInv, [Next]_vars
    PROVE  OuterInv' /\ [Outer!StreamNext]_Outer!streamVars
<1>0. /\ SpokenType /\ SpokenType' /\ shown \in Nat /\ outShown \in Nat /\ outShown' \in Nat
      /\ after \in Seq(PendingSteps)
  BY NextControl DEF ControlInv, SpokenType
<1> DEFINE Goal == OuterInv' /\ [Outer!StreamNext]_Outer!streamVars
<1>1. CASE InnerText
  <2>1. /\ pc = "idle" /\ ~over /\ shown' \in Nat /\ shown' > shown /\ pc' \in {"idle", "drain"}
        /\ UNCHANGED <<after, outCut, outClosed, over>>
    BY <1>1 DEF InnerText, Show, Room, runtimeVars
  <2>2. ~job.final /\ ~outClosed /\ ~OuterClosed /\ ~OuterClosed'
    BY <2>1 DEF ControlInv, PumpInv, OuterInv, OuterClosed
  <2>3. ASSUME outShown' = shown', after = <<>> PROVE Goal
    <3>1. outShown <= shown
      BY <2>2, <2>3 DEF OuterInv
    <3>2. [Outer!StreamNext]_Outer!streamVars
      BY <1>0, <2>1, <2>2, <2>3, <3>1, OuterShow
    <3> QED BY <2>1, <2>2, <2>3, <3>2 DEF OuterInv
  <2>4. ASSUME outShown' = outShown PROVE Goal
    <3>1. [Outer!StreamNext]_Outer!streamVars
      BY <2>1, <2>2, <2>4, OuterClose
    <3>2. after' = <<>> => outShown' <= shown'
      BY <1>0, <2>1, <2>2, <2>4 DEF OuterInv
    <3> QED BY <2>1, <2>2, <3>1, <3>2 DEF OuterInv
  <2>5. CASE Muted
    BY <1>1, <2>3, <2>5 DEF InnerText, Muted, ControlInv, PumpInv
  <2>6. CASE ~Muted /\ tts.mode = "open"
    BY <1>1, <2>3, <2>6 DEF InnerText, ControlInv, SessionInv
  <2>7. CASE ~Muted /\ tts.mode # "open"
    BY <1>1, <2>4, <2>7 DEF InnerText
  <2> QED BY <2>5, <2>6, <2>7
<1>2. CASE InnerEnd
  <2>1. /\ pc = "idle" /\ ~over /\ shown' = 0 /\ pc' \in {"idle", "drain"}
        /\ UNCHANGED <<outClosed, over>>
    BY <1>2 DEF InnerEnd, End, Room, runtimeVars
  <2>2. ~job.final /\ ~outClosed /\ ~OuterClosed /\ ~OuterClosed'
    BY <2>1 DEF ControlInv, PumpInv, OuterInv, OuterClosed
  <2>3. CASE EndTurn /\ UNCHANGED <<pc, job, tts>>
    <3>1. /\ after' # <<>> => after'[Len(after')].kind = "end"
          /\ after = <<>> => after' = <<>> /\ outShown' = 0 /\ outCut' = FALSE
          /\ after # <<>> => after' # <<>> /\ UNCHANGED <<outShown, outCut>>
      BY <1>0, <2>3, EndTurnOuter
    <3>2. [Outer!StreamNext]_Outer!streamVars
      BY <2>2, <3>1, OuterEnd, OuterClose
    <3> QED BY <2>1, <2>2, <2>3, <3>1, <3>2 DEF OuterInv
  <2>4. CASE tts.mode = "open" /\ FlushAndEnd(tts) /\ UNCHANGED <<pc, job>>
    <3>1. after = <<>>
      BY <2>4 DEF ControlInv, SessionInv
    <3>2. after' # <<>> /\ after'[Len(after')].kind = "end" /\ UNCHANGED <<outShown, outCut>>
      BY <1>0, <2>4, <3>1, FlushOuter
    <3>3. [Outer!StreamNext]_Outer!streamVars
      BY <2>2, <3>2, OuterClose
    <3> QED BY <2>1, <2>2, <3>2, <3>3 DEF OuterInv
  <2>5. CASE job'.final /\ UNCHANGED <<after, outShown, outCut>>
    <3>1. [Outer!StreamNext]_Outer!streamVars
      BY <2>2, <2>5, OuterClose
    <3> QED BY <2>1, <2>2, <2>5, <3>1 DEF OuterInv
  <2> QED BY <1>2, <2>3, <2>4, <2>5 DEF InnerEnd
<1>3. CASE Drained
  <2>1. /\ pc = "drain" /\ pc' = "open" /\ ~over
        /\ UNCHANGED <<after, job, shown, outShown, outCut, outClosed, over>>
    BY <1>3 DEF Drained, streamVars, runtimeVars, outerVars
  <2>2. [Outer!StreamNext]_Outer!streamVars
    BY <2>1, OuterClose DEF OuterInv, OuterClosed
  <2> QED BY <2>1, <2>2 DEF OuterInv
<1>4. CASE Opened
  <2>1. /\ pc = "open" /\ ~over /\ pc' = "idle" /\ after = <<>> /\ ~job'.final
        /\ tts.mode \in {"none", "opening"} /\ UNCHANGED <<shown, outClosed, over>>
    BY <1>4 DEF Opened, Room, streamVars, runtimeVars, NoJob, ControlInv, PumpInv
  <2>2. ~outClosed /\ ~OuterClosed /\ ~OuterClosed'
    BY <2>1 DEF OuterInv, OuterClosed
  <2>3. CASE EndTurn
    <3>1. after' = <<>> /\ outShown' = 0 /\ outCut' = FALSE
      BY <1>0, <2>1, <2>3, EndTurnOuter
    <3>2. [Outer!StreamNext]_Outer!streamVars
      BY <2>2, <3>1, OuterEnd
    <3> QED BY <1>0, <2>1, <2>2, <3>1, <3>2 DEF OuterInv
  <2>4. CASE tts.mode = "opening" /\ FlushAndEnd(tts)
    <3>1. after' # <<>> /\ after'[Len(after')].kind = "end" /\ UNCHANGED <<outShown, outCut>>
      BY <1>0, <2>1, <2>4, FlushOuter
    <3>2. [Outer!StreamNext]_Outer!streamVars
      BY <2>2, <3>1, OuterClose
    <3> QED BY <2>1, <2>2, <3>1, <3>2 DEF OuterInv
  <2>5. CASE ~job.final /\ outShown' = shown /\ UNCHANGED <<after, outCut>>
    <3>1. outShown <= shown
      BY <2>1, <2>5 DEF OuterInv
    <3>2. [Outer!StreamNext]_Outer!streamVars
      BY <1>0, <2>2, <2>5, <3>1, OuterShow
    <3> QED BY <1>0, <2>1, <2>2, <2>5, <3>2 DEF OuterInv
  <2> QED BY <1>4, <2>1, <2>3, <2>4, <2>5 DEF Opened
<1>5. CASE OpenFails \/ InnerClosed \/ PumpEnds
  <2>1. /\ pc \in {"open", "idle", "closing"} /\ UNCHANGED <<after, job, shown, outShown, outCut, over>>
        /\ outClosed' => outClosed \/ pc' = "dead"
        /\ (pc = "dead" \/ outClosed) => (pc' = "dead" \/ outClosed')
    BY <1>5 DEF OpenFails, InnerClosed, PumpEnds, Close, streamVars, runtimeVars, outerVars
  <2>2. ~outClosed
    BY <2>1 DEF OuterInv
  <2>3. [Outer!StreamNext]_Outer!streamVars
    BY <2>1, OuterClose DEF OuterClosed
  <2> QED BY <2>1, <2>2, <2>3 DEF OuterInv
<1>6. CASE InnerSpeech
  <2>1. /\ pc = "idle" /\ ~over /\ outCut' = (outShown # 0)
        /\ UNCHANGED <<pc, after, job, shown, outShown, outClosed, over>>
    BY <1>6 DEF InnerSpeech, Speech, Room, runtimeVars
  <2>2. [Outer!StreamNext]_Outer!streamVars
    BY <2>1, OuterSpeech DEF OuterInv, OuterClosed
  <2> QED BY <2>1, <2>2 DEF OuterInv
<1>7. CASE Count
  <2>1. /\ after # <<>> /\ Head(after).kind = "count" /\ after' = Tail(after)
        /\ UNCHANGED <<pc, job, shown, outShown, outCut, outClosed, over>>
    BY <1>7 DEF Count, streamVars, pumpVars, runtimeVars, outerVars
  <2>2. after' # <<>> /\ after'[Len(after')] = after[Len(after)]
    <3>1. Len(after) \in Nat /\ Len(after) > 0 /\ Head(after) = after[1]
      BY <1>0, <2>1
    <3>2. Len(after) # 1
      BY <2>1, <3>1 DEF OuterInv
    <3>3. PICK n \in Nat : Len(after) = n + 1
      <4>1. Len(after) - 1 \in Nat /\ Len(after) = (Len(after) - 1) + 1
        BY <3>1
      <4> QED BY <4>1
    <3>4. n >= 1
      BY <3>2, <3>3
    <3>5. Len(after') = n /\ after'[n] = after[n + 1]
      BY <1>0, <2>1, <3>3, <3>4
    <3>6. after' # <<>>
      BY <3>4, <3>5
    <3> QED BY <3>3, <3>5, <3>6
  <2>3. [Outer!StreamNext]_Outer!streamVars
    BY <2>1, OuterClose DEF OuterClosed
  <2> QED BY <2>1, <2>2, <2>3 DEF OuterInv
<1>8. CASE EndInOrder
  <2>1. /\ ~over /\ after # <<>> /\ after' = Tail(after) /\ outShown' = 0 /\ outCut' = FALSE
        /\ UNCHANGED <<pc, job, shown, outClosed, over>>
    BY <1>8 DEF EndInOrder, Room, streamVars, pumpVars, runtimeVars
  <2>2. ~OuterClosed /\ ~OuterClosed'
    BY <2>1 DEF ControlInv, PumpInv, OuterInv, OuterClosed
  <2>3. after' # <<>> => after'[Len(after')] = after[Len(after)]
    BY <1>0, <2>1
  <2>4. [Outer!StreamNext]_Outer!streamVars
    BY <2>1, <2>2, OuterEnd
  <2> QED BY <1>0, <2>1, <2>3, <2>4 DEF OuterInv
<1>9. CASE Audio \/ SpeechFails \/ Flushed \/ PlayAudio \/ CallerSpeaks \/ TurnDone
  <2>1. UNCHANGED <<pc, after, job, shown, outShown, outCut, outClosed, over>>
    BY <1>9 DEF Audio, SpeechFails, Flushed, PlayAudio, CallerSpeaks, TurnDone, Take, streamVars,
                pumpVars, runtimeVars, outerVars
  <2>2. [Outer!StreamNext]_Outer!streamVars
    BY <2>1, OuterClose DEF OuterClosed
  <2> QED BY <2>1, <2>2 DEF OuterInv
<1>10. CASE Finished \/ HangUp
  <2>1. over' = TRUE /\ UNCHANGED <<pc, after, job, shown, outShown, outCut, outClosed>>
    BY <1>10 DEF Finished, HangUp, streamVars, pumpVars, outerVars
  <2>2. [Outer!StreamNext]_Outer!streamVars
    BY <2>1, OuterClose DEF OuterClosed
  <2> QED BY <2>1, <2>2 DEF OuterInv
<1>11. CASE UNCHANGED vars
  <2>1. UNCHANGED <<pc, after, job, shown, outShown, outCut, outClosed, over>>
    BY <1>11 DEF vars, streamVars, pumpVars, runtimeVars, outerVars
  <2>2. [Outer!StreamNext]_Outer!streamVars
    BY <2>1, OuterClose DEF OuterClosed
  <2> QED BY <2>1, <2>2 DEF OuterInv
<1> QED BY <1>1, <1>2, <1>3, <1>4, <1>5, <1>6, <1>7, <1>8, <1>9, <1>10, <1>11 DEF Next

\* The bridge that speaks refines the event stream of the bridge it wraps, fairness
\* aside: with any number of turns and barge-ins, replies do not overlap, a reply's
\* text only grows, and nothing follows the end of the call or of its pump.
THEOREM SpokenFollowsStream ==
    Spec => Outer!StreamInit /\ [][Outer!StreamNext]_Outer!streamVars
<1>1. Init => Outer!StreamInit
  BY DEF Init, Outer!StreamInit
<1>2. Init => ControlInv /\ OuterInv
  BY InitControl, InitOuter
<1>3. ControlInv /\ OuterInv /\ [Next]_vars => (ControlInv /\ OuterInv)'
  BY NextControl, NextOuter
<1>4. ControlInv /\ OuterInv /\ [Next]_vars => [Outer!StreamNext]_Outer!streamVars
  BY NextOuter
<1> QED BY <1>1, <1>2, <1>3, <1>4, PTL DEF Spec

================================================================================
