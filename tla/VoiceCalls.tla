------------------------------- MODULE VoiceCalls ------------------------------
(***************************************************************************)
(* The life of a voice call (api/rest/voice_sessions.py,                   *)
(* services/voice_session_service.py, realtime/runtime.py): a plan slot    *)
(* and a balance check open a row, the provider bridge and the avatar's    *)
(* media room are joined side by side, the call runs, everything is torn   *)
(* down, the final hook runs, and one transaction closes the row, counts   *)
(* the call on its agent and takes the credits. The process may die at any *)
(* point.                                                                  *)
(*                                                                         *)
(* All calls belong to one voice agent of one organization. A minute costs *)
(* one credit, and one minute is what must be there to start a call.       *)
(***************************************************************************)
EXTENDS Naturals, FiniteSets, Functions

CONSTANTS
    Calls,        \* the calls placed
    AvatarCalls,  \* those whose token names a media room
    Ceiling,      \* concurrent_calls of the plan
    Credits,      \* balance to begin with
    HasHook,      \* whether the agent has a final workflow
    MaxMinutes    \* bound: minutes to connect or of a call, and again of its final hook

ASSUME CallsAssumption ==
    /\ IsFiniteSet(Calls) /\ AvatarCalls \subseteq Calls
    /\ Ceiling \in Nat /\ Credits \in Nat /\ MaxMinutes \in Nat \ {0} /\ HasHook \in BOOLEAN

VARIABLES
    phase,     \* where each call's handler stands
    row,       \* its voice_sessions row: "none", "active", "completed", "failed"
    aged,      \* the row is older than the cutoff of the active count
    bridge,    \* the provider connection: "closed", "connecting", "open"
    media,     \* the avatar's room: "none", "joining", "open"
    minutes,   \* duration_sec so far, which counts from before the connection
    reason,    \* how the call ended: "ok" or "error"
    seen,      \* agent.session_count as the closing transaction read it
    count,     \* agent.session_count
    balance,   \* the organization's credits
    charged,   \* credits taken for a call
    shortfall  \* credits it cost beyond what was left

mediaVars == <<bridge, media>>
moneyVars == <<count, balance, charged, shortfall>>
callVars == <<phase, row, aged, mediaVars, minutes, reason, seen, moneyVars>>

Floor == 1

Phases ==
    {"idle", "setup", "checked", "connecting", "live", "stopping", "stopped", "hook",
     "closing", "writing", "done", "refused", "lost"}

CallsInit ==
    /\ phase = [c \in Calls |-> "idle"] /\ row = [c \in Calls |-> "none"]
    /\ aged = [c \in Calls |-> FALSE]
    /\ bridge = [c \in Calls |-> "closed"] /\ media = [c \in Calls |-> "none"]
    /\ minutes = [c \in Calls |-> 0] /\ reason = [c \in Calls |-> "error"]
    /\ seen = [c \in Calls |-> 0] /\ count = 0
    /\ balance = Credits
    /\ charged = [c \in Calls |-> 0] /\ shortfall = [c \in Calls |-> 0]

Goto(c, from, to) == phase[c] = from /\ phase' = [phase EXCEPT ![c] = to]

\* Mutant: no cutoff.
CountedForEver == {c \in Calls : row[c] = "active"}

\* count_active_by_organization: stranded rows stop counting after the cutoff.
Counted == {c \in Calls : row[c] = "active" /\ ~aged[c]}

\* duration_sec: the time since the runtime was built.
Elapses(c, least) == \E m \in least..MaxMinutes : minutes' = [minutes EXCEPT ![c] = @ + m]

-----------------------------------------------------------------------------
(* Opening *)

\* The token is verified and the agent's configuration resolved, or the call
\* is refused with a reason.
Accept(c) ==
    /\ Goto(c, "idle", "setup") \/ Goto(c, "idle", "refused")
    /\ UNCHANGED <<row, aged, mediaVars, minutes, reason, seen, moneyVars>>

\* open_session: the balance, then the ceiling.
Check(c) ==
    /\ IF balance < Floor \/ Cardinality(Counted) >= Ceiling
       THEN Goto(c, "setup", "refused")
       ELSE Goto(c, "setup", "checked")
    /\ UNCHANGED <<row, aged, mediaVars, minutes, reason, seen, moneyVars>>

\* The row is committed; bridge and avatar are then joined side by side. An
\* avatar call whose agent lost its avatar does not run.
Open(c) ==
    /\ row' = [row EXCEPT ![c] = "active"]
    /\ \/ /\ Goto(c, "checked", "connecting")
          /\ bridge' = [bridge EXCEPT ![c] = "connecting"]
          /\ media' = [media EXCEPT ![c] = IF c \in AvatarCalls THEN "joining" ELSE "none"]
          /\ UNCHANGED minutes
       \/ /\ c \in AvatarCalls /\ Goto(c, "checked", "closing")
          /\ Elapses(c, 0)
          /\ UNCHANGED mediaVars
    /\ UNCHANGED <<aged, reason, seen, moneyVars>>

BridgeConnects(c) ==
    /\ phase[c] = "connecting" /\ bridge[c] = "connecting"
    /\ bridge' = [bridge EXCEPT ![c] = "open"]
    /\ UNCHANGED <<phase, row, aged, media, minutes, reason, seen, moneyVars>>

AvatarJoins(c) ==
    /\ phase[c] = "connecting" /\ media[c] = "joining"
    /\ media' = [media EXCEPT ![c] = "open"]
    /\ UNCHANGED <<phase, row, aged, bridge, minutes, reason, seen, moneyVars>>

\* Mutant: the join is not told to stop.
ConnectFailsAlone(c) ==
    /\ \/ bridge[c] = "connecting"
       \/ media[c] = "joining"
    /\ Goto(c, "connecting", "closing")
    /\ bridge' = [bridge EXCEPT ![c] = "closed"]
    /\ Elapses(c, 0)
    /\ UNCHANGED <<row, aged, media, reason, seen, moneyVars>>

\* One side fails: the other is cancelled, and a room still being joined is
\* left again; a room already open is closed by the handler's finally. The time
\* that was waited is the call's duration.
ConnectFails(c) ==
    /\ \/ bridge[c] = "connecting"
       \/ media[c] = "joining"
    /\ Goto(c, "connecting", "closing")
    /\ bridge' = [bridge EXCEPT ![c] = "closed"]
    /\ media' = [media EXCEPT ![c] = IF media[c] = "joining" THEN "none" ELSE media[c]]
    /\ Elapses(c, 0)
    /\ UNCHANGED <<row, aged, reason, seen, moneyVars>>

\* session.ready reaches the client. If the client is gone, run() raises
\* before its finally: nothing closes the bridge.
Connected(c) ==
    /\ bridge[c] = "open" /\ media[c] # "joining"
    /\ \/ Goto(c, "connecting", "live") /\ UNCHANGED minutes
       \/ Goto(c, "connecting", "closing") /\ Elapses(c, 0)
    /\ UNCHANGED <<row, aged, mediaVars, reason, seen, moneyVars>>

-----------------------------------------------------------------------------
(* The call and its end *)

\* A pump ends or the session's time is up: hang-up, timeout, provider, error.
CallEnds(c) ==
    /\ Goto(c, "live", "stopping")
    /\ Elapses(c, 1)
    /\ \E r \in {"ok", "error"} : reason' = [reason EXCEPT ![c] = r]
    /\ UNCHANGED <<row, aged, mediaVars, seen, moneyVars>>

CloseBridge(c) ==
    /\ Goto(c, "stopping", "stopped")
    /\ bridge' = [bridge EXCEPT ![c] = "closed"]
    /\ UNCHANGED <<row, aged, media, minutes, reason, seen, moneyVars>>

\* on_stopped, the farewell, and the final hook if there is one.
StopMedia(c) ==
    /\ Goto(c, "stopped", IF HasHook THEN "hook" ELSE "closing")
    /\ media' = [media EXCEPT ![c] = "none"]
    /\ UNCHANGED <<row, aged, bridge, minutes, reason, seen, moneyVars>>

\* The final workflow is awaited, whatever comes of it; duration_sec is read
\* afterwards and has gone on.
HookRuns(c) ==
    /\ Goto(c, "hook", "closing")
    /\ Elapses(c, 0)
    /\ UNCHANGED <<row, aged, mediaVars, reason, seen, moneyVars>>

-----------------------------------------------------------------------------
(* close_session: one transaction *)

\* The handler's finally closes the media it was given, then the row is
\* written and the agent's counters read.
ReadAgent(c) ==
    /\ Goto(c, "closing", "writing")
    /\ media' = [media EXCEPT ![c] = IF @ = "open" THEN "none" ELSE @]
    /\ seen' = [seen EXCEPT ![c] = count]
    /\ UNCHANGED <<row, aged, bridge, minutes, reason, moneyVars>>

\* The counters are written back, deduct_credits_up_to takes what there is,
\* and the transaction commits.
CloseCall(c) ==
    LET taken == IF minutes[c] < balance THEN minutes[c] ELSE balance
    IN  /\ Goto(c, "writing", "done")
        /\ row' = [row EXCEPT ![c] = IF reason[c] = "error" THEN "failed" ELSE "completed"]
        /\ count' = seen[c] + 1
        /\ balance' = balance - taken
        /\ charged' = [charged EXCEPT ![c] = taken]
        /\ shortfall' = [shortfall EXCEPT ![c] = minutes[c] - taken]
        /\ UNCHANGED <<aged, mediaVars, minutes, reason, seen>>

\* Mutant: the charge has been committed on its own.
CloseFailsCharged(c) ==
    /\ Goto(c, "writing", "lost")
    /\ balance' = balance - (IF minutes[c] < balance THEN minutes[c] ELSE balance)
    /\ UNCHANGED <<row, aged, mediaVars, minutes, reason, seen, count, charged, shortfall>>

\* The transaction fails and is rolled back: the row stays active.
CloseFails(c) ==
    /\ Goto(c, "writing", "lost")
    /\ UNCHANGED <<row, aged, mediaVars, minutes, reason, seen, moneyVars>>

-----------------------------------------------------------------------------
(* Crash *)

InProcess == {c \in Calls : phase[c] \notin {"idle", "done", "refused", "lost"}}

\* The process dies: connections drop, rows stay as they are.
Crash ==
    /\ InProcess # {}
    /\ phase' = [c \in Calls |-> IF c \in InProcess THEN "lost" ELSE phase[c]]
    /\ bridge' = [c \in Calls |-> "closed"] /\ media' = [c \in Calls |-> "none"]
    /\ UNCHANGED <<row, aged, minutes, reason, seen, moneyVars>>

\* Four hours pass for a row nobody will close, or whose hook runs that long.
Age(c) ==
    /\ row[c] = "active" /\ phase[c] \in {"lost", "hook"} /\ ~aged[c]
    /\ aged' = [aged EXCEPT ![c] = TRUE]
    /\ UNCHANGED <<phase, row, mediaVars, minutes, reason, seen, moneyVars>>

Step(c) ==
    \/ Accept(c) \/ Check(c) \/ Open(c)
    \/ BridgeConnects(c) \/ AvatarJoins(c) \/ ConnectFails(c) \/ Connected(c)
    \/ CallEnds(c) \/ CloseBridge(c) \/ StopMedia(c) \/ HookRuns(c)
    \/ ReadAgent(c) \/ CloseCall(c) \/ CloseFails(c) \/ Age(c)

CallsNext == (\E c \in Calls : Step(c)) \/ Crash

\* Every handler goes on: a call is cut off at voice_session_max_seconds, a
\* join has a deadline, and time passes for stranded rows. A hook need not end.
CallsFairness ==
    \A c \in Calls :
        /\ WF_callVars(Check(c) \/ Open(c) \/ ConnectFails(c) \/ Connected(c))
        /\ WF_callVars(CallEnds(c) \/ CloseBridge(c) \/ StopMedia(c))
        /\ WF_callVars(ReadAgent(c) \/ CloseCall(c) \/ CloseFails(c) \/ Age(c))

CallsSpec == CallsInit /\ [][CallsNext]_callVars /\ CallsFairness

-----------------------------------------------------------------------------
(* Correctness *)

\* Every variable has its type.
TypeOK ==
    /\ phase \in [Calls -> Phases]
    /\ row \in [Calls -> {"none", "active", "completed", "failed"}]
    /\ aged \in [Calls -> BOOLEAN]
    /\ bridge \in [Calls -> {"closed", "connecting", "open"}]
    /\ media \in [Calls -> {"none", "joining", "open"}]
    /\ minutes \in [Calls -> Nat] /\ reason \in [Calls -> {"ok", "error"}]
    /\ seen \in [Calls -> Nat] /\ count \in Nat
    /\ balance \in Nat /\ charged \in [Calls -> Nat] /\ shortfall \in [Calls -> Nat]

\* A call is charged by the closing of its row and by nothing else: a closed
\* call accounts for all its minutes, also one that never connected, and one that
\* ran short has drained the balance below what a new call needs (_charge).
CallsAccounted ==
    \A c \in Calls :
        /\ row[c] \in {"completed", "failed"} => charged[c] + shortfall[c] = minutes[c]
        /\ row[c] \notin {"completed", "failed"} => charged[c] = 0
        /\ shortfall[c] > 0 => balance < Floor

\* Whatever dies or fails on the way, what left the balance is what the closed
\* calls were charged (close_session and _charge in one transaction).
ClosedCallsExplainBalance ==
    /\ CallsAccounted
    /\ balance + SumFunctionOnSet(charged, Calls) = Credits

\* A call that has ended holds no avatar: on every way out of the handler, also
\* the failed joins, the room has been left, so the vendor bills for nobody
\* ("Either side failing must not leave the other running unsupervised").
NoAvatarLeftBehind ==
    \A c \in Calls :
        phase[c] \in {"hook", "writing", "done", "refused", "lost"} =>
            /\ media[c] = "none"
            /\ phase[c] = "hook" => bridge[c] = "closed"

\* A plan slot comes back whatever happens to the call that held it: "counting
\* it would let one crash hold a plan slot forever".
SlotsComeBack == \A c \in Calls : c \in Counted ~> c \notin Counted

================================================================================
