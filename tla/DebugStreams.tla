----------------------------- MODULE DebugStreams -----------------------------
(***************************************************************************)
(* The streams of debug runs (execution/debug_event_manager.py without     *)
(* Redis) and the requests that follow them (_dispatch_debug_stream). A    *)
(* request starts its run in a task of its own and finds a stream by       *)
(* looking at the manager's table: it takes the oldest one there, whoever  *)
(* made it. Requests are named by the run they started.                    *)
(***************************************************************************)
EXTENDS Naturals, Sequences

CONSTANTS Runs, NoRun

ASSUME StreamsAssumption == NoRun \notin Runs

VARIABLES
    phase,     \* each run: "idle", "starting", "waiting", "running", "over", "lost"
    streams,   \* _streams: who has a queue
    made,      \* the runs whose queue was ever made, in that order
    ready,     \* _client_ready events that are set
    buffered,  \* runs with an open replay buffer: is_streaming
    timers,    \* scheduled _drop_later tasks
    ended,     \* queues that hold the terminal event
    listener,  \* each request: "none", "listening", "gone"
    follows    \* the run whose queue it drains

table == <<streams, made, ready, buffered>>
debugVars == <<phase, table, timers, ended, listener, follows>>

HasStream(e) == e \in streams

\* The table is a dict: its first key is the oldest one left.
Oldest == Head(SelectSeq(made, HasStream))

\* emit_event: into the replay buffer, and into the queue if there is one.
Queued(e) == IF HasStream(e) THEN {e} ELSE {}

MovesOn(r, from, to) == phase[r] = from /\ phase' = [phase EXCEPT ![r] = to]

DebugInit ==
    /\ phase = [r \in Runs |-> "idle"]
    /\ streams = {} /\ made = <<>> /\ ready = {} /\ buffered = {} /\ timers = {} /\ ended = {}
    /\ listener = [r \in Runs |-> "none"]
    /\ follows = [r \in Runs |-> NoRun]

\* cleanup_stream.
Cleanup(e) ==
    /\ streams' = streams \ {e}
    /\ ready' = ready \ {e}
    /\ buffered' = buffered \ {e}
    /\ UNCHANGED made

-----------------------------------------------------------------------------
(* The run. *)

\* create_stream: queue, ready event and buffer.
CreateStream(r) ==
    /\ MovesOn(r, "starting", "waiting")
    /\ streams' = streams \cup {r} /\ made' = Append(made, r)
    /\ buffered' = buffered \cup {r}
    /\ UNCHANGED <<ready, timers, ended, listener, follows>>

\* The preparation raises before the stream is there.
PrepareFails(r) ==
    /\ MovesOn(r, "starting", "lost")
    /\ UNCHANGED <<table, timers, ended, listener, follows>>

\* wait_for_client.
ClientReady(r) ==
    /\ r \in ready /\ MovesOn(r, "waiting", "running")
    /\ UNCHANGED <<table, timers, ended, listener, follows>>

\* Ten seconds without a client, or with one that left again.
WaitTimesOut(r) ==
    /\ r \notin ready /\ MovesOn(r, "waiting", "running")
    /\ UNCHANGED <<table, timers, ended, listener, follows>>

\* A piece of text or sound: its sink was made while the stream was open, and
\* appending to a dropped buffer opens it again.
EmitDelta(r) ==
    /\ phase[r] = "running"
    /\ buffered' = buffered \cup {r}
    /\ UNCHANGED <<phase, streams, made, ready, timers, ended, listener, follows>>

\* Mutant: only a run whose queue is still there schedules the cleanup.
EmitTerminalForQueue(r) ==
    /\ MovesOn(r, "running", "over")
    /\ ended' = IF r \in buffered THEN ended \cup Queued(r) ELSE ended
    /\ timers' = IF HasStream(r) THEN timers \cup {r} ELSE timers
    /\ UNCHANGED <<table, listener, follows>>

\* The run's last event, execution_complete or error, goes out while
\* is_streaming, and the cleanup is scheduled.
EmitTerminal(r) ==
    /\ MovesOn(r, "running", "over")
    /\ ended' = IF r \in buffered THEN ended \cup Queued(r) ELSE ended
    /\ timers' = IF r \in buffered THEN timers \cup {r} ELSE timers
    /\ UNCHANGED <<table, listener, follows>>

\* _drop_later.
DropLater(e) ==
    /\ e \in timers
    /\ timers' = timers \ {e}
    /\ Cleanup(e)
    /\ UNCHANGED <<phase, ended, listener, follows>>

-----------------------------------------------------------------------------
(* The request. *)

\* A task starts the run; the response begins.
Listen(r) ==
    /\ MovesOn(r, "idle", "starting")
    /\ listener' = [listener EXCEPT ![r] = "listening"]
    /\ UNCHANGED <<table, timers, ended, follows>>

\* The discovery loop finds the first stream of the table and tells the run
\* that made it that a client is there.
Discover(r) ==
    /\ listener[r] = "listening" /\ follows[r] = NoRun /\ streams # {}
    /\ follows' = [follows EXCEPT ![r] = Oldest]
    /\ ready' = ready \cup {Oldest}
    /\ UNCHANGED <<phase, streams, made, buffered, timers, ended, listener>>

\* Ten seconds without any stream: an error event, and the response ends.
GiveUp(r) ==
    /\ listener[r] = "listening" /\ follows[r] = NoRun /\ streams = {}
    /\ listener' = [listener EXCEPT ![r] = "gone"]
    /\ UNCHANGED <<phase, table, timers, ended, follows>>

\* Mutant: the queue must still be in the table.
HearWhileListed(r) ==
    /\ listener[r] = "listening" /\ follows[r] \in ended
    /\ HasStream(follows[r])
    /\ ended' = ended \ {follows[r]}
    /\ listener' = [listener EXCEPT ![r] = "gone"]
    /\ Cleanup(follows[r])
    /\ UNCHANGED <<phase, timers, follows>>

\* The terminal event comes out of the queue: the response ends and removes
\* the stream it followed.
Hear(r) ==
    /\ listener[r] = "listening" /\ follows[r] \in ended
    /\ ended' = ended \ {follows[r]}
    /\ listener' = [listener EXCEPT ![r] = "gone"]
    /\ Cleanup(follows[r])
    /\ UNCHANGED <<phase, timers, follows>>

\* The client disconnects: the generator is cancelled and its finally removes
\* the stream, if it had found one.
HangUp(r) ==
    /\ listener[r] = "listening"
    /\ listener' = [listener EXCEPT ![r] = "gone"]
    /\ IF follows[r] = NoRun THEN UNCHANGED table ELSE Cleanup(follows[r])
    /\ UNCHANGED <<phase, timers, ended, follows>>

-----------------------------------------------------------------------------

RunStep(r) ==
    \/ CreateStream(r) \/ PrepareFails(r) \/ ClientReady(r) \/ WaitTimesOut(r)
    \/ EmitTerminal(r)

ListenerStep(r) == Discover(r) \/ GiveUp(r) \/ Hear(r)

DebugNext ==
    \E r \in Runs :
        Listen(r) \/ RunStep(r) \/ EmitDelta(r) \/ ListenerStep(r) \/ HangUp(r) \/ DropLater(r)

\* A run ends, by its nodes' timeouts if need be; the generator polls and
\* drains its queue.
DebugSpec ==
    /\ DebugInit /\ [][DebugNext]_debugVars
    /\ \A r \in Runs : WF_debugVars(RunStep(r)) /\ WF_debugVars(ListenerStep(r))

-----------------------------------------------------------------------------
\* When a run is over and no cleanup is scheduled, its queue and buffer are gone,
\* whoever listened, hung up, or took the stream for its own.
\* (cleanup_stream, schedule_stream_cleanup)
NoStreamLeftBehind ==
    \A r \in Runs : phase[r] \in {"over", "lost"} /\ r \notin timers =>
        ~HasStream(r) /\ r \notin buffered

\* A debug response ends, whichever run's stream it took for its own, provided that
\* no other response ever followed the same stream: of two on one queue only one
\* gets the terminal event, or the one that leaves drops it for both.
\* (_dispatch_debug_stream)
DebugResponseEnds ==
    \A r \in Runs :
        (listener[r] = "listening" /\
            [](\A o \in Runs \ {r} : follows[o] = NoRun \/ follows[o] # follows[r])) ~>
                listener[r] = "gone"
=============================================================================
