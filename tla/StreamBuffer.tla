---------------------------- MODULE StreamBuffer ----------------------------
(***************************************************************************)
(* The event stream of one streaming run: the executor appends numbered    *)
(* events to the run's buffer, clients follow it over SSE, and a client    *)
(* whose response ends or is lost comes back with the last number it saw.  *)
(*                                                                         *)
(* Text and step events are retained in a ring of MaxEvents, audio in a    *)
(* smaller ring of its own. Everything runs on one event loop: an append   *)
(* with its notification is one step, and so is what a subscription does   *)
(* between two suspensions (a yield, or the wait for a notification).      *)
(***************************************************************************)
EXTENDS Naturals, Sequences, FiniteSets, FiniteSetsExt

CONSTANTS
    Clients,
    MaxEvents,    \* max_events: the ring of text, step and terminal events
    MaxAudio,     \* audio_max_chunks: the ring of audio events
    MaxSeq,       \* bound: events of the run
    MaxLosses     \* bound: connections the network loses

ASSUME BufferAssumption ==
    /\ MaxEvents \in Nat \ {0} /\ MaxAudio \in Nat
    /\ MaxSeq \in Nat /\ MaxLosses \in Nat

EventKinds == {"control", "audio", "terminal"}

VARIABLES
    buffer,   \* "none" before open, "open", "dropped" after its time to live
    kind,     \* kind[s]: the kind of the event numbered s; Len(kind) is _seq
    log,      \* numbers retained in the ring of text and step events
    audio,    \* numbers retained in the audio ring
    at,       \* where each client's request stands
    batch,    \* events its subscription has found and not yet yielded
    cursor,   \* number up to which its subscription has read
    got,      \* history: the events the client has received, in order
    losses    \* connections lost so far

stored == <<buffer, kind, log, audio>>
reader == <<batch, cursor, got>>
vars == <<buffer, kind, log, audio, at, batch, cursor, got, losses>>

Finished == kind # <<>> /\ kind[Len(kind)] = "terminal"

LastReceived(c) == IF got[c] = <<>> THEN 0 ELSE got[c][Len(got[c])]

Received(c) == {got[c][i] : i \in DOMAIN got[c]}

\* The client has the event after which it closes its stream.
HasTerminal(c) == got[c] # <<>> /\ kind[LastReceived(c)] = "terminal"

\* Retained events the subscription has not read.
Pending(c) == {s \in log \cup audio : s > cursor[c]}

\* A full ring drops its oldest number.
Push(ring, limit, s) ==
    LET grown == ring \cup {s} IN
    IF Cardinality(grown) > limit THEN grown \ {Min(grown)} ELSE grown

\* notify_all: every subscription that waits will look again.
Notified == [c \in Clients |-> IF at[c] = "waiting" THEN "woken" ELSE at[c]]

Init ==
    /\ buffer = "none" /\ kind = <<>> /\ log = {} /\ audio = {}
    /\ at = [c \in Clients |-> "away"]
    /\ batch = [c \in Clients |-> {}]
    /\ cursor = [c \in Clients |-> 0]
    /\ got = [c \in Clients |-> <<>>]
    /\ losses = 0

-----------------------------------------------------------------------------
(* The run. *)

\* open_buffer, once the run is prepared.
Open ==
    /\ buffer = "none"
    /\ buffer' = "open"
    /\ UNCHANGED <<kind, log, audio, at, reader, losses>>

\* append: step events and text deltas.
EmitControl ==
    /\ buffer = "open" /\ ~Finished
    /\ Len(kind) + 1 < MaxSeq
    /\ kind' = Append(kind, "control")
    /\ log' = Push(log, MaxEvents, Len(kind) + 1)
    /\ at' = Notified
    /\ UNCHANGED <<buffer, audio, reader, losses>>

\* Mutant: audio takes its place in the ring of the text events.
EmitAudioRetained ==
    /\ buffer = "open" /\ ~Finished
    /\ Len(kind) + 1 < MaxSeq
    /\ kind' = Append(kind, "audio")
    /\ log' = Push(log, MaxEvents, Len(kind) + 1)
    /\ at' = Notified
    /\ UNCHANGED <<buffer, audio, reader, losses>>

\* append_transient: audio never takes a place in the ring of the others.
EmitAudio ==
    /\ buffer = "open" /\ ~Finished
    /\ Len(kind) + 1 < MaxSeq
    /\ kind' = Append(kind, "audio")
    /\ audio' = Push(audio, MaxAudio, Len(kind) + 1)
    /\ at' = Notified
    /\ UNCHANGED <<buffer, log, reader, losses>>

\* emit_execution_complete or emit_error: the run's last event.
Finish ==
    /\ buffer = "open" /\ ~Finished
    /\ Len(kind) < MaxSeq
    /\ kind' = Append(kind, "terminal")
    /\ log' = Push(log, MaxEvents, Len(kind) + 1)
    /\ at' = Notified
    /\ UNCHANGED <<buffer, audio, reader, losses>>

\* schedule_stream_cleanup: the buffer goes a while after the last event.
Expire ==
    /\ buffer = "open" /\ Finished
    /\ buffer' = "dropped" /\ log' = {} /\ audio' = {}
    /\ UNCHANGED <<kind, at, reader, losses>>

-----------------------------------------------------------------------------
(* A client and its request. *)

Goto(c, place) == at' = [at EXCEPT ![c] = place]

\* Mutant: the client comes back without its Last-Event-ID.
ConnectFromStart(c) ==
    /\ at[c] \in {"away", "ended"} /\ ~HasTerminal(c)
    /\ Goto(c, "asking")
    /\ cursor' = [cursor EXCEPT ![c] = 0]
    /\ UNCHANGED <<stored, batch, got, losses>>

\* A client without its terminal event asks for what follows the last it saw.
Connect(c) ==
    /\ at[c] \in {"away", "ended"} /\ ~HasTerminal(c)
    /\ Goto(c, "asking")
    /\ cursor' = [cursor EXCEPT ![c] = LastReceived(c)]
    /\ UNCHANGED <<stored, batch, got, losses>>

\* The request has seen the buffer; the response has not begun.
Accept(c) ==
    /\ at[c] = "asking" /\ buffer = "open"
    /\ Goto(c, "accepted")
    /\ UNCHANGED <<stored, reader, losses>>

\* Mutant: a request takes an expired buffer for one still to be opened.
RefuseUnopened(c) ==
    /\ at[c] = "asking" /\ buffer = "none"
    /\ Goto(c, "polling")
    /\ UNCHANGED <<stored, reader, losses>>

\* 404 after the ten seconds a request waits: the client polls the task instead.
Refuse(c) ==
    /\ at[c] = "asking" /\ buffer # "open"
    /\ Goto(c, "polling")
    /\ UNCHANGED <<stored, reader, losses>>

\* subscribe, as the response begins: a buffer gone meanwhile ends it.
Subscribe(c) ==
    /\ at[c] = "accepted"
    /\ Goto(c, IF buffer = "open" THEN "reading" ELSE "ended")
    /\ UNCHANGED <<stored, reader, losses>>

\* Mutant: a subscription waits after its scan without looking again.
RescanUnlessRead(c) ==
    /\ at[c] \in {"reading", "woken"} /\ batch[c] = {} /\ buffer = "open"
    /\ IF at[c] = "reading" /\ got[c] # <<>>
       THEN /\ Goto(c, "waiting")
            /\ UNCHANGED batch
       ELSE /\ batch' = [batch EXCEPT ![c] = Pending(c)]
            /\ Goto(c, IF Pending(c) = {} THEN "waiting" ELSE "reading")
    /\ UNCHANGED <<stored, cursor, got, losses>>

\* With nothing left to yield it looks again, and waits when there is nothing.
Rescan(c) ==
    /\ at[c] \in {"reading", "woken"} /\ batch[c] = {} /\ buffer = "open"
    /\ batch' = [batch EXCEPT ![c] = Pending(c)]
    /\ Goto(c, IF Pending(c) = {} THEN "waiting" ELSE "reading")
    /\ UNCHANGED <<stored, cursor, got, losses>>

\* Looking again in a dropped buffer is a KeyError, which breaks the response.
Break(c) ==
    /\ at[c] \in {"reading", "woken"} /\ batch[c] = {} /\ buffer # "open"
    /\ Goto(c, "ended")
    /\ UNCHANGED <<stored, reader, losses>>

Deliver(c, s) ==
    /\ at[c] = "reading" /\ batch[c] # {}
    /\ got' = [got EXCEPT ![c] = Append(@, s)]
    /\ cursor' = [cursor EXCEPT ![c] = s]
    /\ IF kind[s] = "terminal"
       THEN Goto(c, "ended") /\ batch' = [batch EXCEPT ![c] = {}]
       ELSE UNCHANGED at /\ batch' = [batch EXCEPT ![c] = @ \ {s}]
    /\ UNCHANGED <<stored, losses>>

\* Mutant: without the sort, the log goes before the audio.
YieldUnsorted(c) ==
    LET retained == {s \in batch[c] : kind[s] # "audio"} IN
    Deliver(c, Min(IF retained = {} THEN batch[c] ELSE retained))

\* Events go out by number; the terminal one ends the response.
Yield(c) == Deliver(c, Min(batch[c]))

\* 25 s without an event: the timeout cancels the subscription's generator, so
\* the response sends its keepalive and then ends.
KeepAlive(c) ==
    /\ at[c] \in {"waiting", "woken"}
    /\ Goto(c, "ended")
    /\ UNCHANGED <<stored, reader, losses>>

Connected == {"asking", "accepted", "reading", "waiting", "woken"}

\* The network loses the connection with whatever was not received.
Lose(c) ==
    /\ at[c] \in Connected /\ losses < MaxLosses
    /\ losses' = losses + 1
    /\ Goto(c, "away")
    /\ batch' = [batch EXCEPT ![c] = {}]
    /\ UNCHANGED <<stored, cursor, got>>

Respond(c) ==
    \/ Accept(c) \/ Refuse(c) \/ Subscribe(c)
    \/ Rescan(c) \/ Break(c) \/ Yield(c) \/ KeepAlive(c)

Next ==
    \/ Open \/ EmitControl \/ EmitAudio \/ Finish \/ Expire
    \/ \E c \in Clients : Connect(c) \/ Respond(c) \/ Lose(c)

Spec == Init /\ [][Next]_vars

\* The run ends and its buffer expires; a client comes back; the server's
\* coroutines run and their timeouts fire.
FairSpec ==
    /\ Spec
    /\ WF_vars(Open) /\ WF_vars(Finish) /\ WF_vars(Expire)
    /\ \A c \in Clients : WF_vars(Connect(c)) /\ WF_vars(Respond(c))

-----------------------------------------------------------------------------
(* Properties. *)

Places == Connected \cup {"away", "ended", "polling"}

\* Type invariant of the buffer, whose rings keep to their limits, and of the
\* clients' requests.
TypeOK ==
    /\ buffer \in {"none", "open", "dropped"}
    /\ kind \in Seq(EventKinds)
    /\ log \subseteq 1 .. Len(kind) /\ Cardinality(log) <= MaxEvents
    /\ audio \subseteq 1 .. Len(kind) /\ Cardinality(audio) <= MaxAudio
    /\ at \in [Clients -> Places]
    /\ batch \in [Clients -> SUBSET (1 .. Len(kind))]
    /\ cursor \in [Clients -> 0 .. Len(kind)]
    /\ got \in [Clients -> Seq(1 .. Len(kind))]
    /\ losses \in Nat

\* "Both assign a monotonic seq to every event so a late or reconnecting
\* subscriber replays from a cursor": over all its connections a client receives
\* events in the order of their numbers, none of them twice.
ReceivedInOrder ==
    \A c \in Clients : \A i, j \in DOMAIN got[c] : i < j => got[c][i] < got[c][j]

\* Events s and t have their place in the same ring.
SameRing(s, t) == (kind[t] = "audio") <=> (kind[s] = "audio")

\* A whole ring of later events of its own class followed the event s.
Overrun(s) ==
    Cardinality({t \in s + 1 .. Len(kind) : SameRing(s, t)})
        >= (IF kind[s] = "audio" THEN MaxAudio ELSE MaxEvents)

\* "heavy PCM never evicts retained control/text events": a client only misses
\* an event when a whole ring of later ones of its own class was appended.
NothingSkipped ==
    \A c \in Clients : \A s \in 1 .. LastReceived(c) : s \in Received(c) \/ Overrun(s)

\* "Re-check under the lock so a notify between the scan and the wait isn't
\* missed": no subscription sleeps on events it could yield.
WaiterIsWoken ==
    \A c \in Clients : at[c] = "waiting" /\ buffer = "open" => Pending(c) = {}

\* Once the run has ended, each client gets to its terminal event, or to the
\* refusal after which it polls the task.
EveryReaderEnds ==
    \A c \in Clients : Finished ~> (HasTerminal(c) \/ at[c] = "polling")

=============================================================================
