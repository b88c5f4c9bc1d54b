------------------------------- MODULE ChatRuns -------------------------------
(***************************************************************************)
(* Runs without the queue: each request starts run_workflow_isolated in a  *)
(* task of the API process with a database session of its own, and several *)
(* of them may serve one chat session and one client at a time. A run      *)
(* loads the chat's state once, publishes its rows at the first node       *)
(* boundary, and in one last transaction charges the organization, stores  *)
(* state, messages and counters and its outcome.                           *)
(*                                                                         *)
(* The values of the workflow's variables are the runs that set them. The  *)
(* client's project state is stored the way the chat's state is and is     *)
(* left out; of its row the counter is kept. Billing is on: the deduction  *)
(* locks the organization's row, so last transactions take turns.          *)
(*                                                                         *)
(* Between the two, a run's agents call their providers under              *)
(* agent_call_guard (core/concurrency_limiter.py): one slot of the         *)
(* organization's semaphore and one of the provider's, both in Redis. When *)
(* a parallel branch of the run fails, or its time is over, the call is    *)
(* cancelled wherever it stands.                                           *)
(***************************************************************************)
EXTENDS Naturals, Sequences, FiniteSets

CONSTANTS
    Runs, NoRun,
    OpeningRuns, \* with create_session: the chat they make has their name
    FirstChat,   \* a chat session that exists, empty
    NoRow,
    Vars,        \* variables of the state schema
    Untouched,   \* their default
    Outcomes,    \* what a run's nodes may amount to, from AnyOutcome
    Caps,        \* slots per semaphore: the organization's, then the provider's
    MaxManual, MaxFaults \* bounds: messages written by hand, crashes and Redis errors

AnyOutcome == [sets : SUBSET Vars, error : BOOLEAN, ends : BOOLEAN]

\* What the variables of a chat may hold, and its row.
States == [Vars -> Runs \cup {Untouched}]
Speakers == Runs \cup {NoRun}
ChatRows ==
    [state : States, active : BOOLEAN,
     messages : Seq([role : {"user", "assistant"}, by : Speakers])]

ASSUME ChatAssumption ==
    /\ OpeningRuns \subseteq Runs /\ NoRow \notin ChatRows
    /\ FirstChat \notin Runs /\ NoRow \notin Runs \cup {FirstChat} \cup Nat
    /\ Untouched \notin Runs /\ NoRun \notin Runs
    /\ Outcomes \subseteq AnyOutcome
    /\ Caps \in Seq(Nat \ {0})
    /\ MaxManual \in Nat /\ MaxFaults \in Nat

VARIABLES
    chats,     \* committed chat_sessions rows, NoRow when there is none
    client,    \* execution_count of the client's committed row, or NoRow
    execs,     \* committed status of each run's execution, or "none"
    charged,   \* executions whose credits are taken, committed
    phase,     \* where each run stands
    chat,      \* the chat session it works for
    base,      \* the chat's state when the run loaded it
    final,     \* the state its nodes left behind
    last,      \* what its last transaction holds: status, ends, paid
    creator,   \* who has inserted the client's row and not committed
    writer,    \* who has deducted credits and not committed
    reply,     \* what the request was answered
    overtaken, \* history: runs whose chat another run wrote after they loaded it
    asked,     \* the semaphore an agent call waits for; past the last, it runs
    slots,     \* tokens in each semaphore's sorted set, by run
    held,      \* the slots a run knows it has acquired
    unheard,   \* history: exchanges with Redis about a slot, cut off before their end
    manual, faults

tables  == <<chats, client, execs, charged>>
runData == <<chat, base, final>>
locks   == <<creator, writer>>
guard   == <<asked, slots, held, unheard>>
bounds  == <<manual, faults>>
vars == <<tables, phase, runData, last, locks, reply, overtaken, guard, bounds>>

Defaults == [v \in Vars |-> Untouched]
Nothing  == [status |-> "none", ends |-> FALSE, paid |-> FALSE]

ChatRow == [state |-> Defaults, active |-> TRUE, messages |-> <<>>]
Greeting == [role |-> "assistant", by |-> NoRun]
ByHand   == [role |-> "user", by |-> NoRun]
Turn(r)  == <<[role |-> "user", by |-> r], [role |-> "assistant", by |-> r]>>

Settled == {r \in Runs : execs[r] \in {"completed", "error"}}
Loaded  == {r \in Runs : phase[r] \in {"running", "written", "failing"}}

InGuard(r) == asked[r] > 0

\* Rows that the run has inserted and no transaction has published.
Fresh(r) == r \in Loaded /\ execs[r] = "none"

\* update_state: SQLAlchemy writes the column only when it differs from what
\* the run had loaded.
Stored(row, r) == IF final[r] = base[r] THEN row ELSE final[r]

\* save_message: the row, and the counter with it.
Said(c, new) == [c EXCEPT !.messages = @ \o new]

Init ==
    /\ chats = [c \in {FirstChat} \cup OpeningRuns |-> IF c = FirstChat THEN ChatRow ELSE NoRow]
    /\ client = NoRow /\ charged = {}
    /\ execs = [r \in Runs |-> "none"]
    /\ phase = [r \in Runs |-> "idle"] /\ chat = [r \in Runs |-> NoRow]
    /\ base = [r \in Runs |-> Defaults] /\ final = base
    /\ last = [r \in Runs |-> Nothing]
    /\ creator = NoRun /\ writer = NoRun
    /\ reply = [r \in Runs |-> "none"]
    /\ overtaken = {} /\ manual = 0 /\ faults = 0
    /\ asked = [r \in Runs |-> 0] /\ held = [r \in Runs |-> {}]
    /\ slots = [k \in DOMAIN Caps |-> {}] /\ unheard = {}

Goto(r, from, to) == phase[r] = from /\ phase' = [phase EXCEPT ![r] = to]

\* Its session is rolled back; nobody sets the futures the request waits for.
Lost(r, from) ==
    /\ Goto(r, from, "lost")
    /\ creator' = IF creator = r THEN NoRun ELSE creator
    /\ writer' = IF writer = r THEN NoRun ELSE writer

-----------------------------------------------------------------------------
(* Preparation *)

\* The request names a chat session that exists, or asks for a new one, and
\* leaves the run to a task.
Dispatch(r) ==
    /\ Goto(r, "idle", "starting")
    /\ \/ r \in OpeningRuns /\ UNCHANGED chat
       \/ /\ r \notin OpeningRuns
          /\ \E c \in DOMAIN chats : chats[c] # NoRow /\ chat' = [chat EXCEPT ![r] = c]
    /\ UNCHANGED <<tables, base, final, last, locks, reply, overtaken, guard, bounds>>

\* get_or_create_by_client_id: a row nobody has committed is not there; the
\* second insert waits for the first one's transaction.
GetClient(r) ==
    /\ \/ client # NoRow /\ Goto(r, "starting", "loading") /\ UNCHANGED creator
       \/ /\ client = NoRow /\ creator = NoRun
          /\ Goto(r, "starting", "loading") /\ creator' = r
       \/ /\ client = NoRow /\ creator # NoRun
          /\ Goto(r, "starting", "inserting") /\ UNCHANGED creator
    /\ UNCHANGED <<tables, runData, last, writer, reply, overtaken, guard, bounds>>

\* The other transaction is over: the key is taken, or the insert succeeds.
InsertClient(r) ==
    /\ creator = NoRun
    /\ \/ client # NoRow /\ Lost(r, "inserting")
       \/ client = NoRow /\ Goto(r, "inserting", "loading") /\ creator' = r /\ UNCHANGED writer
    /\ UNCHANGED <<tables, runData, last, reply, overtaken, guard, bounds>>

\* Mutant: the defaults of the schema instead of the chat's state.
LoadedDefaults(c) == Defaults

\* _load_initial_state.
LoadedState(c) == chats[c].state

\* The chat session is made or loaded and the execution row inserted.
Load(r) ==
    /\ Goto(r, "loading", "running")
    /\ \/ /\ r \in OpeningRuns
          /\ chat' = [chat EXCEPT ![r] = r] /\ UNCHANGED base
       \/ /\ r \notin OpeningRuns /\ chats[chat[r]] # NoRow
          /\ base' = [base EXCEPT ![r] = LoadedState(chat[r])] /\ UNCHANGED chat
    /\ UNCHANGED <<tables, final, last, locks, reply, overtaken, guard, bounds>>

\* The chat session was deleted since the request checked it.
LoadFails(r) ==
    /\ r \notin OpeningRuns /\ Lost(r, "loading")
    /\ chats[chat[r]] = NoRow
    /\ UNCHANGED <<tables, runData, last, reply, overtaken, guard, bounds>>

-----------------------------------------------------------------------------
(* The nodes *)

\* The rows a first commit publishes: execution, client and chat session, the
\* latter with its greeting.
PublishedChats(r) ==
    IF Fresh(r) /\ r \in OpeningRuns
    THEN [chats EXCEPT ![r] = Said(ChatRow, <<Greeting>>)] ELSE chats
PublishedClient(r) == IF creator = r THEN 0 ELSE client

\* The first node boundary of the run.
Checkpoint(r) ==
    /\ phase[r] = "running" /\ execs[r] = "none"
    /\ execs' = [execs EXCEPT ![r] = "running"]
    /\ chats' = PublishedChats(r) /\ client' = PublishedClient(r)
    /\ creator' = IF creator = r THEN NoRun ELSE creator
    /\ UNCHANGED <<charged, phase, runData, last, writer, reply, overtaken, guard, bounds>>

\* _handle_error after an exception of a node or too few credits: the row is
\* marked, nothing else is stored.
Fail(r) ==
    /\ Goto(r, "running", "failing") /\ ~InGuard(r)
    /\ last' = [last EXCEPT ![r] = [Nothing EXCEPT !.status = "failed"]]
    /\ UNCHANGED <<tables, runData, locks, reply, overtaken, guard, bounds>>

-----------------------------------------------------------------------------
(* agent_call_guard *)

Waits(r, k) == asked[r] = k /\ k \in DOMAIN Caps

\* The agent node has given its connection back and asks for the first slot.
BeginCall(r) ==
    /\ phase[r] = "running" /\ execs[r] = "running" /\ ~InGuard(r)
    /\ asked' = [asked EXCEPT ![r] = 1]
    /\ UNCHANGED <<tables, phase, runData, last, locks, reply, overtaken, slots, held,
                   unheard, bounds>>

\* The Lua script counts and adds in one step.
TakeSlot(r, k) ==
    /\ Waits(r, k) /\ Cardinality(slots[k]) < Caps[k]
    /\ slots' = [slots EXCEPT ![k] = @ \cup {r}]
    /\ held' = [held EXCEPT ![r] = @ \cup {k}]
    /\ asked' = [asked EXCEPT ![r] = k + 1]
    /\ UNCHANGED <<tables, phase, runData, last, locks, reply, overtaken, unheard, bounds>>

\* No slot within the acquire timeout: the call goes ahead without one.
GoWithout(r, k) ==
    /\ Waits(r, k) /\ Cardinality(slots[k]) >= Caps[k]
    /\ asked' = [asked EXCEPT ![r] = k + 1]
    /\ UNCHANGED <<tables, phase, runData, last, locks, reply, overtaken, slots, held,
                   unheard, bounds>>

\* Redis fails, before the script ran or before its answer came back.
RedisFails(r, k) ==
    /\ Waits(r, k) /\ faults < MaxFaults
    /\ faults' = faults + 1
    /\ \/ UNCHANGED slots
       \/ /\ Cardinality(slots[k]) < Caps[k]
          /\ slots' = [slots EXCEPT ![k] = @ \cup {r}]
    /\ asked' = [asked EXCEPT ![r] = k + 1]
    /\ unheard' = unheard \cup {<<r, k>>}
    /\ UNCHANGED <<tables, phase, runData, last, locks, reply, overtaken, held, manual>>

\* Mutant: only the inner slot is given back.
EndCallInner(r) ==
    /\ asked[r] > Len(Caps)
    /\ asked' = [asked EXCEPT ![r] = 0]
    /\ held' = [held EXCEPT ![r] = {}]
    /\ slots' = [k \in DOMAIN Caps |-> IF k \in held[r] \ {1} THEN slots[k] \ {r} ELSE slots[k]]
    /\ UNCHANGED <<tables, phase, runData, last, locks, reply, overtaken, unheard, bounds>>

\* The call ends, by an exception too: what was acquired is given back.
EndCall(r) ==
    /\ asked[r] > Len(Caps)
    /\ asked' = [asked EXCEPT ![r] = 0]
    /\ held' = [held EXCEPT ![r] = {}]
    /\ slots' = [k \in DOMAIN Caps |-> IF k \in held[r] THEN slots[k] \ {r} ELSE slots[k]]
    /\ UNCHANGED <<tables, phase, runData, last, locks, reply, overtaken, unheard, bounds>>

\* Redis fails when a slot is given back: it stays.
ReleaseFails(r, k) ==
    /\ asked[r] > Len(Caps) /\ k \in held[r] /\ faults < MaxFaults
    /\ faults' = faults + 1
    /\ held' = [held EXCEPT ![r] = @ \ {k}]
    /\ unheard' = unheard \cup {<<r, k>>}
    /\ UNCHANGED <<tables, phase, runData, last, locks, reply, overtaken, asked, slots, manual>>

\* Cancelled while Redis runs the script: the slot is taken and nobody knows.
AcquireCut(r, k) ==
    /\ Waits(r, k) /\ Cardinality(slots[k]) < Caps[k]
    /\ slots' = [slots EXCEPT ![k] = @ \cup {r}]
    /\ unheard' = unheard \cup {<<r, k>>}
    /\ UNCHANGED held

\* Cancelled while it gives a slot back: Redis has removed it, or never will.
ReleaseCut(r, k) ==
    /\ asked[r] > Len(Caps) /\ k \in held[r]
    /\ held' = [held EXCEPT ![r] = @ \ {k}]
    /\ unheard' = unheard \cup {<<r, k>>}
    /\ slots' \in {slots, [slots EXCEPT ![k] = @ \ {r}]}

\* _cancel_running: the call is cancelled where it stands. It unwinds, giving back
\* what it knows of, before the run gets to its error path.
Cancel(r) ==
    /\ Goto(r, "running", "failing") /\ InGuard(r)
    /\ last' = [last EXCEPT ![r] = [Nothing EXCEPT !.status = "failed"]]
    /\ asked' = [asked EXCEPT ![r] = Len(Caps) + 1]
    /\ \/ UNCHANGED <<slots, held, unheard>>
       \/ \E k \in DOMAIN Caps : AcquireCut(r, k) \/ ReleaseCut(r, k)
    /\ UNCHANGED <<tables, runData, locks, reply, overtaken, bounds>>

\* A token nobody will give back outlives its call by the acquire timeout at least.
Expire(r, k) ==
    /\ r \in slots[k] /\ k \notin held[r] /\ ~InGuard(r)
    /\ slots' = [slots EXCEPT ![k] = @ \ {r}]
    /\ unheard' = unheard \ {<<r, k>>}
    /\ UNCHANGED <<tables, phase, runData, last, locks, reply, overtaken, asked, held, bounds>>

-----------------------------------------------------------------------------
(* The last transaction *)

\* _finalization_phase: credits, state, counters, messages, outcome.
Settle(r, o) ==
    /\ writer = NoRun /\ execs[r] = "running" /\ ~InGuard(r) /\ chats[chat[r]] # NoRow
    /\ Goto(r, "running", "written") /\ writer' = r
    /\ final' = [final EXCEPT ![r] = [v \in Vars |-> IF v \in o.sets THEN r ELSE base[r][v]]]
    /\ last' = [last EXCEPT ![r] =
                  [status |-> IF o.error THEN "error" ELSE "completed",
                   ends |-> o.ends, paid |-> TRUE]]
    /\ UNCHANGED <<tables, chat, base, creator, reply, overtaken, guard, bounds>>

\* The chat session is gone: storing the state raises after the deduction, and
\* the transaction that marks the run as failed keeps the deduction.
SettleWithoutChat(r) ==
    /\ writer = NoRun /\ execs[r] = "running" /\ ~InGuard(r) /\ chats[chat[r]] = NoRow
    /\ Goto(r, "running", "failing") /\ writer' = r
    /\ last' = [last EXCEPT ![r] = [Nothing EXCEPT !.status = "failed", !.paid = TRUE]]
    /\ UNCHANGED <<tables, runData, creator, reply, overtaken, guard, bounds>>

\* Mutant: messages of failed runs are kept as well.
CommittedAlways(r) ==
    LET c == PublishedChats(r)[chat[r]] IN
    IF c = NoRow THEN NoRow
    ELSE Said([c EXCEPT !.state = Stored(@, r), !.active = @ /\ ~last[r].ends], Turn(r))

\* The chat as the transaction leaves it: state, both messages, ended or not.
Committed(r) ==
    LET c == PublishedChats(r)[chat[r]] IN
    IF last[r].status = "failed" THEN c
    ELSE Said([c EXCEPT !.state = Stored(@, r), !.active = @ /\ ~last[r].ends], Turn(r))

\* The commit of run_workflow_isolated.
Commit(r) ==
    /\ \/ Goto(r, "written", "over")
       \/ Goto(r, "failing", "over") /\ ~InGuard(r)
    /\ chats' = [PublishedChats(r) EXCEPT ![chat[r]] = Committed(r)]
    /\ client' = IF last[r].status = "failed" THEN PublishedClient(r) ELSE client + 1
    /\ execs' = [execs EXCEPT ![r] = last[r].status]
    /\ charged' = IF last[r].paid THEN charged \cup {r} ELSE charged
    /\ creator' = IF creator = r THEN NoRun ELSE creator
    /\ writer' = IF writer = r THEN NoRun ELSE writer
    /\ overtaken' = overtaken \cup
         {o \in Loaded \ {r} : chat[o] = chat[r] /\ last[r].status # "failed"}
    /\ UNCHANGED <<runData, last, reply, guard, bounds>>

\* The commit raises, after the request may have been answered.
CommitFails(r) ==
    /\ \/ Lost(r, "written")
       \/ Lost(r, "failing") /\ ~InGuard(r)
    /\ UNCHANGED <<tables, runData, last, reply, overtaken, guard, bounds>>

-----------------------------------------------------------------------------
(* The request that waits (_dispatch_sync) *)

Answered(r, with) ==
    /\ phase[r] # "idle" /\ reply[r] = "none"
    /\ reply' = [reply EXCEPT ![r] = with]
    /\ UNCHANGED <<tables, phase, runData, last, locks, overtaken, guard, bounds>>

\* execution_id_future is set once the run is prepared: its identifier is the
\* answer to task=true, and to a run that takes too long.
AnswerId(r) ==
    /\ Fresh(r) \/ last[r] # Nothing \/ execs[r] # "none"
    /\ Answered(r, "id")

\* result_future is set before the commit.
AnswerResult(r) == last[r] # Nothing /\ ~InGuard(r) /\ Answered(r, last[r].status)

\* No identifier within thirty seconds.
AnswerTimeout(r) ==
    /\ \/ phase[r] \in {"starting", "inserting", "loading"}
       \/ phase[r] = "lost" /\ last[r] = Nothing /\ execs[r] = "none"
    /\ Answered(r, "504")

-----------------------------------------------------------------------------
(* Other requests, and the end of the process *)

\* delete_chat_session waits for the transactions that refer to the row, and
\* takes the messages along.
DeleteChat(c) ==
    /\ chats[c] # NoRow
    /\ \A r \in Runs : chat[r] = c => ~Fresh(r) /\ phase[r] # "written"
    /\ chats' = [chats EXCEPT ![c] = NoRow]
    /\ UNCHANGED <<client, execs, charged, phase, runData, last, locks, reply, overtaken,
                   guard, bounds>>

\* send_manual_message: only to an active chat session.
SendMessage(c) ==
    /\ manual < MaxManual
    /\ chats[c] # NoRow /\ chats[c].active
    /\ \A r \in Runs : chat[r] = c => phase[r] # "written"
    /\ manual' = manual + 1
    /\ chats' = [chats EXCEPT ![c] = Said(@, <<ByHand>>)]
    /\ UNCHANGED <<client, execs, charged, phase, runData, last, locks, reply, overtaken,
                   guard, faults>>

Crash ==
    /\ faults < MaxFaults
    /\ faults' = faults + 1
    /\ phase' = [r \in Runs |-> IF phase[r] \in {"idle", "over"} THEN phase[r] ELSE "lost"]
    /\ creator' = NoRun /\ writer' = NoRun
    /\ reply' = [r \in Runs |-> IF phase[r] # "idle" /\ reply[r] = "none" THEN "cut" ELSE reply[r]]
    /\ asked' = [r \in Runs |-> 0] /\ held' = [r \in Runs |-> {}]
    /\ unheard' = unheard \cup {t \in Runs \X DOMAIN Caps : t[2] \in held[t[1]]}
    /\ UNCHANGED <<tables, runData, last, overtaken, slots, manual>>

-----------------------------------------------------------------------------

RunStep(r) ==
    \/ GetClient(r) \/ InsertClient(r) \/ Load(r) \/ LoadFails(r)
    \/ Checkpoint(r) \/ Fail(r) \/ SettleWithoutChat(r) \/ Commit(r) \/ CommitFails(r)
    \/ \E o \in Outcomes : Settle(r, o)
    \/ BeginCall(r) \/ EndCall(r) \/ Cancel(r)
    \/ \E k \in DOMAIN Caps :
         TakeSlot(r, k) \/ GoWithout(r, k) \/ RedisFails(r, k)
         \/ ReleaseFails(r, k) \/ Expire(r, k)

Next ==
    \/ \E r \in Runs :
         \/ Dispatch(r) \/ RunStep(r)
         \/ AnswerId(r) \/ AnswerResult(r) \/ AnswerTimeout(r)
    \/ \E c \in DOMAIN chats : DeleteChat(c) \/ SendMessage(c)
    \/ Crash

Spec == Init /\ [][Next]_vars

-----------------------------------------------------------------------------
SaidBy(r, c) == \E i \in DOMAIN chats[c].messages : chats[c].messages[i].by = r

\* A run is stored as a whole or not at all: what is settled is charged, counted
\* for its client and, while the chat exists, said in it; what failed or was lost
\* left no message and no count, and was charged only if its chat was deleted
\* under it. Nobody is told of a completion that was not written.
\* (_finalization_phase and the one commit of run_workflow_isolated)
SettledWhole ==
    /\ Settled \subseteq charged
    /\ \A r \in charged \ Settled : execs[r] = "failed" /\ chats[chat[r]] = NoRow
    /\ client = NoRow => Settled = {}
    /\ client # NoRow => client = Cardinality(Settled)
    /\ \A c \in DOMAIN chats, r \in Runs :
         chats[c] # NoRow => (SaidBy(r, c) <=> r \in Settled /\ chat[r] = c)
    /\ \A r \in Runs : reply[r] \in {"completed", "error"} =>
         r \in Settled \/ phase[r] \in {"written", "lost"}

\* A run changes the variables its nodes set, and keeps the rest. Only a run that
\* another one overtook, and whose own nodes changed something, also puts variables
\* back, and then to what it had loaded: a run that changed nothing undoes nobody, and
\* nothing comes up that nobody set.  (_load_initial_state, update_state)
WritesOwnOrLoaded ==
    [][\A r \in Runs : phase[r] = "written" /\ phase'[r] = "over" =>
         \A v \in Vars :
           LET now == (PublishedChats(r))[chat[r]].state[v]
               new == chats'[chat[r]].state[v]
           IN new # now =>
                \/ new = r
                \/ r \in overtaken /\ final[r] # base[r] /\ new = base[r][v]]_vars

\* No semaphore ever holds more slots than its cap, and a slot stands for a call in
\* progress. One is left behind, until it expires, only where the exchange with Redis
\* about this very slot was cut off: by a crash, an error or a cancellation inside it.
\* A call that ends, is cancelled elsewhere or goes ahead without a slot leaves none.
\* ("Acquire is a single atomic Lua script", concurrency_limiter.py)
SlotsAreCalls ==
    \A k \in DOMAIN Caps :
        /\ Cardinality(slots[k]) <= Caps[k]
        /\ \A r \in Runs :
             /\ k \in held[r] => r \in slots[k] /\ asked[r] > k
             /\ r \in slots[k] => k \in held[r] \/ <<r, k>> \in unheard
=============================================================================
