--------------------------------- MODULE RunProofs ---------------------------------
(***************************************************************************)
(* Proofs about runs. Of ChatRuns, for any runs, chats and variables, any  *)
(* row of semaphores and any caps: of the calls to providers (Inv), and of *)
(* what the runs store (RunInv); the two do not need each other. Of        *)
(* ParallelRun, for every graph: of the steps' numbers (NumbersInv), of    *)
(* the order in which the scheduler launches nodes (ScheduleInv), that no  *)
(* branch is lost (Told), and which threads of a run there are beside each *)
(* other (ThreadInv).                                                      *)
(***************************************************************************)
EXTENDS ChatRuns, ParallelRun, FiniteSetTheorems, SequenceTheorems, WellFoundedInduction, TLAPS

GuardType ==
    /\ asked \in [Runs -> Nat]
    /\ held \in [Runs -> SUBSET (DOMAIN Caps)]
    /\ slots \in [DOMAIN Caps -> SUBSET Runs]
    /\ unheard \subseteq Runs \X DOMAIN Caps

\* A semaphore is never overfull, which is only well said of finite sets.
CapInv ==
    \A k \in DOMAIN Caps : IsFiniteSet(slots[k]) /\ Cardinality(slots[k]) <= Caps[k]

\* A slot a run knows of is one of a semaphore it has passed, and there are others
\* only where an exchange about them was cut off.
HeldInv ==
    \A k \in DOMAIN Caps, r \in Runs :
        /\ k \in held[r] => r \in slots[k] /\ asked[r] > k
        /\ r \in slots[k] => k \in held[r] \/ <<r, k>> \in unheard

Inv == GuardType /\ CapInv /\ HeldInv

\* What the semaphores and the calls are told apart by.
guardVars == <<asked, slots, held, unheard>>

\* ChatAssumption, as the steps below need it.
LEMMA CapsAreCounts ==
    \A k \in DOMAIN Caps : k \in Nat /\ k <= Len(Caps) /\ Caps[k] \in Nat
BY ChatAssumption DEF ChatAssumption

\* No slot is taken at first.
LEMMA InitInv == Init => Inv
<1> SUFFICES ASSUME Init PROVE Inv
  OBVIOUS
<1>1. GuardType /\ HeldInv
  BY DEF Init, GuardType, HeldInv
<1>2. CapInv
  BY FS_EmptySet, CapsAreCounts DEF Init, CapInv
<1> QED BY <1>1, <1>2 DEF Inv

\* A slot is taken only below the cap, whether or not the run that takes it has
\* one there that was lost.
LEMMA TakingKeepsCaps ==
    ASSUME Inv, NEW r \in Runs, NEW k \in DOMAIN Caps,
           Cardinality(slots[k]) < Caps[k],
           slots' = [slots EXCEPT ![k] = @ \cup {r}]
    PROVE  CapInv'
<1> SUFFICES ASSUME NEW j \in DOMAIN Caps
             PROVE  IsFiniteSet(slots'[j]) /\ Cardinality(slots'[j]) <= Caps[j]
  BY DEF CapInv
<1>1. IsFiniteSet(slots[k]) /\ Cardinality(slots[k]) \in Nat
  BY FS_CardinalityType DEF Inv, CapInv
<1>2. CASE j = k
  <2>1. slots'[j] = slots[k] \cup {r}
    BY <1>2 DEF Inv, GuardType
  <2>2. /\ IsFiniteSet(slots[k] \cup {r})
        /\ \/ Cardinality(slots[k] \cup {r}) = Cardinality(slots[k])
           \/ Cardinality(slots[k] \cup {r}) = Cardinality(slots[k]) + 1
    BY <1>1, FS_AddElement
  <2>3. Cardinality(slots[k] \cup {r}) <= Caps[k]
    <3> DEFINE n == Cardinality(slots[k])  m == Cardinality(slots[k] \cup {r})
    <3> HIDE DEF n, m
    <3>1. n \in Nat /\ n < Caps[k] /\ Caps[k] \in Nat /\ (m = n \/ m = n + 1)
      BY <1>1, <2>2, CapsAreCounts DEF n, m
    <3>2. m <= Caps[k]
      BY <3>1
    <3> QED BY <3>2 DEF m
  <2> QED BY <1>2, <2>1, <2>2, <2>3
<1>3. CASE j # k
  BY <1>3 DEF Inv, GuardType, CapInv
<1> QED BY <1>2, <1>3

\* Giving slots back never fills a semaphore.
LEMMA GivingBackKeepsCaps ==
    ASSUME Inv, slots' \in [DOMAIN Caps -> SUBSET Runs],
           \A k \in DOMAIN Caps : slots'[k] \subseteq slots[k]
    PROVE  CapInv'
<1> SUFFICES ASSUME NEW k \in DOMAIN Caps
             PROVE  IsFiniteSet(slots'[k]) /\ Cardinality(slots'[k]) <= Caps[k]
  BY DEF CapInv
<1>1. IsFiniteSet(slots[k]) /\ Cardinality(slots[k]) <= Caps[k] /\ Cardinality(slots[k]) \in Nat
  BY FS_CardinalityType DEF Inv, CapInv
<1>2. /\ IsFiniteSet(slots'[k]) /\ Cardinality(slots'[k]) \in Nat
      /\ Cardinality(slots'[k]) <= Cardinality(slots[k])
  BY <1>1, FS_Subset, FS_CardinalityType
<1> QED BY <1>1, <1>2, CapsAreCounts

\* Everything but the calls leaves the semaphores alone.
LEMMA OthersKeepGuard ==
    ASSUME NEW r \in Runs,
           \/ GetClient(r) \/ InsertClient(r) \/ Load(r) \/ LoadFails(r)
           \/ Checkpoint(r) \/ Fail(r) \/ SettleWithoutChat(r) \/ Commit(r) \/ CommitFails(r)
           \/ \E o \in Outcomes : Settle(r, o)
           \/ Dispatch(r) \/ AnswerId(r) \/ AnswerResult(r) \/ AnswerTimeout(r)
    PROVE  UNCHANGED guardVars
BY DEF GetClient, InsertClient, Load, LoadFails, Checkpoint, Fail, SettleWithoutChat, Commit,
       CommitFails, Settle, Dispatch, AnswerId, AnswerResult, AnswerTimeout, Answered,
       guard, bounds, guardVars

\* The semaphores, one step for each action that touches them.
LEMMA NextInv == Inv /\ [Next]_vars => Inv'
<1> SUFFICES ASSUME Inv, [Next]_vars PROVE Inv'
  OBVIOUS
<1> USE CapsAreCounts
<1>1. ASSUME UNCHANGED guardVars PROVE Inv'
  BY <1>1 DEF guardVars, Inv, GuardType, CapInv, HeldInv
<1>2. ASSUME NEW r \in Runs, BeginCall(r) PROVE Inv'
  BY <1>2 DEF BeginCall, InGuard, bounds, Inv, GuardType, CapInv, HeldInv
<1>3. ASSUME NEW r \in Runs, NEW k \in DOMAIN Caps, TakeSlot(r, k) PROVE Inv'
  <2>1. GuardType' /\ HeldInv'
    BY <1>3 DEF TakeSlot, Waits, bounds, Inv, GuardType, HeldInv
  <2>2. CapInv'
    BY <1>3, TakingKeepsCaps DEF TakeSlot
  <2> QED BY <2>1, <2>2 DEF Inv
<1>4. ASSUME NEW r \in Runs, NEW k \in DOMAIN Caps, GoWithout(r, k) PROVE Inv'
  BY <1>4 DEF GoWithout, Waits, bounds, Inv, GuardType, CapInv, HeldInv
<1>5. ASSUME NEW r \in Runs, NEW k \in DOMAIN Caps, RedisFails(r, k) PROVE Inv'
  <2> DEFINE more == [slots EXCEPT ![k] = @ \cup {r}]
  <2>a. /\ slots' = slots \/ slots' = more
        /\ unheard' = unheard \cup {<<r, k>>} /\ held' = held
        /\ asked[r] = k /\ asked' = [asked EXCEPT ![r] = k + 1]
    BY <1>5 DEF RedisFails, Waits
  <2>b. slots \in [DOMAIN Caps -> SUBSET Runs] /\ more \in [DOMAIN Caps -> SUBSET Runs]
    BY DEF Inv, GuardType
  <2>c. unheard' \subseteq Runs \X DOMAIN Caps /\ asked' \in [Runs -> Nat]
    BY <2>a, CapsAreCounts DEF Inv, GuardType
  <2>1. GuardType'
    BY <2>a, <2>b, <2>c DEF Inv, GuardType
  <2>3. HeldInv'
    <3> SUFFICES ASSUME NEW j \in DOMAIN Caps, NEW q \in Runs
                 PROVE  /\ j \in held[q] => q \in slots'[j] /\ asked'[q] > j
                        /\ q \in slots'[j] => j \in held[q] \/ <<q, j>> \in unheard'
      BY <2>a DEF HeldInv
    <3>1. slots[j] \subseteq slots'[j]
      BY <2>a, <2>b
    <3>2. q \in slots'[j] => q \in slots[j] \/ (q = r /\ j = k)
      BY <2>a, <2>b
    <3>3. asked[q] \in Nat /\ asked'[q] \in Nat /\ asked'[q] >= asked[q] /\ j \in Nat
      BY <2>a, <2>c, CapsAreCounts DEF Inv, GuardType
    <3>4. j \in held[q] => asked[q] > j
      BY DEF Inv, HeldInv
    <3>5. j \in held[q] => asked'[q] > j
      BY <3>3, <3>4
    <3> QED BY <2>a, <3>1, <3>2, <3>5 DEF Inv, HeldInv
  <2>2. CapInv'
    <3>1. CASE UNCHANGED slots
      BY <3>1 DEF Inv, CapInv
    <3>2. CASE Cardinality(slots[k]) < Caps[k] /\ slots' = [slots EXCEPT ![k] = @ \cup {r}]
      BY <3>2, TakingKeepsCaps
    <3> QED BY <1>5, <3>1, <3>2 DEF RedisFails
  <2> QED BY <2>1, <2>2, <2>3 DEF Inv
<1>6. ASSUME NEW r \in Runs, EndCall(r) PROVE Inv'
  <2>1. GuardType' /\ HeldInv'
    BY <1>6 DEF EndCall, bounds, Inv, GuardType, HeldInv
  <2>2. \A k \in DOMAIN Caps : slots'[k] \subseteq slots[k]
    BY <1>6 DEF EndCall
  <2> QED BY <2>1, <2>2, GivingBackKeepsCaps DEF Inv, GuardType
<1>7. ASSUME NEW r \in Runs, NEW k \in DOMAIN Caps, ReleaseFails(r, k) PROVE Inv'
  BY <1>7 DEF ReleaseFails, Inv, GuardType, CapInv, HeldInv
<1>8. ASSUME NEW r \in Runs, NEW k \in DOMAIN Caps, Expire(r, k) PROVE Inv'
  <2>1. GuardType' /\ HeldInv'
    BY <1>8 DEF Expire, bounds, Inv, GuardType, HeldInv
  <2>2. \A j \in DOMAIN Caps : slots'[j] \subseteq slots[j]
    BY <1>8 DEF Expire, Inv, GuardType
  <2> QED BY <2>1, <2>2, GivingBackKeepsCaps DEF Inv, GuardType
<1>14. ASSUME NEW r \in Runs, Cancel(r) PROVE Inv'
  <2> DEFINE stays == UNCHANGED <<slots, held, unheard>>
  <2>1. /\ stays \/ \E k \in DOMAIN Caps : AcquireCut(r, k) \/ ReleaseCut(r, k)
        /\ asked' = [asked EXCEPT ![r] = Len(Caps) + 1] /\ Len(Caps) \in Nat
    BY <1>14, ChatAssumption DEF Cancel, ChatAssumption
  <2>2. CASE stays
    BY <2>1, <2>2 DEF Inv, GuardType, CapInv, HeldInv
  <2>3. ASSUME NEW k \in DOMAIN Caps, AcquireCut(r, k) PROVE Inv'
    <3>1. GuardType' /\ HeldInv'
      BY <2>1, <2>3 DEF AcquireCut, Waits, Inv, GuardType, HeldInv
    <3>2. CapInv'
      BY <2>3, TakingKeepsCaps DEF AcquireCut
    <3> QED BY <3>1, <3>2 DEF Inv
  <2>4. ASSUME NEW k \in DOMAIN Caps, ReleaseCut(r, k) PROVE Inv'
    <3> DEFINE freed == [slots EXCEPT ![k] = @ \ {r}]
    <3>a. /\ slots' = slots \/ slots' = freed
          /\ unheard' = unheard \cup {<<r, k>>}
          /\ held' = [held EXCEPT ![r] = @ \ {k}]
      BY <2>4 DEF ReleaseCut
    <3>b. slots \in [DOMAIN Caps -> SUBSET Runs] /\ freed \in [DOMAIN Caps -> SUBSET Runs]
      BY DEF Inv, GuardType
    <3>c. /\ unheard' \subseteq Runs \X DOMAIN Caps
          /\ asked' \in [Runs -> Nat]
          /\ held' \in [Runs -> SUBSET DOMAIN Caps]
      BY <2>1, <3>a DEF Inv, GuardType
    <3>1. GuardType'
      BY <3>a, <3>b, <3>c DEF Inv, GuardType
    <3>2. \A j \in DOMAIN Caps : slots'[j] \subseteq slots[j]
      BY <3>a, <3>b
    <3>3. HeldInv'
      <4> SUFFICES ASSUME NEW j \in DOMAIN Caps, NEW q \in Runs
                   PROVE  /\ j \in held'[q] => q \in slots'[j] /\ asked'[q] > j
                          /\ q \in slots'[j] => j \in held'[q] \/ <<q, j>> \in unheard'
        BY DEF HeldInv
      <4>1. j \in held'[q] => j \in held[q] /\ ~(q = r /\ j = k)
        BY <3>a DEF Inv, GuardType
      <4>2. q \in slots[j] /\ ~(q = r /\ j = k) => q \in slots'[j]
        BY <3>a, <3>b
      <4>3. j \in held[q] => asked'[q] > j
        <5>1. /\ asked[q] \in Nat /\ j \in Nat /\ j <= Len(Caps) /\ Len(Caps) \in Nat
              /\ asked'[q] = asked[q] \/ asked'[q] = Len(Caps) + 1
          BY <2>1, CapsAreCounts DEF Inv, GuardType
        <5>2. j \in held[q] => asked[q] > j
          BY DEF Inv, HeldInv
        <5> QED BY <5>1, <5>2
      <4>4. j \in held[q] /\ ~(q = r /\ j = k) => j \in held'[q]
        BY <3>a DEF Inv, GuardType
      <4> QED BY <3>a, <3>2, <4>1, <4>2, <4>3, <4>4 DEF Inv, HeldInv
    <3> QED BY <3>1, <3>2, <3>3, GivingBackKeepsCaps DEF Inv, GuardType
  <2> QED BY <2>1, <2>2, <2>3, <2>4
<1>9. ASSUME NEW c \in DOMAIN chats, DeleteChat(c) \/ SendMessage(c) PROVE Inv'
  BY <1>1, <1>9 DEF DeleteChat, SendMessage, guard, bounds, guardVars
<1>10. CASE Crash
  BY <1>10 DEF Crash, Inv, GuardType, CapInv, HeldInv
<1>11. CASE UNCHANGED vars
  BY <1>1, <1>11 DEF vars, guard, bounds, guardVars
<1>12. ASSUME NEW r \in Runs, RunStep(r) PROVE Inv'
  BY <1>1, <1>2, <1>3, <1>4, <1>5, <1>6, <1>7, <1>8, <1>12, <1>14,
     OthersKeepGuard DEF RunStep
<1>13. ASSUME NEW r \in Runs, Dispatch(r) \/ AnswerId(r) \/ AnswerResult(r) \/ AnswerTimeout(r)
       PROVE Inv'
  BY <1>1, <1>13, OthersKeepGuard
<1> QED BY <1>9, <1>10, <1>11, <1>12, <1>13 DEF Next

\* No cap is ever exceeded and no slot is left without its call but where the exchange
\* about it was cut off, for any number of runs, semaphores and caps, and wherever a
\* call is cancelled.  (concurrency_limiter.py, agent_call_guard, _cancel_running)
THEOREM SlotsStandForCalls == Spec => []SlotsAreCalls
<1>1. Inv => SlotsAreCalls
  BY DEF Inv, CapInv, HeldInv, SlotsAreCalls
<1> QED BY <1>1, InitInv, NextInv, PTL DEF Spec
-----------------------------------------------------------------------------
(* Stored whole or not at all. *)

Phases == {"idle", "starting", "inserting", "loading", "running", "written", "failing",
           "over", "lost"}
ChatIds == {FirstChat} \cup OpeningRuns
Results == [status : {"none", "completed", "error", "failed"}, ends : BOOLEAN, paid : BOOLEAN]

TypeOK ==
    /\ chats \in [ChatIds -> ChatRows \cup {NoRow}]
    /\ client \in Nat \cup {NoRow}
    /\ execs \in [Runs -> {"none", "running", "completed", "error", "failed"}]
    /\ charged \subseteq Runs
    /\ phase \in [Runs -> Phases]
    /\ chat \in [Runs -> ChatIds \cup {NoRow}]
    /\ base \in [Runs -> States] /\ final \in [Runs -> States]
    /\ last \in [Runs -> Results]
    /\ creator \in Speakers
    /\ reply \in [Runs -> {"none", "id", "completed", "error", "failed", "504", "cut"}]

\* How far a run has come, and what is stored of it.
PhaseInv ==
    \A r \in Runs :
        /\ phase[r] \in {"idle", "starting", "inserting", "loading", "running"} => last[r] = Nothing
        /\ phase[r] \in {"idle", "starting", "inserting", "loading"} => execs[r] = "none"
        /\ execs[r] \in {"completed", "error", "failed"} <=> phase[r] = "over"
        /\ phase[r] = "over" => execs[r] = last[r].status
        /\ phase[r] = "written" =>
              execs[r] = "running" /\ last[r].status \in {"completed", "error"} /\ last[r].paid
        /\ phase[r] = "failing" =>
              last[r].status = "failed" /\ (last[r].paid => execs[r] = "running")
        /\ r \in charged <=> phase[r] = "over" /\ last[r].paid
        /\ phase[r] = "over" /\ ~last[r].paid => last[r].status = "failed"
        /\ phase[r] \in {"failing", "over"} /\ last[r].status = "failed" /\ last[r].paid =>
              chats[chat[r]] = NoRow

\* Which chat a run works for: its own, published with its first commit, or one
\* that was there when the request came.
ChatInv ==
    /\ \A r \in OpeningRuns :
        /\ chat[r] \in {NoRow, r}
        /\ phase[r] \in {"running", "written", "failing", "over"} => chat[r] = r
        /\ execs[r] = "none" => chats[r] = NoRow
    /\ \A r \in Runs \ OpeningRuns :
        /\ phase[r] # "idle" => chat[r] \in ChatIds
        /\ chat[r] \in OpeningRuns => execs[chat[r]] # "none"
    /\ \A r \in Runs : phase[r] = "written" => chats[chat[r]] # NoRow

\* The client's row is inserted by one run and counts the settled ones.
ClientInv ==
    /\ creator # NoRun => client = NoRow /\ execs[creator] = "none"
    /\ \A r \in Runs : phase[r] \in {"loading", "running", "written", "failing"} =>
          client # NoRow \/ creator = r
    /\ \A r \in Runs : execs[r] # "none" => client # NoRow
    /\ client # NoRow => IsFiniteSet(Settled) /\ client = Cardinality(Settled)

\* A chat has the messages of the runs settled in it.
WordsInv ==
    \A c \in ChatIds, r \in Runs :
        chats[c] # NoRow => (SaidBy(r, c) <=> r \in Settled /\ chat[r] = c)

\* Who was told of a completion.
ReplyInv ==
    \A r \in Runs : reply[r] \in {"completed", "error"} =>
        r \in Settled \/ phase[r] \in {"written", "lost"}

\* A run no other overtook still has the chat's state as its base.
BaseInv ==
    \A r \in Runs :
        /\ r \in OpeningRuns => base[r] = Defaults
        /\ r \in Loaded \ overtaken /\ chats[chat[r]] # NoRow => base[r] = chats[chat[r]].state
        /\ phase[r] = "written" => \A v \in Vars : final[r][v] \in {r, base[r][v]}

RunInv == TypeOK /\ PhaseInv /\ ChatInv /\ ClientInv /\ WordsInv /\ ReplyInv /\ BaseInv

runVars == <<tables, phase, runData, last, creator, reply, overtaken>>

Message == [role : {"user", "assistant"}, by : Speakers]

\* save_message keeps the row a row: its state as it was, the words at the end.
LEMMA SaidRow ==
    ASSUME NEW row \in ChatRows, NEW new \in Seq(Message)
    PROVE  /\ Said(row, new) \in ChatRows
           /\ Said(row, new).state = row.state
           /\ Said(row, new).messages = row.messages \o new
<1>1. row.messages \in Seq(Message)
  BY DEF ChatRows, Message
<1>2. PICK longer \in Seq(Message) : longer = row.messages \o new
  <2>1. \A s \in Seq(Message) : s \o new \in Seq(Message)
    OBVIOUS
  <2> QED BY <1>1, <2>1
<1>3. Said(row, new) = [row EXCEPT !.messages = longer]
  BY <1>2 DEF Said
<1>4. [row EXCEPT !.messages = longer] \in ChatRows
  BY DEF ChatRows, Message
<1>5. [row EXCEPT !.messages = longer].state = row.state
  BY DEF ChatRows
<1>6. [row EXCEPT !.messages = longer].messages = longer
  BY DEF ChatRows
<1> QED BY <1>2, <1>3, <1>4, <1>5, <1>6

\* Who speaks in a conversation, and in one that goes on.
SpeaksIn(r, s) == \E i \in DOMAIN s : s[i].by = r

LEMMA SaidLonger ==
    ASSUME NEW s \in Seq(Message), NEW t \in Seq(Message), NEW r
    PROVE  SpeaksIn(r, s \o t) <=> SpeaksIn(r, s) \/ SpeaksIn(r, t)
<1>1. /\ DOMAIN (s \o t) = 1 .. Len(s) + Len(t)
      /\ DOMAIN s = 1 .. Len(s) /\ DOMAIN t = 1 .. Len(t)
      /\ Len(s) \in Nat /\ Len(t) \in Nat
  OBVIOUS
<1>2. \A i \in 1 .. Len(s) : (s \o t)[i] = s[i] /\ i \in 1 .. Len(s) + Len(t)
  BY <1>1
<1>3. \A i \in 1 .. Len(t) : (s \o t)[Len(s) + i] = t[i] /\ Len(s) + i \in 1 .. Len(s) + Len(t)
  BY <1>1
<1>4. \A i \in 1 .. Len(s) + Len(t) :
        i \in 1 .. Len(s) \/ \E j \in 1 .. Len(t) : i = Len(s) + j
  <2> SUFFICES ASSUME NEW i \in 1 .. Len(s) + Len(t), i \notin 1 .. Len(s)
               PROVE  \E j \in 1 .. Len(t) : i = Len(s) + j
    OBVIOUS
  <2>1. i - Len(s) \in 1 .. Len(t) /\ i = Len(s) + (i - Len(s))
    BY <1>1
  <2> QED BY <2>1
<1>5. ASSUME NEW i \in DOMAIN (s \o t), (s \o t)[i].by = r
      PROVE  (\E j \in DOMAIN s : s[j].by = r) \/ (\E j \in DOMAIN t : t[j].by = r)
  <2>1. CASE i \in 1 .. Len(s)
    BY <1>1, <1>2, <1>5, <2>1
  <2>2. CASE \E j \in 1 .. Len(t) : i = Len(s) + j
    BY <1>1, <1>3, <1>5, <2>2
  <2> QED BY <1>1, <1>4, <2>1, <2>2
<1>6. (\E i \in DOMAIN s : s[i].by = r) \/ (\E i \in DOMAIN t : t[i].by = r)
        => (\E i \in DOMAIN (s \o t) : (s \o t)[i].by = r)
  BY <1>1, <1>2, <1>3
<1> QED BY <1>5, <1>6 DEF SpeaksIn

\* The rows a run starts from.
LEMMA FirstRows ==
    /\ ChatRow \in ChatRows /\ ChatRow.state = Defaults
    /\ Greeting \in Message /\ ByHand \in Message
    /\ <<Greeting>> \in Seq(Message) /\ <<ByHand>> \in Seq(Message)
    /\ \A r \in Runs : Turn(r) \in Seq(Message)
<1>1. ChatRow \in ChatRows /\ ChatRow.state = Defaults
  BY DEF ChatRow, ChatRows, Defaults, States, Speakers
<1>2. Greeting \in Message /\ ByHand \in Message
  BY DEF Greeting, ByHand, Message, Speakers
<1>3. \A r \in Runs : Turn(r) \in Seq(Message)
  BY DEF Turn, Message, Speakers
<1> QED BY <1>1, <1>2, <1>3

\* What a first commit publishes.
LEMMA Publishing ==
    ASSUME TypeOK, NEW r \in Runs
    PROVE  /\ PublishedChats(r) \in [ChatIds -> ChatRows \cup {NoRow}]
           /\ \A c \in ChatIds : c # r \/ ~Fresh(r) \/ r \notin OpeningRuns =>
                 PublishedChats(r)[c] = chats[c]
           /\ Fresh(r) /\ r \in OpeningRuns =>
                 /\ PublishedChats(r)[r].state = Defaults
                 /\ PublishedChats(r)[r].messages = <<Greeting>>
                 /\ PublishedChats(r)[r] # NoRow
<1>1. /\ Said(ChatRow, <<Greeting>>) \in ChatRows
      /\ Said(ChatRow, <<Greeting>>).state = Defaults
      /\ Said(ChatRow, <<Greeting>>).messages = <<Greeting>>
  <2>1. ChatRow.messages = <<>> /\ <<>> \o <<Greeting>> = <<Greeting>>
    BY DEF ChatRow
  <2> QED BY <2>1, FirstRows, SaidRow
<1> QED BY <1>1, ChatAssumption DEF PublishedChats, TypeOK, ChatIds

\* A commit of a settled run, seen from its rows.
StoresRun(r) ==
    /\ phase[r] = "written" /\ phase' = [phase EXCEPT ![r] = "over"]
    /\ execs' = [execs EXCEPT ![r] = last[r].status]
    /\ charged' = charged \cup {r} /\ client' = client + 1 /\ creator' = creator
    /\ chat[r] \in ChatIds /\ chats[chat[r]] # NoRow
    /\ \E new \in ChatRows :
          /\ chats' = [chats EXCEPT ![chat[r]] = new]
          /\ new.state = Stored(chats[chat[r]].state, r)
          /\ new.messages = chats[chat[r]].messages \o Turn(r)
    /\ overtaken' = overtaken \cup {o \in Loaded \ {r} : chat[o] = chat[r]}
    /\ UNCHANGED <<chat, base, final, last, reply>>

\* A commit of a failed run, seen from its rows.
MarksFailed(r) ==
    /\ phase[r] = "failing" /\ phase' = [phase EXCEPT ![r] = "over"]
    /\ execs' = [execs EXCEPT ![r] = "failed"] /\ last[r].status = "failed"
    /\ charged' = (IF last[r].paid THEN charged \cup {r} ELSE charged)
    /\ client' = PublishedClient(r)
    /\ creator' = (IF creator = r THEN NoRun ELSE creator)
    /\ chats' = PublishedChats(r)
    /\ UNCHANGED <<chat, base, final, last, reply, overtaken>>

\* Commit is StoresRun for a run that wrote its outcome, whose chat is still there ...
LEMMA CommitSettled ==
    ASSUME RunInv, NEW r \in Runs, Commit(r), phase[r] = "written"
    PROVE  StoresRun(r)
<1>1. /\ execs[r] = "running" /\ last[r].status \in {"completed", "error"} /\ last[r].paid
      /\ chats[chat[r]] # NoRow
  BY DEF RunInv, PhaseInv, ChatInv
<1>2. chat[r] \in ChatIds
  BY DEF RunInv, ChatInv, ChatIds
<1>3. PublishedChats(r) = chats /\ creator # r
  BY <1>1, ChatAssumption DEF PublishedChats, Fresh, RunInv, ClientInv
<1>4. PICK row \in ChatRows :
        /\ row = [chats[chat[r]] EXCEPT !.state = Stored(@, r), !.active = @ /\ ~last[r].ends]
        /\ row.state = Stored(chats[chat[r]].state, r)
        /\ row.messages = chats[chat[r]].messages
  <2>1. PICK old \in ChatRows : old = chats[chat[r]]
    BY <1>1, <1>2 DEF RunInv, TypeOK
  <2>2. old.state \in States /\ old.active \in BOOLEAN
    BY DEF ChatRows
  <2>3. PICK stored \in States : stored = Stored(old.state, r)
    BY <2>2 DEF RunInv, TypeOK, Stored
  <2>4. PICK active \in BOOLEAN : active = (old.active /\ ~last[r].ends)
    OBVIOUS
  <2>5. PICK row : row = [old EXCEPT !.state = stored, !.active = active]
    OBVIOUS
  <2>6. row \in ChatRows /\ row.state = stored /\ row.messages = old.messages
    BY <2>5 DEF ChatRows
  <2>7. row = [old EXCEPT !.state = Stored(@, r), !.active = @ /\ ~last[r].ends]
    BY <2>3, <2>4, <2>5
  <2> QED BY <2>1, <2>3, <2>6, <2>7
<1>5. Committed(r) = Said(row, Turn(r))
  BY <1>1, <1>3, <1>4 DEF Committed
<1>6. /\ Said(row, Turn(r)) \in ChatRows /\ Said(row, Turn(r)).state = row.state
      /\ Said(row, Turn(r)).messages = row.messages \o Turn(r)
  BY SaidRow, FirstRows
<1> QED BY <1>1, <1>2, <1>3, <1>4, <1>5, <1>6 DEF Commit, Goto, StoresRun, runData

\* ... and MarksFailed for one that did not.
LEMMA CommitFailed ==
    ASSUME RunInv, NEW r \in Runs, Commit(r), phase[r] = "failing"
    PROVE  MarksFailed(r)
<1>1. last[r].status = "failed"
  BY DEF RunInv, PhaseInv
<1>2. chat[r] \in ChatIds
  BY DEF RunInv, ChatInv, ChatIds
<1>3. [PublishedChats(r) EXCEPT ![chat[r]] = Committed(r)] = PublishedChats(r)
  BY <1>1, <1>2, Publishing DEF Committed, RunInv
<1> QED BY <1>1, <1>3 DEF Commit, Goto, MarksFailed, runData

\* Nothing is stored at first but an empty chat.
LEMMA InitRunInv == Init => RunInv
<1> SUFFICES ASSUME Init PROVE RunInv
  OBVIOUS
<1> USE ChatAssumption
<1>1. TypeOK
  BY FirstRows DEF Init, TypeOK, Phases, ChatIds, Nothing, Results, Defaults, States, Speakers
<1>2. PhaseInv /\ ChatInv /\ ReplyInv
  BY DEF Init, PhaseInv, ChatInv, ReplyInv, Nothing
<1>3. Settled = {}
  BY DEF Init, Settled
<1>4. ClientInv
  BY <1>3 DEF Init, ClientInv
<1>5. WordsInv
  <2> SUFFICES ASSUME NEW c \in ChatIds, NEW r \in Runs, chats[c] # NoRow
               PROVE  ~SaidBy(r, c)
    BY <1>3 DEF WordsInv
  <2>1. chats[c] = ChatRow
    BY DEF Init, ChatIds
  <2>2. chats[c].messages = <<>>
    BY <2>1 DEF ChatRow
  <2> QED BY <2>2 DEF SaidBy
<1>6. BaseInv
  BY DEF Init, BaseInv, Loaded
<1> QED BY <1>1, <1>2, <1>4, <1>5, <1>6 DEF RunInv

\* A run that failed, by itself or because a call of it was cancelled.
GivesUp(r) ==
    /\ Goto(r, "running", "failing")
    /\ last' = [last EXCEPT ![r] = [Nothing EXCEPT !.status = "failed"]]
    /\ UNCHANGED <<tables, runData, locks, reply, overtaken>>

\* The steps that touch what a run stores; the slots of calls are apart.
RunAction ==
    \/ \E r \in Runs :
         \/ GetClient(r) \/ InsertClient(r) \/ LoadFails(r) \/ CommitFails(r)
         \/ Dispatch(r) \/ Load(r) \/ Checkpoint(r) \/ GivesUp(r) \/ SettleWithoutChat(r)
         \/ (\E o \in Outcomes : Settle(r, o)) \/ Commit(r)
         \/ AnswerId(r) \/ AnswerResult(r) \/ AnswerTimeout(r)
    \/ \E c \in DOMAIN chats : DeleteChat(c) \/ SendMessage(c)
    \/ Crash
    \/ UNCHANGED runVars

\* What _handle_error leaves of a run.
LEMMA FailedRecords ==
    /\ [Nothing EXCEPT !.status = "failed"] \in Results
    /\ [Nothing EXCEPT !.status = "failed"].status = "failed"
    /\ [Nothing EXCEPT !.status = "failed"].paid = FALSE
    /\ [Nothing EXCEPT !.status = "failed", !.paid = TRUE] \in Results
    /\ [Nothing EXCEPT !.status = "failed", !.paid = TRUE].status = "failed"
<1>1. Nothing \in Results
  BY DEF Nothing, Results
<1>2. \A n \in Results : /\ [n EXCEPT !.status = "failed"] \in Results
                         /\ [n EXCEPT !.status = "failed"].status = "failed"
                         /\ [n EXCEPT !.status = "failed"].paid = n.paid
                         /\ [n EXCEPT !.status = "failed", !.paid = TRUE] \in Results
                         /\ [n EXCEPT !.status = "failed", !.paid = TRUE].status = "failed"
  BY DEF Results
<1>3. Nothing.paid = FALSE
  BY DEF Nothing
<1> QED BY <1>1, <1>2, <1>3

\* An answer to the request stores nothing.
LEMMA AnswersOnly ==
    ASSUME NEW r \in Runs, AnswerId(r) \/ AnswerResult(r) \/ AnswerTimeout(r)
    PROVE  /\ UNCHANGED <<tables, phase, runData, last, locks>>
           /\ \/ reply' = [reply EXCEPT ![r] = "id"]
              \/ reply' = [reply EXCEPT ![r] = "504"]
              \/ last[r] # Nothing /\ reply' = [reply EXCEPT ![r] = last[r].status]
BY DEF AnswerId, AnswerResult, AnswerTimeout, Answered

\* The types, one step for each action.
LEMMA NextTypeOK ==
    ASSUME RunInv, RunAction PROVE TypeOK'
<1>a. \A r \in Runs : Commit(r) => phase[r] \in {"written", "failing"}
  BY DEF Commit, Goto
<1>b. \A r \in Runs : /\ Commit(r) /\ phase[r] = "written" => StoresRun(r)
                      /\ Commit(r) /\ phase[r] = "failing" => MarksFailed(r)
                      /\ PublishedChats(r) \in [ChatIds -> ChatRows \cup {NoRow}]
  BY CommitSettled, CommitFailed, Publishing DEF RunInv
<1>c. \A r \in Runs : phase[r] = "loading" /\ r \notin OpeningRuns => chat[r] \in ChatIds
  BY DEF RunInv, ChatInv
<1>d. \A c \in ChatIds : chats[c] # NoRow => chats[c] \in ChatRows /\ chats[c].state \in States
  BY DEF RunInv, TypeOK, ChatRows
<1> USE DEF RunInv, TypeOK, Phases, Speakers, Goto, tables, runData, locks
<1>1. ASSUME NEW r \in Runs, GetClient(r) \/ InsertClient(r) PROVE TypeOK'
  BY <1>1 DEF GetClient, InsertClient, Lost
<1>2. ASSUME NEW r \in Runs, LoadFails(r) \/ CommitFails(r) PROVE TypeOK'
  BY <1>2 DEF LoadFails, CommitFails, Lost
<1>3. ASSUME NEW r \in Runs, Dispatch(r) PROVE TypeOK'
  BY <1>3 DEF Dispatch
<1>4. ASSUME NEW r \in Runs, Load(r) PROVE TypeOK'
  <2>1. CASE r \in OpeningRuns
    BY <1>4, <2>1 DEF Load, ChatIds
  <2>2. CASE r \notin OpeningRuns
    <3>1. chats[chat[r]].state \in States
      BY <1>4, <1>c, <1>d, <2>2 DEF Load
    <3> QED BY <1>4, <2>2, <3>1 DEF Load, LoadedState
  <2> QED BY <2>1, <2>2
<1>5. ASSUME NEW r \in Runs, Checkpoint(r) PROVE TypeOK'
  BY <1>5, <1>b DEF Checkpoint, PublishedClient
<1>6. ASSUME NEW r \in Runs, GivesUp(r) \/ SettleWithoutChat(r) PROVE TypeOK'
  <2>1. PICK f \in Results : last' = [last EXCEPT ![r] = f]
    BY <1>6, FailedRecords DEF GivesUp, SettleWithoutChat
  <2> QED BY <1>6, <2>1 DEF GivesUp, SettleWithoutChat
<1>7. ASSUME NEW r \in Runs, NEW o \in Outcomes, Settle(r, o) PROVE TypeOK'
  <2>1. [v \in Vars |-> IF v \in o.sets THEN r ELSE base[r][v]] \in States
    BY DEF States
  <2>2. [status |-> IF o.error THEN "error" ELSE "completed", ends |-> o.ends, paid |-> TRUE]
           \in Results
    BY ChatAssumption DEF AnyOutcome, Results
  <2> QED BY <1>7, <2>1, <2>2 DEF Settle
<1>8. ASSUME NEW r \in Runs, Commit(r), phase[r] = "written" PROVE TypeOK'
  <2>1. StoresRun(r)
    BY <1>b, <1>8
  <2>2. client # NoRow /\ last[r].status \in {"completed", "error"}
    BY <1>8 DEF ClientInv, PhaseInv
  <2> QED BY <2>1, <2>2 DEF StoresRun
<1>9. ASSUME NEW r \in Runs, Commit(r), phase[r] = "failing" PROVE TypeOK'
  <2>1. MarksFailed(r) /\ chats' \in [ChatIds -> ChatRows \cup {NoRow}]
    BY <1>b, <1>9 DEF MarksFailed
  <2>2. client' \in Nat \cup {NoRow} /\ creator' \in Speakers /\ charged' \subseteq Runs
    BY <2>1 DEF MarksFailed, PublishedClient
  <2> QED BY <2>1, <2>2 DEF MarksFailed
<1>10. ASSUME NEW r \in Runs, AnswerId(r) \/ AnswerResult(r) \/ AnswerTimeout(r) PROVE TypeOK'
  <2>1. UNCHANGED <<tables, phase, runData, last, locks>>
    BY <1>10, AnswersOnly
  <2>2. last[r].status \in {"none", "completed", "error", "failed"}
    BY DEF Results
  <2>3. PICK with \in {"none", "id", "completed", "error", "failed", "504", "cut"} :
             reply' = [reply EXCEPT ![r] = with]
    BY <1>10, <2>2, AnswersOnly
  <2> QED BY <2>1, <2>3
<1>11. ASSUME NEW c \in DOMAIN chats, DeleteChat(c) PROVE TypeOK'
  BY <1>11 DEF DeleteChat
<1>12. ASSUME NEW c \in DOMAIN chats, SendMessage(c) PROVE TypeOK'
  <2>1. Said(chats[c], <<ByHand>>) \in ChatRows
    BY <1>12, <1>d, FirstRows, SaidRow DEF SendMessage
  <2> QED BY <1>12, <2>1 DEF SendMessage
<1>13. ASSUME Crash PROVE TypeOK'
  BY <1>13 DEF Crash
<1>14. ASSUME UNCHANGED runVars PROVE TypeOK'
  BY <1>14 DEF runVars
<1> QED BY <1>1, <1>2, <1>3, <1>4, <1>5, <1>6, <1>7, <1>8, <1>9, <1>10, <1>11, <1>12, <1>13,
            <1>14, <1>a DEF RunAction

\* What a run publishes is not the chat of a run whose row is there.
LEMMA OthersChats ==
    ASSUME RunInv, NEW r \in Runs, NEW q \in Runs, chat[q] \in ChatIds, execs[q] # "none"
    PROVE  PublishedChats(r)[chat[q]] = chats[chat[q]]
<1>1. CASE Fresh(r) /\ r \in OpeningRuns /\ chat[q] = r
  <2>1. execs[r] = "none" /\ q # r
    BY <1>1 DEF Fresh
  <2>2. q \in OpeningRuns => chat[q] \in {NoRow, q}
    BY DEF RunInv, ChatInv
  <2>3. q \notin OpeningRuns => execs[chat[q]] # "none"
    BY <1>1 DEF RunInv, ChatInv
  <2>4. NoRow # r
    BY ChatAssumption
  <2> QED BY <1>1, <2>1, <2>2, <2>3, <2>4
<1> QED BY <1>1, Publishing DEF RunInv

\* The chats of failed runs that were charged stay deleted.
LEMMA PaidChatsGone ==
    ASSUME RunInv, NEW q \in Runs, phase[q] \in {"failing", "over"},
           last[q].status = "failed", last[q].paid
    PROVE  /\ chat[q] \in ChatIds /\ chats[chat[q]] = NoRow
           /\ \A r \in Runs : PublishedChats(r)[chat[q]] = NoRow
           /\ \A r \in Runs : StoresRun(r) => chats'[chat[q]] = NoRow
<1>1. chat[q] \in ChatIds
  BY DEF RunInv, ChatInv, ChatIds
<1>2. chats[chat[q]] = NoRow /\ execs[q] # "none"
  BY DEF RunInv, PhaseInv
<1>3. \A r \in Runs : PublishedChats(r)[chat[q]] = NoRow
  BY <1>1, <1>2, OthersChats
<1>4. \A r \in Runs : StoresRun(r) => chats'[chat[q]] = NoRow
  BY <1>1, <1>2 DEF StoresRun, RunInv, TypeOK
<1> QED BY <1>1, <1>2, <1>3, <1>4

\* The phases, one step for each action.
LEMMA NextPhaseInv ==
    ASSUME RunInv, RunAction PROVE PhaseInv'
<1>a. \A r \in Runs : Commit(r) => phase[r] \in {"written", "failing"}
  BY DEF Commit, Goto
<1>b. \A r \in Runs : /\ Commit(r) /\ phase[r] = "written" => StoresRun(r)
                      /\ Commit(r) /\ phase[r] = "failing" => MarksFailed(r)
  BY CommitSettled, CommitFailed
<1>c. \A q \in Runs : phase[q] \in {"failing", "over"} /\ last[q].status = "failed" /\ last[q].paid =>
         /\ chats[chat[q]] = NoRow
         /\ \A r \in Runs : PublishedChats(r)[chat[q]] = NoRow
         /\ \A r \in Runs : StoresRun(r) => chats'[chat[q]] = NoRow
  BY PaidChatsGone
<1> USE DEF RunInv, TypeOK, PhaseInv, Goto, tables, runData, locks
<1>1. ASSUME NEW r \in Runs, GetClient(r) \/ InsertClient(r) PROVE PhaseInv'
  BY <1>1 DEF GetClient, InsertClient, Lost
<1>2. ASSUME NEW r \in Runs, LoadFails(r) \/ CommitFails(r) PROVE PhaseInv'
  BY <1>2 DEF LoadFails, CommitFails, Lost
<1>3. ASSUME NEW r \in Runs, Dispatch(r) PROVE PhaseInv'
  BY <1>3 DEF Dispatch
<1>4. ASSUME NEW r \in Runs, Load(r) PROVE PhaseInv'
  BY <1>4 DEF Load
<1>5. ASSUME NEW r \in Runs, Checkpoint(r) PROVE PhaseInv'
  <2>1. /\ execs' = [execs EXCEPT ![r] = "running"] /\ phase[r] = "running"
        /\ UNCHANGED <<charged, phase, chat, last>>
    BY <1>5 DEF Checkpoint
  <2>2. \A q \in Runs : phase[q] \in {"failing", "over"} /\ last[q].status = "failed"
                           /\ last[q].paid => chats'[chat[q]] = NoRow
    BY <1>5, <1>c DEF Checkpoint
  <2> QED BY <2>1, <2>2
<1>6. ASSUME NEW r \in Runs, GivesUp(r) PROVE PhaseInv'
  <2>1. PICK f \in Results : /\ last' = [last EXCEPT ![r] = f]
                             /\ f.status = "failed" /\ ~f.paid
    BY <1>6, FailedRecords DEF GivesUp
  <2>2. /\ phase[r] = "running" /\ phase' = [phase EXCEPT ![r] = "failing"]
        /\ UNCHANGED <<chats, execs, charged, chat>>
    BY <1>6 DEF GivesUp
  <2>3. \A q \in Runs : q # r => last'[q] = last[q] /\ phase'[q] = phase[q]
    BY <2>1, <2>2
  <2>4. last'[r] = f /\ phase'[r] = "failing" /\ r \notin charged /\ execs[r] \in {"none", "running"}
    BY <2>1, <2>2
  <2> QED BY <2>1, <2>2, <2>3, <2>4
<1>7. ASSUME NEW r \in Runs, SettleWithoutChat(r) PROVE PhaseInv'
  <2>1. PICK f \in Results : /\ last' = [last EXCEPT ![r] = f]
                             /\ f.status = "failed"
    BY <1>7, FailedRecords DEF SettleWithoutChat
  <2>2. /\ phase[r] = "running" /\ phase' = [phase EXCEPT ![r] = "failing"]
        /\ execs[r] = "running" /\ chats[chat[r]] = NoRow
        /\ UNCHANGED <<chats, execs, charged, chat>>
    BY <1>7 DEF SettleWithoutChat
  <2>3. \A q \in Runs : q # r => last'[q] = last[q] /\ phase'[q] = phase[q]
    BY <2>1, <2>2
  <2>4. last'[r] = f /\ phase'[r] = "failing" /\ r \notin charged
    BY <2>1, <2>2
  <2> QED BY <2>1, <2>2, <2>3, <2>4
<1>8. ASSUME NEW r \in Runs, NEW o \in Outcomes, Settle(r, o) PROVE PhaseInv'
  <2>1. /\ phase[r] = "running" /\ phase' = [phase EXCEPT ![r] = "written"]
        /\ execs[r] = "running"
        /\ UNCHANGED <<chats, execs, charged, chat>>
    BY <1>8 DEF Settle
  <2>2. /\ last'[r].status \in {"completed", "error"} /\ last'[r].paid
        /\ \A q \in Runs : q # r => last'[q] = last[q] /\ phase'[q] = phase[q]
    BY <1>8 DEF Settle
  <2>3. phase'[r] = "written" /\ r \notin charged
    BY <2>1
  <2> QED BY <2>1, <2>2, <2>3
<1>9. ASSUME NEW r \in Runs, StoresRun(r) PROVE PhaseInv'
  <2>1. /\ execs' = [execs EXCEPT ![r] = last[r].status] /\ phase[r] = "written"
        /\ charged' = charged \cup {r} /\ phase' = [phase EXCEPT ![r] = "over"]
        /\ UNCHANGED <<chat, last>>
    BY <1>9 DEF StoresRun
  <2>2. last[r].status \in {"completed", "error"} /\ last[r].paid
    BY <2>1
  <2>3. \A q \in Runs : phase[q] \in {"failing", "over"} /\ last[q].status = "failed"
                           /\ last[q].paid => chats'[chat[q]] = NoRow
    BY <1>9, <1>c
  <2> QED BY <2>1, <2>2, <2>3
<1>10. ASSUME NEW r \in Runs, MarksFailed(r) PROVE PhaseInv'
  <2>1. /\ execs' = [execs EXCEPT ![r] = "failed"] /\ phase[r] = "failing"
        /\ charged' = (IF last[r].paid THEN charged \cup {r} ELSE charged)
        /\ phase' = [phase EXCEPT ![r] = "over"] /\ last[r].status = "failed"
        /\ UNCHANGED <<chat, last>>
    BY <1>10 DEF MarksFailed
  <2>2. \A q \in Runs : phase[q] \in {"failing", "over"} /\ last[q].status = "failed"
                           /\ last[q].paid => chats'[chat[q]] = NoRow
    BY <1>10, <1>c DEF MarksFailed
  <2> QED BY <2>1, <2>2
<1>11. ASSUME NEW r \in Runs, AnswerId(r) \/ AnswerResult(r) \/ AnswerTimeout(r) PROVE PhaseInv'
  BY <1>11 DEF AnswerId, AnswerResult, AnswerTimeout, Answered
<1>12. ASSUME NEW c \in DOMAIN chats, DeleteChat(c) PROVE PhaseInv'
  BY <1>12 DEF DeleteChat
<1>13. ASSUME NEW c \in DOMAIN chats, SendMessage(c) PROVE PhaseInv'
  BY <1>13 DEF SendMessage
<1>14. ASSUME Crash PROVE PhaseInv'
  BY <1>14 DEF Crash
<1>15. ASSUME UNCHANGED runVars PROVE PhaseInv'
  BY <1>15 DEF runVars
<1> QED BY <1>1, <1>2, <1>3, <1>4, <1>5, <1>6, <1>7, <1>8, <1>9, <1>10, <1>11, <1>12, <1>13,
            <1>14, <1>15, <1>a, <1>b DEF RunAction

\* Steps that leave chats and executions alone and bring no run back.
LEMMA SameChats ==
    ASSUME RunInv, UNCHANGED <<chats, chat, execs>>,
           \A q \in Runs : phase'[q] # phase[q] =>
               phase[q] # "idle" /\ phase'[q] \in {"inserting", "loading", "lost"}
    PROVE  ChatInv'
BY ChatAssumption DEF RunInv, ChatInv, ChatIds

\* The chats, one step for each action.
LEMMA NextChatInv ==
    ASSUME RunInv, RunAction PROVE ChatInv'
<1>a. \A r \in Runs : Commit(r) => phase[r] \in {"written", "failing"}
  BY DEF Commit, Goto
<1>b. \A r \in Runs : /\ Commit(r) /\ phase[r] = "written" => StoresRun(r)
                      /\ Commit(r) /\ phase[r] = "failing" => MarksFailed(r)
  BY CommitSettled, CommitFailed
<1>c. \A r \in Runs, c \in OpeningRuns : c # r \/ ~Fresh(r) => PublishedChats(r)[c] = chats[c]
  BY Publishing DEF RunInv, ChatIds
<1>d. \A q \in Runs, r \in Runs :
        phase[q] = "written" => chat[q] \in ChatIds /\ PublishedChats(r)[chat[q]] = chats[chat[q]]
  BY OthersChats DEF RunInv, ChatInv, PhaseInv, ChatIds
<1>e. /\ UNCHANGED <<chats, chat, execs>>
      /\ \A q \in Runs : phase'[q] # phase[q] =>
            phase[q] # "idle" /\ phase'[q] \in {"inserting", "loading", "lost"}
      => ChatInv'
  BY SameChats
<1> USE DEF RunInv, TypeOK, PhaseInv, ChatInv, Goto, tables, runData, locks
<1>1. ASSUME NEW r \in Runs, GetClient(r) \/ InsertClient(r) PROVE ChatInv'
  BY <1>e, <1>1 DEF GetClient, InsertClient, Lost
<1>2. ASSUME NEW r \in Runs, LoadFails(r) \/ CommitFails(r) PROVE ChatInv'
  <2>1. /\ phase' = [phase EXCEPT ![r] = "lost"] /\ phase[r] # "idle"
        /\ UNCHANGED <<chats, chat, execs>>
    BY <1>2 DEF LoadFails, CommitFails, Lost
  <2> QED BY <1>e, <2>1
<1>3. ASSUME NEW r \in Runs, Dispatch(r) PROVE ChatInv'
  <2>1. phase[r] = "idle" /\ phase' = [phase EXCEPT ![r] = "starting"] /\ UNCHANGED <<chats, execs>>
    BY <1>3 DEF Dispatch
  <2>2. CASE r \in OpeningRuns /\ chat' = chat
    BY <2>1, <2>2
  <2>3. CASE r \notin OpeningRuns
    <3>1. PICK c \in ChatIds : chats[c] # NoRow /\ chat' = [chat EXCEPT ![r] = c]
      BY <1>3, <2>3 DEF Dispatch
    <3>2. c \in OpeningRuns => execs[c] # "none"
      BY <3>1
    <3> QED BY <2>1, <2>3, <3>1, <3>2, ChatAssumption
  <2> QED BY <1>3, <2>2, <2>3 DEF Dispatch
<1>4. ASSUME NEW r \in Runs, Load(r) PROVE ChatInv'
  <2>1. phase[r] = "loading" /\ phase' = [phase EXCEPT ![r] = "running"] /\ UNCHANGED <<chats, execs>>
    BY <1>4 DEF Load
  <2>2. CASE r \in OpeningRuns /\ chat' = [chat EXCEPT ![r] = r]
    BY <2>1, <2>2, ChatAssumption
  <2>3. CASE r \notin OpeningRuns /\ chat' = chat
    BY <2>1, <2>3
  <2> QED BY <1>4, <2>2, <2>3 DEF Load
<1>5. ASSUME NEW r \in Runs, Checkpoint(r) PROVE ChatInv'
  <2>1. /\ execs' = [execs EXCEPT ![r] = "running"] /\ phase[r] = "running"
        /\ UNCHANGED <<phase, chat>>
    BY <1>5 DEF Checkpoint
  <2>2. \A q \in Runs : phase[q] = "written" => chats'[chat[q]] # NoRow
    BY <1>5, <1>d DEF Checkpoint
  <2>3. \A c \in OpeningRuns : execs'[c] = "none" => chats'[c] = NoRow
    BY <1>5, <1>c, <2>1, ChatAssumption DEF Checkpoint
  <2> QED BY <2>1, <2>2, <2>3, ChatAssumption
<1>6. ASSUME NEW r \in Runs, GivesUp(r) PROVE ChatInv'
  BY <1>6 DEF GivesUp
<1>7. ASSUME NEW r \in Runs, SettleWithoutChat(r) PROVE ChatInv'
  BY <1>7 DEF SettleWithoutChat
<1>8. ASSUME NEW r \in Runs, NEW o \in Outcomes, Settle(r, o) PROVE ChatInv'
  BY <1>8 DEF Settle
<1>9. ASSUME NEW r \in Runs, StoresRun(r) PROVE ChatInv'
  <2>1. /\ execs' = [execs EXCEPT ![r] = last[r].status] /\ phase[r] = "written"
        /\ last[r].status # "none" /\ phase' = [phase EXCEPT ![r] = "over"] /\ chat' = chat
    BY <1>9 DEF StoresRun
  <2>2. PICK new \in ChatRows : chats' = [chats EXCEPT ![chat[r]] = new]
    BY <1>9 DEF StoresRun
  <2>3. \A c \in ChatIds : c # chat[r] => chats'[c] = chats[c]
    BY <2>2
  <2>4. chat[r] \in ChatIds /\ chats'[chat[r]] # NoRow /\ execs[r] = "running"
    BY <1>9, <1>d, <2>1, <2>2, ChatAssumption
  <2>5. \A q \in Runs : phase[q] = "written" => chats'[chat[q]] # NoRow
    BY <1>d, <2>3, <2>4
  <2>6. \A c \in OpeningRuns : execs'[c] = "none" => chats'[c] = NoRow
    <3> SUFFICES ASSUME NEW c \in OpeningRuns, execs'[c] = "none" PROVE chats'[c] = NoRow
      OBVIOUS
    <3>1. c \in Runs /\ execs[c] = "none" /\ c # r
      BY <2>1, ChatAssumption
    <3>2. chats[c] = NoRow /\ c \in ChatIds
      BY <3>1 DEF ChatIds
    <3>3. chats[chat[r]] # NoRow
      BY <2>1
    <3> QED BY <2>3, <3>2, <3>3
  <2> QED BY <2>1, <2>5, <2>6, ChatAssumption
<1>10. ASSUME NEW r \in Runs, MarksFailed(r) PROVE ChatInv'
  <2>1. /\ execs' = [execs EXCEPT ![r] = "failed"] /\ phase[r] = "failing"
        /\ phase' = [phase EXCEPT ![r] = "over"] /\ chat' = chat
    BY <1>10 DEF MarksFailed
  <2>2. \A q \in Runs : phase[q] = "written" => chats'[chat[q]] # NoRow
    BY <1>10, <1>d DEF MarksFailed
  <2>3. \A c \in OpeningRuns : execs'[c] = "none" => chats'[c] = NoRow
    BY <1>10, <1>c, <2>1, ChatAssumption DEF MarksFailed
  <2> QED BY <2>1, <2>2, <2>3, ChatAssumption
<1>11. ASSUME NEW r \in Runs, AnswerId(r) \/ AnswerResult(r) \/ AnswerTimeout(r) PROVE ChatInv'
  BY <1>11 DEF AnswerId, AnswerResult, AnswerTimeout, Answered
<1>12. ASSUME NEW c \in DOMAIN chats, DeleteChat(c) PROVE ChatInv'
  BY <1>12 DEF DeleteChat
<1>13. ASSUME NEW c \in DOMAIN chats, SendMessage(c) PROVE ChatInv'
  BY <1>13 DEF SendMessage
<1>14. ASSUME Crash PROVE ChatInv'
  BY <1>e, <1>14 DEF Crash
<1>15. ASSUME UNCHANGED runVars PROVE ChatInv'
  BY <1>15 DEF runVars
<1> QED BY <1>1, <1>2, <1>3, <1>4, <1>5, <1>6, <1>7, <1>8, <1>9, <1>10, <1>11, <1>12, <1>13,
            <1>14, <1>15, <1>a, <1>b DEF RunAction

\* Runs that settle are among those whose row is there; while the client has none
\* nothing has settled.
LEMMA NoClientNothingSettled ==
    RunInv /\ client = NoRow => Settled = {}
BY DEF RunInv, ClientInv, Settled

\* The client's counter, one step for each action.
LEMMA NextClientInv ==
    ASSUME RunInv, RunAction PROVE ClientInv'
<1>a. \A r \in Runs : Commit(r) => phase[r] \in {"written", "failing"}
  BY DEF Commit, Goto
<1>b. \A r \in Runs : /\ Commit(r) /\ phase[r] = "written" => StoresRun(r)
                      /\ Commit(r) /\ phase[r] = "failing" => MarksFailed(r)
  BY CommitSettled, CommitFailed
<1>c. client = NoRow => Settled = {}
  BY NoClientNothingSettled
<1>d. IsFiniteSet({}) /\ Cardinality({}) = 0 /\ NoRow \notin Nat
  BY FS_EmptySet, ChatAssumption
<1>e. ASSUME NEW r \in Runs, NEW e \in {"running", "failed"}, execs' = [execs EXCEPT ![r] = e],
             r \notin Settled
      PROVE  Settled' = Settled
  BY <1>e DEF RunInv, TypeOK, Settled
<1>f. execs' = execs => Settled' = Settled
  BY DEF Settled
<1> USE DEF RunInv, TypeOK, PhaseInv, ClientInv, Goto, tables, runData, locks
<1>1. ASSUME NEW r \in Runs, GetClient(r) \/ InsertClient(r) PROVE ClientInv'
  <2>1. /\ phase' \in {[phase EXCEPT ![r] = "loading"], [phase EXCEPT ![r] = "inserting"],
                       [phase EXCEPT ![r] = "lost"]}
        /\ execs[r] = "none" /\ execs' = execs /\ client' = client
    BY <1>1 DEF GetClient, InsertClient, Lost
  <2>2. creator' # NoRun => client' = NoRow /\ execs'[creator'] = "none"
    BY <1>1, <2>1 DEF GetClient, InsertClient, Lost
  <2>3. \A q \in Runs : phase'[q] \in {"loading", "running", "written", "failing"} =>
          client' # NoRow \/ creator' = q
    <3>1. CASE client # NoRow
      BY <2>1, <3>1
    <3>2. CASE client = NoRow
      <4>1. \/ creator = NoRun /\ creator' = r
            \/ creator # NoRun /\ creator' = creator /\ phase' = [phase EXCEPT ![r] = "inserting"]
        BY <1>1, <3>2 DEF GetClient, InsertClient, Lost
      <4>2. \A q \in Runs : phase[q] \in {"loading", "running", "written", "failing"} => creator = q
        BY <3>2
      <4> QED BY <2>1, <4>1, <4>2, ChatAssumption
    <3> QED BY <3>1, <3>2
  <2> QED BY <1>f, <2>1, <2>2, <2>3
<1>2. ASSUME NEW r \in Runs, LoadFails(r) \/ CommitFails(r) PROVE ClientInv'
  BY <1>f, <1>2 DEF LoadFails, CommitFails, Lost
<1>3. ASSUME NEW r \in Runs, Dispatch(r) PROVE ClientInv'
  BY <1>f, <1>3 DEF Dispatch
<1>4. ASSUME NEW r \in Runs, Load(r) PROVE ClientInv'
  BY <1>f, <1>4 DEF Load
<1>5. ASSUME NEW r \in Runs, Checkpoint(r) PROVE ClientInv'
  <2>1. /\ execs' = [execs EXCEPT ![r] = "running"] /\ phase[r] = "running" /\ execs[r] = "none"
        /\ client' = (IF creator = r THEN 0 ELSE client) /\ phase' = phase
        /\ creator' = (IF creator = r THEN NoRun ELSE creator)
    BY <1>5 DEF Checkpoint, PublishedClient
  <2>2. Settled' = Settled
    BY <1>e, <2>1 DEF Settled
  <2>3. client' # NoRow
    BY <1>d, <2>1
  <2>4. creator' # NoRun => client' = NoRow /\ execs'[creator'] = "none"
    BY <2>1
  <2>5. IsFiniteSet(Settled') /\ client' = Cardinality(Settled')
    <3>1. CASE creator = r
      <4>1. creator # NoRun
        BY <3>1, ChatAssumption
      <4> QED BY <1>c, <1>d, <2>1, <2>2, <3>1, <4>1
    <3>2. CASE creator # r
      BY <2>1, <2>2, <3>2
    <3> QED BY <3>1, <3>2
  <2> QED BY <2>1, <2>3, <2>4, <2>5
<1>6. ASSUME NEW r \in Runs, GivesUp(r) PROVE ClientInv'
  BY <1>f, <1>6 DEF GivesUp
<1>7. ASSUME NEW r \in Runs, SettleWithoutChat(r) PROVE ClientInv'
  BY <1>f, <1>7 DEF SettleWithoutChat
<1>8. ASSUME NEW r \in Runs, NEW o \in Outcomes, Settle(r, o) PROVE ClientInv'
  BY <1>f, <1>8 DEF Settle
<1>9. ASSUME NEW r \in Runs, StoresRun(r) PROVE ClientInv'
  <2>1. /\ execs' = [execs EXCEPT ![r] = last[r].status] /\ phase[r] = "written"
        /\ last[r].status \in {"completed", "error"} /\ execs[r] = "running"
        /\ client' = client + 1 /\ creator' = creator /\ client # NoRow
        /\ phase' = [phase EXCEPT ![r] = "over"]
    BY <1>9 DEF StoresRun
  <2>2. Settled' = Settled \cup {r} /\ r \notin Settled
    BY <2>1 DEF Settled
  <2>3. IsFiniteSet(Settled') /\ client' = Cardinality(Settled') /\ client' \in Nat
    BY <2>1, <2>2, FS_AddElement
  <2>4. client' # NoRow /\ creator = NoRun
    BY <1>d, <2>1, <2>3
  <2> QED BY <2>1, <2>3, <2>4
<1>10. ASSUME NEW r \in Runs, MarksFailed(r) PROVE ClientInv'
  <2>1. /\ execs' = [execs EXCEPT ![r] = "failed"] /\ phase[r] = "failing"
        /\ client' = (IF creator = r THEN 0 ELSE client) /\ phase' = [phase EXCEPT ![r] = "over"]
        /\ creator' = (IF creator = r THEN NoRun ELSE creator)
        /\ execs[r] \notin {"completed", "error", "failed"}
    BY <1>10 DEF MarksFailed, PublishedClient
  <2>2. Settled' = Settled
    BY <1>e, <2>1 DEF Settled
  <2>3. client' # NoRow
    BY <1>d, <2>1
  <2>4. creator' # NoRun => client' = NoRow /\ execs'[creator'] = "none"
    BY <2>1
  <2>5. IsFiniteSet(Settled') /\ client' = Cardinality(Settled')
    <3>1. CASE creator = r
      <4>1. creator # NoRun
        BY <3>1, ChatAssumption
      <4> QED BY <1>c, <1>d, <2>1, <2>2, <3>1, <4>1
    <3>2. CASE creator # r
      BY <2>1, <2>2, <3>2
    <3> QED BY <3>1, <3>2
  <2> QED BY <2>1, <2>3, <2>4, <2>5
<1>11. ASSUME NEW r \in Runs, AnswerId(r) \/ AnswerResult(r) \/ AnswerTimeout(r) PROVE ClientInv'
  BY <1>f, <1>11 DEF AnswerId, AnswerResult, AnswerTimeout, Answered
<1>12. ASSUME NEW c \in DOMAIN chats, DeleteChat(c) PROVE ClientInv'
  BY <1>f, <1>12 DEF DeleteChat
<1>13. ASSUME NEW c \in DOMAIN chats, SendMessage(c) PROVE ClientInv'
  BY <1>f, <1>13 DEF SendMessage
<1>14. ASSUME Crash PROVE ClientInv'
  BY <1>f, <1>14 DEF Crash
<1>15. ASSUME UNCHANGED runVars PROVE ClientInv'
  BY <1>f, <1>15 DEF runVars
<1> QED BY <1>1, <1>2, <1>3, <1>4, <1>5, <1>6, <1>7, <1>8, <1>9, <1>10, <1>11, <1>12, <1>13,
            <1>14, <1>15, <1>a, <1>b DEF RunAction

\* What a run publishes has only the greeting in it.
LEMMA PublishedWords ==
    ASSUME RunInv, NEW r \in Runs, chats' = PublishedChats(r), Settled' = Settled, chat' = chat
    PROVE  WordsInv'
<1> SUFFICES ASSUME NEW c \in ChatIds, NEW q \in Runs, chats'[c] # NoRow
             PROVE  SaidBy(q, c)' <=> q \in Settled /\ chat[q] = c
  BY DEF WordsInv
<1>1. CASE c = r /\ Fresh(r) /\ r \in OpeningRuns
  <2>1. chats'[c].messages = <<Greeting>>
    BY <1>1, Publishing DEF RunInv
  <2>2. ~SaidBy(q, c)'
    BY <2>1, ChatAssumption DEF SaidBy, Greeting
  <2>3. ~(q \in Settled /\ chat[q] = c)
    <3> SUFFICES ASSUME q \in Settled, chat[q] = c PROVE FALSE
      OBVIOUS
    <3>1. execs[q] # "none" /\ execs[r] = "none"
      BY <1>1 DEF Settled, Fresh
    <3>2. q \in OpeningRuns => chat[q] \in {NoRow, q}
      BY DEF RunInv, ChatInv
    <3>3. q \notin OpeningRuns => execs[chat[q]] # "none"
      BY <1>1 DEF RunInv, ChatInv
    <3> QED BY <1>1, <3>1, <3>2, <3>3, ChatAssumption
  <2> QED BY <2>2, <2>3
<1>2. CASE ~(c = r /\ Fresh(r) /\ r \in OpeningRuns)
  <2>1. chats'[c] = chats[c]
    BY <1>2, Publishing DEF RunInv
  <2> QED BY <2>1 DEF RunInv, WordsInv, SaidBy
<1> QED BY <1>1, <1>2

\* A settled run has said its two messages in its chat, and nothing elsewhere.
LEMMA StoredWords ==
    ASSUME RunInv, NEW r \in Runs, StoresRun(r)
    PROVE  WordsInv'
<1>1. /\ r \notin Settled /\ Settled' = Settled \cup {r} /\ chat' = chat
      /\ chat[r] \in ChatIds /\ chats[chat[r]] # NoRow
  BY DEF StoresRun, RunInv, TypeOK, PhaseInv, Settled
<1>2. PICK new \in ChatRows :
        /\ chats' = [chats EXCEPT ![chat[r]] = new]
        /\ new.messages = chats[chat[r]].messages \o Turn(r)
  BY DEF StoresRun
<1>3. chats[chat[r]].messages \in Seq(Message)
  BY <1>1 DEF RunInv, TypeOK, ChatRows, Message
<1>4. \A q \in Runs : SpeaksIn(q, Turn(r)) <=> q = r
  BY DEF Turn, SpeaksIn
<1>5. chats'[chat[r]] = new /\ \A c \in ChatIds \ {chat[r]} : chats'[c] = chats[c]
  BY <1>1, <1>2 DEF RunInv, TypeOK
<1> SUFFICES ASSUME NEW c \in ChatIds, NEW q \in Runs, chats'[c] # NoRow
             PROVE  SaidBy(q, c)' <=> q \in Settled' /\ chat[q] = c
  BY <1>1 DEF WordsInv
<1>6. CASE c = chat[r]
  <2>1. SaidBy(q, c)' <=> SpeaksIn(q, new.messages)
    BY <1>5, <1>6 DEF SaidBy, SpeaksIn
  <2>2. SpeaksIn(q, new.messages)
          <=> SpeaksIn(q, chats[c].messages) \/ SpeaksIn(q, Turn(r))
    <3>1. PICK s \in Seq(Message) : s = chats[c].messages
      BY <1>3, <1>6
    <3>2. PICK t \in Seq(Message) : t = Turn(r)
      BY FirstRows
    <3>3. SpeaksIn(q, s \o t) <=> SpeaksIn(q, s) \/ SpeaksIn(q, t)
      BY SaidLonger
    <3>4. new.messages = s \o t
      BY <1>2, <1>6, <3>1, <3>2
    <3> QED BY <3>1, <3>2, <3>3, <3>4
  <2>3. SpeaksIn(q, chats[c].messages) <=> q \in Settled /\ chat[q] = c
    BY <1>1, <1>6 DEF RunInv, WordsInv, SaidBy, SpeaksIn
  <2> QED BY <1>1, <1>4, <1>6, <2>1, <2>2, <2>3
<1>7. CASE c # chat[r]
  <2>1. chats'[c] = chats[c]
    BY <1>5, <1>7
  <2> QED BY <1>1, <1>7, <2>1 DEF RunInv, WordsInv, SaidBy
<1> QED BY <1>6, <1>7

\* Steps that touch neither chats nor settlements, nor the chat of a settled run.
LEMMA SameWords ==
    ASSUME RunInv, chats' = chats, execs' = execs,
           \A q \in Settled : chat'[q] = chat[q]
    PROVE  WordsInv'
BY DEF RunInv, WordsInv, SaidBy, Settled

\* The messages, by what a step does to the chats.
LEMMA NextWordsInv ==
    ASSUME RunInv, RunAction PROVE WordsInv'
<1>a. \A r \in Runs : Commit(r) => phase[r] \in {"written", "failing"}
  BY DEF Commit, Goto
<1>b. \A r \in Runs : /\ Commit(r) /\ phase[r] = "written" => StoresRun(r)
                      /\ Commit(r) /\ phase[r] = "failing" => MarksFailed(r)
  BY CommitSettled, CommitFailed
<1>c. \A q \in Settled : phase[q] = "over"
  BY DEF Settled, RunInv, PhaseInv
<1> USE DEF RunInv, TypeOK, Goto, tables, runData
<1>1. ASSUME NEW r \in Runs,
             \/ GetClient(r) \/ InsertClient(r) \/ LoadFails(r) \/ CommitFails(r)
             \/ GivesUp(r) \/ SettleWithoutChat(r) \/ (\E o \in Outcomes : Settle(r, o))
             \/ AnswerId(r) \/ AnswerResult(r) \/ AnswerTimeout(r)
      PROVE  WordsInv'
  <2>1. UNCHANGED <<chats, execs, chat>>
    BY <1>1 DEF GetClient, InsertClient, LoadFails, CommitFails, GivesUp, SettleWithoutChat, Settle,
                AnswerId, AnswerResult, AnswerTimeout, Answered
  <2> HIDE DEF RunInv
  <2> QED BY <2>1, SameWords
<1>2. ASSUME NEW r \in Runs, Dispatch(r) \/ Load(r) PROVE WordsInv'
  <2>1. chats' = chats /\ execs' = execs /\ phase[r] # "over"
    BY <1>2 DEF Dispatch, Load
  <2>2. \A q \in Settled : chat'[q] = chat[q]
    BY <1>2, <1>c, <2>1 DEF Dispatch, Load, Settled
  <2> HIDE DEF RunInv
  <2> QED BY <2>1, <2>2, SameWords
<1>3. ASSUME NEW r \in Runs, Checkpoint(r) PROVE WordsInv'
  <2>1. chats' = PublishedChats(r) /\ chat' = chat /\ Settled' = Settled
    BY <1>3 DEF Checkpoint, Settled
  <2> HIDE DEF RunInv
  <2> QED BY <2>1, PublishedWords
<1>4. ASSUME NEW r \in Runs, StoresRun(r) PROVE WordsInv'
  <2> HIDE DEF RunInv
  <2> QED BY <1>4, StoredWords
<1>5. ASSUME NEW r \in Runs, MarksFailed(r) PROVE WordsInv'
  <2>1. chats' = PublishedChats(r) /\ chat' = chat /\ Settled' = Settled
    BY <1>5 DEF MarksFailed, Settled, PhaseInv
  <2> HIDE DEF RunInv
  <2> QED BY <2>1, PublishedWords
<1>6. ASSUME NEW c \in DOMAIN chats, DeleteChat(c) PROVE WordsInv'
  BY <1>6 DEF DeleteChat, WordsInv, SaidBy, Settled
<1>7. ASSUME NEW c \in DOMAIN chats, SendMessage(c) PROVE WordsInv'
  <2>1. /\ chats[c] \in ChatRows /\ chats' = [chats EXCEPT ![c] = Said(chats[c], <<ByHand>>)]
        /\ execs' = execs /\ chat' = chat
    BY <1>7 DEF SendMessage
  <2>2. Said(chats[c], <<ByHand>>).messages = chats[c].messages \o <<ByHand>>
    BY <2>1, SaidRow, FirstRows
  <2>3. chats[c].messages \in Seq(Message)
    BY <2>1 DEF ChatRows, Message
  <2>4. \A q \in Runs : ~SpeaksIn(q, <<ByHand>>)
    BY ChatAssumption DEF ByHand, SpeaksIn
  <2>5. ASSUME NEW q \in Runs PROVE SaidBy(q, c)' <=> SaidBy(q, c)
    <3>1. PICK s \in Seq(Message) : s = chats[c].messages
      BY <2>3
    <3>2. PICK t \in Seq(Message) : t = <<ByHand>>
      BY FirstRows
    <3>3. SpeaksIn(q, s \o t) <=> SpeaksIn(q, s) \/ SpeaksIn(q, t)
      BY SaidLonger
    <3>4. chats'[c].messages = s \o t
      BY <2>1, <2>2, <3>1, <3>2
    <3>5. ~SpeaksIn(q, t)
      BY <2>4, <3>2
    <3> QED BY <3>1, <3>3, <3>4, <3>5 DEF SaidBy, SpeaksIn
  <2>6. \A d \in ChatIds \ {c} : chats'[d] = chats[d]
    BY <2>1
  <2>7. chats[c] # NoRow /\ Settled' = Settled
    BY <1>7, <2>1 DEF SendMessage, Settled
  <2>8. \A d \in ChatIds \ {c}, q \in Runs : SaidBy(q, d)' <=> SaidBy(q, d)
    BY <2>6 DEF SaidBy
  <2> QED BY <2>1, <2>5, <2>6, <2>7, <2>8 DEF WordsInv
<1>8. ASSUME Crash \/ UNCHANGED runVars PROVE WordsInv'
  <2>1. UNCHANGED <<chats, execs, chat>>
    BY <1>8 DEF Crash, runVars
  <2> HIDE DEF RunInv
  <2> QED BY <2>1, SameWords
<1> QED BY <1>1, <1>2, <1>3, <1>4, <1>5, <1>6, <1>7, <1>8, <1>a, <1>b DEF RunAction

\* The answers, one step for each action.
LEMMA NextReplyInv ==
    ASSUME RunInv, RunAction PROVE ReplyInv'
<1>a. \A r \in Runs : Commit(r) => phase[r] \in {"written", "failing"}
  BY DEF Commit, Goto
<1>b. \A r \in Runs : /\ Commit(r) /\ phase[r] = "written" => StoresRun(r)
                      /\ Commit(r) /\ phase[r] = "failing" => MarksFailed(r)
  BY CommitSettled, CommitFailed
<1> USE DEF RunInv, TypeOK, PhaseInv, ReplyInv, Settled, Goto, tables, runData, locks
<1>1. ASSUME NEW r \in Runs, GetClient(r) \/ InsertClient(r) PROVE ReplyInv'
  BY <1>1 DEF GetClient, InsertClient, Lost
<1>2. ASSUME NEW r \in Runs, LoadFails(r) \/ CommitFails(r) PROVE ReplyInv'
  BY <1>2 DEF LoadFails, CommitFails, Lost
<1>3. ASSUME NEW r \in Runs, Dispatch(r) PROVE ReplyInv'
  BY <1>3 DEF Dispatch
<1>4. ASSUME NEW r \in Runs, Load(r) PROVE ReplyInv'
  BY <1>4 DEF Load, LoadedState
<1>5. ASSUME NEW r \in Runs, Checkpoint(r) PROVE ReplyInv'
  BY <1>5 DEF Checkpoint, PublishedClient
<1>6. ASSUME NEW r \in Runs, GivesUp(r) PROVE ReplyInv'
  BY <1>6 DEF GivesUp
<1>7. ASSUME NEW r \in Runs, SettleWithoutChat(r) PROVE ReplyInv'
  BY <1>7 DEF SettleWithoutChat
<1>8. ASSUME NEW r \in Runs, NEW o \in Outcomes, Settle(r, o) PROVE ReplyInv'
  BY <1>8 DEF Settle
<1>9. ASSUME NEW r \in Runs, StoresRun(r) PROVE ReplyInv'
  BY <1>9 DEF StoresRun
<1>10. ASSUME NEW r \in Runs, MarksFailed(r) PROVE ReplyInv'
  BY <1>10 DEF MarksFailed, PublishedClient
<1>11. ASSUME NEW r \in Runs, AnswerId(r) \/ AnswerResult(r) \/ AnswerTimeout(r) PROVE ReplyInv'
  <2>1. PICK w \in {"id", "504", last[r].status} : reply' = [reply EXCEPT ![r] = w]
    BY <1>11 DEF AnswerId, AnswerResult, AnswerTimeout, Answered
  <2>2. w \in {"completed", "error"} => w = last[r].status /\ last[r] # Nothing
    BY <1>11, <2>1 DEF AnswerId, AnswerResult, AnswerTimeout, Answered
  <2>3. UNCHANGED <<execs, phase>>
    BY <1>11 DEF AnswerId, AnswerResult, AnswerTimeout, Answered
  <2>4. w \in {"completed", "error"} => r \in Settled \/ phase[r] \in {"written", "lost"}
    BY <2>2 DEF Phases
  <2> QED BY <2>1, <2>3, <2>4
<1>12. ASSUME NEW c \in DOMAIN chats, DeleteChat(c) PROVE ReplyInv'
  BY <1>12 DEF DeleteChat
<1>13. ASSUME NEW c \in DOMAIN chats, SendMessage(c) PROVE ReplyInv'
  BY <1>13 DEF SendMessage
<1>14. ASSUME Crash PROVE ReplyInv'
  BY <1>14 DEF Crash
<1>15. ASSUME UNCHANGED runVars PROVE ReplyInv'
  BY <1>15 DEF runVars
<1> QED BY <1>1, <1>2, <1>3, <1>4, <1>5, <1>6, <1>7, <1>8, <1>9, <1>10, <1>11, <1>12, <1>13,
            <1>14, <1>15, <1>a, <1>b DEF RunAction

\* The base of a run, seen from what a step does to its chat.
LEMMA SameBases ==
    ASSUME RunInv, UNCHANGED <<base, final>>,
           \A q \in Runs : phase'[q] = "written" => phase[q] = "written",
           \A q \in Runs : q \in Loaded' \ overtaken' /\ chats'[chat'[q]] # NoRow =>
               /\ q \in Loaded \ overtaken /\ chats[chat[q]] # NoRow
               /\ chats'[chat'[q]].state = chats[chat[q]].state
    PROVE  BaseInv'
BY DEF RunInv, BaseInv

\* The bases, one step for each action.
LEMMA NextBaseInv ==
    ASSUME RunInv, RunAction PROVE BaseInv'
<1>a. \A r \in Runs : Commit(r) => phase[r] \in {"written", "failing"}
  BY DEF Commit, Goto
<1>b. \A r \in Runs : /\ Commit(r) /\ phase[r] = "written" => StoresRun(r)
                      /\ Commit(r) /\ phase[r] = "failing" => MarksFailed(r)
  BY CommitSettled, CommitFailed
<1>c. /\ UNCHANGED <<chats, chat, base, final, overtaken>>
      /\ \A q \in Runs : /\ phase'[q] = "written" => phase[q] = "written"
                         /\ q \in Loaded' => q \in Loaded
      => BaseInv'
  BY SameBases
<1>1. ASSUME NEW r \in Runs,
             \/ GetClient(r) \/ InsertClient(r) \/ LoadFails(r) \/ CommitFails(r)
             \/ GivesUp(r) \/ SettleWithoutChat(r)
             \/ AnswerId(r) \/ AnswerResult(r) \/ AnswerTimeout(r)
      PROVE  BaseInv'
  <2>1. UNCHANGED <<chats, chat, base, final, overtaken>>
    BY <1>1 DEF GetClient, InsertClient, LoadFails, CommitFails, GivesUp, SettleWithoutChat,
                AnswerId, AnswerResult, AnswerTimeout, Answered, tables, runData
  <2>2. \/ phase' = phase
        \/ phase' \in {[phase EXCEPT ![r] = p] : p \in {"inserting", "loading", "lost"}}
        \/ phase[r] = "running" /\ phase' = [phase EXCEPT ![r] = "failing"]
    BY <1>1 DEF GetClient, InsertClient, LoadFails, CommitFails, GivesUp, SettleWithoutChat, Goto, Lost,
                AnswerId, AnswerResult, AnswerTimeout, Answered
  <2>3. \A q \in Runs : /\ phase'[q] = "written" => phase[q] = "written"
                        /\ q \in Loaded' => q \in Loaded
    BY <2>2 DEF Loaded, RunInv, TypeOK
  <2> QED BY <1>c, <2>1, <2>3
<1>2. ASSUME NEW r \in Runs, Dispatch(r) PROVE BaseInv'
  <2>1. /\ phase[r] = "idle" /\ phase' = [phase EXCEPT ![r] = "starting"]
        /\ UNCHANGED <<chats, base, final, overtaken>>
        /\ \A q \in Runs \ {r} : chat'[q] = chat[q]
    BY <1>2 DEF Dispatch, Goto, tables, RunInv, TypeOK
  <2>2. \A q \in Runs : /\ phase'[q] = "written" => phase[q] = "written"
                        /\ q \in Loaded' => q \in Loaded /\ q # r
    BY <2>1 DEF Loaded, RunInv, TypeOK
  <2> QED BY <2>1, <2>2, SameBases
<1>3. ASSUME NEW r \in Runs, Load(r) PROVE BaseInv'
  <2>1. /\ phase[r] = "loading" /\ phase' = [phase EXCEPT ![r] = "running"]
        /\ UNCHANGED <<chats, final, overtaken>>
        /\ \A q \in Runs \ {r} : chat'[q] = chat[q] /\ base'[q] = base[q]
    BY <1>3 DEF Load, Goto, tables, RunInv, TypeOK
  <2>2. \A q \in Runs : /\ phase'[q] = "written" => phase[q] = "written" /\ q # r
                        /\ q \in Loaded' => q \in Loaded \/ q = r
    BY <2>1 DEF Loaded, RunInv, TypeOK
  <2>3. r \in OpeningRuns => base'[r] = Defaults /\ chats'[chat'[r]] = NoRow
    <3> SUFFICES ASSUME r \in OpeningRuns PROVE base'[r] = Defaults /\ chats'[chat'[r]] = NoRow
      OBVIOUS
    <3>1. chat'[r] = r /\ base'[r] = base[r]
      BY <1>3 DEF Load, RunInv, TypeOK
    <3>2. execs[r] = "none"
      BY <2>1 DEF RunInv, PhaseInv
    <3>3. chats[r] = NoRow /\ base[r] = Defaults
      BY <3>2 DEF RunInv, ChatInv, BaseInv
    <3> QED BY <2>1, <3>1, <3>3
  <2>4. r \notin OpeningRuns => base'[r] = chats'[chat'[r]].state
    BY <1>3 DEF Load, LoadedState, RunInv, TypeOK, tables
  <2>5. ASSUME NEW q \in Runs \ {r}
        PROVE  /\ q \in OpeningRuns => base'[q] = Defaults
               /\ q \in Loaded' \ overtaken' /\ chats'[chat'[q]] # NoRow =>
                     base'[q] = chats'[chat'[q]].state
               /\ phase'[q] = "written" => \A v \in Vars : final'[q][v] \in {q, base'[q][v]}
    BY <2>1, <2>2 DEF RunInv, BaseInv
  <2> QED BY <2>2, <2>3, <2>4, <2>5 DEF BaseInv
<1>4. ASSUME NEW r \in Runs, Checkpoint(r) \/ MarksFailed(r) PROVE BaseInv'
  <2>1. /\ chats' = PublishedChats(r) /\ UNCHANGED <<chat, base, final, overtaken>>
    BY <1>4 DEF Checkpoint, MarksFailed, runData
  <2>2. \A q \in Runs : /\ phase'[q] = "written" => phase[q] = "written"
                        /\ q \in Loaded' => q \in Loaded
    BY <1>4 DEF Checkpoint, MarksFailed, Loaded, RunInv, TypeOK
  <2>3. CASE Fresh(r) /\ r \in OpeningRuns
    <3>1. chats'[r].state = Defaults /\ r \in ChatIds
      BY <2>1, <2>3, Publishing DEF RunInv, ChatIds
    <3>2. \A c \in ChatIds \ {r} : chats'[c] = chats[c]
      BY <2>1, Publishing DEF RunInv
    <3>3. chats[r] = NoRow /\ execs[r] = "none"
      BY <2>3 DEF Fresh, RunInv, ChatInv
    <3>4. \A q \in Runs : q \in Loaded => chat[q] \in ChatIds
      BY DEF RunInv, ChatInv, Loaded, ChatIds
    <3>5. \A q \in Runs : q \in Loaded /\ chat[q] = r => q = r
      BY <2>3, <3>3, ChatAssumption DEF RunInv, ChatInv, Loaded
    <3>6. base[r] = Defaults
      BY <2>3 DEF RunInv, BaseInv
    <3>7. \A q \in Runs : q \in Loaded \ overtaken /\ chats'[chat[q]] # NoRow =>
             base[q] = chats'[chat[q]].state
      BY <3>1, <3>2, <3>4, <3>5, <3>6 DEF RunInv, BaseInv
    <3> QED BY <2>1, <2>2, <3>7 DEF RunInv, BaseInv
  <2>4. CASE ~(Fresh(r) /\ r \in OpeningRuns)
    <3>1. chats' = chats
      BY <2>1, <2>4 DEF PublishedChats
    <3> QED BY <1>c, <2>1, <2>2, <3>1
  <2> QED BY <2>3, <2>4
<1>5. ASSUME NEW r \in Runs, NEW o \in Outcomes, Settle(r, o) PROVE BaseInv'
  <2>1. PICK left \in States : left = [v \in Vars |-> IF v \in o.sets THEN r ELSE base[r][v]]
    <3>1. base[r] \in States
      BY DEF RunInv, TypeOK
    <3>2. [v \in Vars |-> IF v \in o.sets THEN r ELSE base[r][v]] \in States
      BY <3>1 DEF States
    <3> QED BY <3>2
  <2>2. /\ phase[r] = "running" /\ phase' = [phase EXCEPT ![r] = "written"]
        /\ final' = [final EXCEPT ![r] = left]
        /\ UNCHANGED <<chats, chat, base, overtaken>>
    BY <1>5, <2>1 DEF Settle, Goto, tables
  <2>3. \A v \in Vars : left[v] \in {r, base[r][v]}
    BY <2>1
  <2>4. \A q \in Runs : q \in Loaded' => q \in Loaded
    BY <2>2 DEF Loaded, RunInv, TypeOK
  <2>5. \A q \in Runs : phase'[q] = "written" => \A v \in Vars : final'[q][v] \in {q, base'[q][v]}
    BY <2>2, <2>3 DEF RunInv, TypeOK, BaseInv
  <2> QED BY <2>2, <2>4, <2>5 DEF RunInv, BaseInv
<1>6. ASSUME NEW r \in Runs, StoresRun(r) PROVE BaseInv'
  <2>1. /\ phase[r] = "written" /\ phase' = [phase EXCEPT ![r] = "over"]
        /\ overtaken' = overtaken \cup {o \in Loaded \ {r} : chat[o] = chat[r]}
        /\ chat[r] \in ChatIds /\ UNCHANGED <<chat, base, final>>
    BY <1>6 DEF StoresRun
  <2>2. \A c \in ChatIds : c # chat[r] => chats'[c] = chats[c]
    BY <1>6 DEF StoresRun, RunInv, TypeOK
  <2>3. \A q \in Runs : /\ phase'[q] = "written" => phase[q] = "written"
                        /\ q \in Loaded' => q \in Loaded /\ q # r
    BY <2>1 DEF Loaded, RunInv, TypeOK
  <2>4. \A q \in Runs : q \in Loaded => chat[q] \in ChatIds
    BY DEF RunInv, ChatInv, Loaded, ChatIds
  <2>5. \A q \in Runs : q \in Loaded' \ overtaken' => q \in Loaded \ overtaken /\ chat[q] # chat[r]
    BY <2>1, <2>3
  <2> QED BY <2>1, <2>2, <2>3, <2>4, <2>5, SameBases
<1>7. ASSUME NEW c \in DOMAIN chats, DeleteChat(c) \/ SendMessage(c) PROVE BaseInv'
  <2>1. /\ UNCHANGED <<phase, chat, base, final, overtaken>> /\ chats[c] # NoRow /\ c \in ChatIds
    BY <1>7 DEF DeleteChat, SendMessage, runData, RunInv, TypeOK
  <2>2. /\ \A d \in ChatIds \ {c} : chats'[d] = chats[d]
        /\ chats'[c] # NoRow => chats'[c].state = chats[c].state
    <3>1. Said(chats[c], <<ByHand>>).state = chats[c].state
      BY <2>1, SaidRow, FirstRows DEF RunInv, TypeOK
    <3> QED BY <1>7, <2>1, <3>1 DEF DeleteChat, SendMessage, RunInv, TypeOK
  <2>3. \A q \in Runs : q \in Loaded => chat[q] \in ChatIds
    BY DEF RunInv, ChatInv, Loaded, ChatIds
  <2>4. Loaded' = Loaded
    BY <2>1 DEF Loaded
  <2> QED BY <2>1, <2>2, <2>3, <2>4, SameBases
<1>8. ASSUME Crash \/ UNCHANGED runVars PROVE BaseInv'
  <2>1. UNCHANGED <<chats, chat, base, final, overtaken>>
    BY <1>8 DEF Crash, runVars, tables, runData
  <2>2. \A q \in Runs : /\ phase'[q] = "written" => phase[q] = "written"
                        /\ q \in Loaded' => q \in Loaded
    BY <1>8 DEF Crash, runVars, Loaded
  <2> QED BY <1>c, <2>1, <2>2
<1> QED BY <1>1, <1>2, <1>3, <1>4, <1>5, <1>6, <1>7, <1>8, <1>a, <1>b DEF RunAction

\* The calls to the providers are no business of the rows.
LEMMA CallsKeepRuns ==
    [Next]_vars => RunAction
<1>1. ASSUME NEW r \in Runs, BeginCall(r) \/ EndCall(r) PROVE UNCHANGED runVars
  BY <1>1 DEF BeginCall, EndCall, runVars, locks
<1>2. ASSUME NEW r \in Runs, NEW k \in DOMAIN Caps,
             \/ TakeSlot(r, k) \/ GoWithout(r, k) \/ RedisFails(r, k)
             \/ ReleaseFails(r, k) \/ Expire(r, k)
      PROVE  UNCHANGED runVars
  BY <1>2 DEF TakeSlot, GoWithout, RedisFails, ReleaseFails, Expire, runVars, locks
<1>3. UNCHANGED vars => UNCHANGED runVars
  BY DEF vars, runVars, locks
<1>4. \A r \in Runs : Fail(r) \/ Cancel(r) => GivesUp(r)
  BY DEF Fail, Cancel, GivesUp
<1> QED BY <1>1, <1>2, <1>3, <1>4 DEF Next, RunStep, RunAction

\* RunInv is inductive.
LEMMA NextRunInv ==
    RunInv /\ [Next]_vars => RunInv'
<1> SUFFICES ASSUME RunInv, RunAction PROVE RunInv'
  BY CallsKeepRuns
<1> QED BY NextTypeOK, NextPhaseInv, NextChatInv, NextClientInv, NextWordsInv, NextReplyInv,
           NextBaseInv DEF RunInv

\* SettledWhole is what RunInv says of the tables.
LEMMA RunsAreWhole == RunInv => SettledWhole
<1> SUFFICES ASSUME RunInv PROVE SettledWhole
  OBVIOUS
<1>1. \A r \in Runs : r \in Settled =>
        phase[r] = "over" /\ last[r].status \in {"completed", "error"}
  BY DEF RunInv, PhaseInv, Settled
<1>2. Settled \subseteq charged
  BY <1>1 DEF RunInv, PhaseInv, Settled
<1>3. \A r \in charged \ Settled : execs[r] = "failed" /\ chats[chat[r]] = NoRow
  BY DEF RunInv, TypeOK, PhaseInv, Settled
<1>4. client = NoRow => Settled = {}
  BY NoClientNothingSettled
<1>5. client # NoRow => client = Cardinality(Settled)
  BY DEF RunInv, ClientInv
<1> QED BY <1>2, <1>3, <1>4, <1>5 DEF RunInv, TypeOK, WordsInv, ReplyInv, SettledWhole

\* A run is stored as a whole or not at all, however many runs share a chat and a
\* client, whichever of them fail and whenever the process dies.
\* (_finalization_phase and the one commit of run_workflow_isolated)
THEOREM RunsStoredWhole == Spec => []SettledWhole
<1> QED BY InitRunInv, NextRunInv, RunsAreWhole, PTL DEF Spec

\* What a commit may change in the state of the chat.
LEMMA CommitsOwnVars ==
    ASSUME RunInv, [Next]_vars, NEW r \in Runs,
           phase[r] = "written", phase'[r] = "over",
           NEW v \in Vars,
           chats'[chat[r]].state[v] # (PublishedChats(r))[chat[r]].state[v]
    PROVE  \/ chats'[chat[r]].state[v] = r
           \/ r \in overtaken /\ final[r] # base[r] /\ chats'[chat[r]].state[v] = base[r][v]
<1>1. StoresRun(r)
  <2>1. Commit(r)
    <3>1. ASSUME NEW q \in Runs,
                 \/ GetClient(q) \/ InsertClient(q) \/ LoadFails(q) \/ CommitFails(q)
                 \/ Dispatch(q) \/ Load(q) \/ Checkpoint(q) \/ GivesUp(q) \/ SettleWithoutChat(q)
                 \/ (\E o \in Outcomes : Settle(q, o))
                 \/ AnswerId(q) \/ AnswerResult(q) \/ AnswerTimeout(q)
          PROVE  FALSE
      BY <3>1 DEF GetClient, InsertClient, LoadFails, CommitFails, Dispatch, Load, Checkpoint, GivesUp,
                  SettleWithoutChat, Settle, AnswerId, AnswerResult, AnswerTimeout, Answered, Goto, Lost,
                  RunInv, TypeOK
    <3>2. ASSUME NEW q \in Runs, q # r, Commit(q) PROVE FALSE
      BY <3>2 DEF Commit, Goto, RunInv, TypeOK
    <3>3. ASSUME NEW c \in DOMAIN chats, DeleteChat(c) \/ SendMessage(c) PROVE FALSE
      BY <3>3 DEF DeleteChat, SendMessage
    <3>4. ASSUME Crash \/ UNCHANGED runVars PROVE FALSE
      BY <3>4 DEF Crash, runVars
    <3> QED BY <3>1, <3>2, <3>3, <3>4, CallsKeepRuns DEF RunAction
  <2> QED BY <2>1, CommitSettled
<1>2. PICK new \in ChatRows : /\ chats' = [chats EXCEPT ![chat[r]] = new]
                             /\ new.state = Stored(chats[chat[r]].state, r)
  BY <1>1 DEF StoresRun
<1>3. /\ chat[r] \in ChatIds /\ chats[chat[r]] # NoRow /\ execs[r] # "none"
      /\ chats'[chat[r]] = new
  BY <1>1, <1>2 DEF StoresRun, RunInv, TypeOK, PhaseInv
<1>4. (PublishedChats(r))[chat[r]] = chats[chat[r]]
  BY <1>3, OthersChats
<1>5. /\ r \notin overtaken => base[r] = chats[chat[r]].state
      /\ final[r][v] \in {r, base[r][v]}
  BY <1>3 DEF RunInv, BaseInv, Loaded
<1> QED BY <1>2, <1>3, <1>4, <1>5 DEF Stored

\* A run changes only the variables its nodes set, or puts back what it had loaded when
\* it was overtaken and changed something itself, for any runs, chats and schema.
\* (_load_initial_state, update_state)
THEOREM RunsWriteOwnOrLoaded == Spec => WritesOwnOrLoaded
<1>1. RunInv /\ [Next]_vars =>
        [\A r \in Runs : phase[r] = "written" /\ phase'[r] = "over" =>
           \A v \in Vars :
             LET now == (PublishedChats(r))[chat[r]].state[v]
                 new == chats'[chat[r]].state[v]
             IN new # now =>
                  \/ new = r
                  \/ r \in overtaken /\ final[r] # base[r] /\ new = base[r][v]]_vars
  <2> SUFFICES ASSUME RunInv, [Next]_vars, NEW r \in Runs,
                      phase[r] = "written", phase'[r] = "over", NEW v \in Vars,
                      chats'[chat[r]].state[v] # (PublishedChats(r))[chat[r]].state[v]
               PROVE  \/ chats'[chat[r]].state[v] = r
                      \/ /\ r \in overtaken /\ final[r] # base[r]
                         /\ chats'[chat[r]].state[v] = base[r][v]
    OBVIOUS
  <2> QED BY CommitsOwnVars
<1> QED BY <1>1, InitRunInv, NextRunInv, PTL DEF Spec, WritesOwnOrLoaded

-----------------------------------------------------------------------------
(* One run by the parallel engine, on every graph: the numbering of the steps *)
(* does not depend on what the scheduler decides.                              *)

\* Every number given out is a row or a task still to be processed; a run that is
\* over has no task left.
NumbersInv ==
    /\ steps \in Nat
    /\ done \subseteq running
    /\ \A t \in running : t.step \in Nat
    /\ outcome \in {"running", "completed", "failed"}
    /\ outcome # "running" => ready = <<>> /\ running = {}
    /\ outcome # "failed" => rows \union {t.step : t \in running} = 0..(steps - 1)

\* The initial state: no number given out.
LEMMA InitNumbers == ParallelInit => NumbersInv
<1> SUFFICES ASSUME ParallelInit PROVE NumbersInv
  OBVIOUS
<1>1. 0..(0 - 1) = {}
  OBVIOUS
<1> QED BY <1>1 DEF ParallelInit, NumbersInv

\* Launch: the next number goes to the new task.
LEMMA LaunchNumbers == NumbersInv /\ Launch => NumbersInv'
<1> SUFFICES ASSUME NumbersInv, Launch PROVE NumbersInv'
  OBVIOUS
<1>1. PICK new : new = [node |-> Head(ready), step |-> steps, saw |-> state]
  OBVIOUS
<1>2. /\ outcome = "running" /\ outcome' = outcome /\ rows' = rows /\ done' = done
      /\ running' = running \union {new} /\ steps' = steps + 1 /\ new.step = steps
  BY <1>1 DEF Launch, NumbersInv
<1>3. 0..(steps' - 1) = (0..(steps - 1)) \union {steps}
  BY <1>2 DEF NumbersInv
<1>4. {t.step : t \in running'} = {t.step : t \in running} \union {steps}
  BY <1>2
<1>5. rows' \union {t.step : t \in running'} = 0..(steps' - 1)
  BY <1>2, <1>3, <1>4 DEF NumbersInv
<1> QED BY <1>2, <1>5 DEF NumbersInv

\* NodeCompleted, EndCompleted: the number moves from the task to a row.
LEMMA ProcessedNumbers ==
    ASSUME NumbersInv, NEW t \in done, Processed(t) PROVE NumbersInv'
<1>1. /\ t \in running /\ outcome = "running" /\ outcome' = outcome /\ steps' = steps
      /\ running' = running \ {t} /\ done' = done \ {t} /\ rows' = rows \union {t.step}
  BY DEF Processed, NumbersInv
<1>2. rows' \union {u.step : u \in running'} = rows \union {u.step : u \in running}
  BY <1>1
<1> QED BY <1>1, <1>2 DEF NumbersInv

\* An aborted run has no task left, and no claim on its rows.
LEMMA AbortNumbers == NumbersInv /\ Abort /\ steps' = steps => NumbersInv'
BY DEF NumbersInv, Abort

\* Every step keeps the numbering.
LEMMA NextNumbers == NumbersInv /\ [ParallelNext]_parallelVars => NumbersInv'
<1> SUFFICES ASSUME NumbersInv, [ParallelNext]_parallelVars PROVE NumbersInv'
  OBVIOUS
<1>1. CASE Launch
  BY <1>1, LaunchNumbers
<1>2. CASE LimitReached
  BY <1>2, AbortNumbers DEF LimitReached
<1>3. CASE Wait
  BY <1>3 DEF Wait, NumbersInv
<1>4. CASE Timeout
  BY <1>4, AbortNumbers DEF Timeout
<1>5. CASE Finish
  BY <1>5 DEF Finish, NumbersInv
<1>6. ASSUME NEW t \in done, NodeFailed(t) PROVE NumbersInv'
  BY <1>6, AbortNumbers DEF NodeFailed
<1>7. ASSUME NEW t \in done, NodeCompleted(t) \/ EndCompleted(t) PROVE NumbersInv'
  BY <1>7, ProcessedNumbers DEF NodeCompleted, EndCompleted
<1>8. CASE UNCHANGED parallelVars
  BY <1>8 DEF parallelVars, NumbersInv
<1> QED BY <1>1, <1>2, <1>3, <1>4, <1>5, <1>6, <1>7, <1>8 DEF ParallelNext

\* A completed run has a step row for every execution of a node, on every graph and
\* however the tasks overlap (with_node_visited at launch, has_step at completion).
THEOREM EveryStepRecorded == ParallelSpec => []StepsRecorded
<1>1. NumbersInv => StepsRecorded
  BY DEF NumbersInv, StepsRecorded
<1> QED BY InitNumbers, NextNumbers, <1>1, PTL DEF ParallelSpec

-----------------------------------------------------------------------------
(* Of the parallel engine: the graph and what a search of it finds. *)

\* A claim about numbers that fails somewhere fails first at some number.
LEMMA LeastFailure ==
    ASSUME NEW S \in SUBSET Nat, S # {}
    PROVE  \E x \in S : \A y \in S : x <= y
<1>1. PICK x \in S : \A y \in S : ~ (<<y, x>> \in OpToRel(<, Nat))
  BY WFMin, NatLessThanWellFounded
<1>2. ASSUME NEW y \in S PROVE x <= y
  <2>1. <<y, x>> \in OpToRel(<, Nat) <=> y < x
    BY DEF OpToRel
  <2>2. ~ (y < x)
    BY <1>1, <2>1
  <2>3. x \in Nat /\ y \in Nat
    OBVIOUS
  <2> QED BY <2>2, <2>3
<1> QED BY <1>2

\* An edge the search tries next is one it can try.
LEMMA LeastIn == ASSUME NEW S \in SUBSET Nat, S # {} PROVE LeastOf(S) \in S
BY LeastFailure DEF LeastOf

\* The positions a scheduler looks at.
LEMMA GraphEdges ==
    ASSUME NEW g \in Graphs
    PROVE  /\ Len(g) \in Nat /\ DOMAIN g = 1..Len(g) /\ Links(g) \subseteq 1..Len(g)
           /\ \A S \in SUBSET Links(g) : IsFiniteSet(S) /\ Cardinality(S) <= Len(g)
           /\ \A n : OutOf(g, n) \subseteq Links(g)
<1>1. Len(g) \in Nat /\ g = [i \in 1..Len(g) |-> g[i]]
  BY RunAssumption DEF RunAssumption
<1> DEFINE I == 1..Len(g)
<1>2. IsFiniteSet(I) /\ Cardinality(I) = Len(g)
  <2>1. Len(g) \in Int /\ 1 \in Int
    BY <1>1
  <2>2. IsFiniteSet(I) /\ Cardinality(I) = IF 1 > Len(g) THEN 0 ELSE Len(g) - 1 + 1
    BY <2>1, FS_Interval
  <2> QED BY <1>1, <2>2
<1>3. DOMAIN g = I /\ Links(g) \subseteq I
  BY <1>1 DEF Links
<1>4. ASSUME NEW S \in SUBSET Links(g) PROVE IsFiniteSet(S) /\ Cardinality(S) <= Len(g)
  <2>1. S \in SUBSET I
    BY <1>3
  <2> HIDE DEF I
  <2> QED BY <1>2, <2>1, FS_Subset
<1> QED BY <1>1, <1>3, <1>4 DEF OutOf

\* A stack without repetitions, popped.
LEMMA Popped ==
    ASSUME NEW S, NEW s \in Seq(S), s # <<>>, IsInjective(s)
    PROVE  /\ Front(s) \in Seq(S) /\ IsInjective(Front(s)) /\ Last(s) \in Range(s)
           /\ Range(Front(s)) = Range(s) \ {Last(s)}
           /\ Front(s) # <<>> => Front(s)[1] = s[1]
           /\ \A a \in DOMAIN Front(s) : a \in DOMAIN s /\ Front(s)[a] = s[a]
           /\ \A a, b \in DOMAIN s :
                 a < b => /\ s[a] # Last(s) /\ a \in DOMAIN Front(s) /\ Front(s)[a] = s[a]
                          /\ s[b] = Last(s) \/ (b \in DOMAIN Front(s) /\ Front(s)[b] = s[b])
<1> DEFINE n == Len(s)
<1>1. n \in Nat /\ n # 0 /\ DOMAIN s = 1..n /\ \A i \in 1..n : s[i] \in S
  BY EmptySeq, LenProperties, ElementOfSeq
<1>2. /\ Front(s) \in Seq(S) /\ Len(Front(s)) = n - 1
      /\ \A i \in 1..(n - 1) : Front(s)[i] = s[i]
  <2>1. /\ SubSeq(s, 1, n - 1) \in Seq(S)
        /\ Len(SubSeq(s, 1, n - 1)) = IF 1 <= n - 1 THEN (n - 1) - 1 + 1 ELSE 0
        /\ \A i \in 1..((n - 1) - 1 + 1) : SubSeq(s, 1, n - 1)[i] = s[1 + i - 1]
    <3>1. n - 1 \in Int /\ 1 \in Int /\ \A i \in 1..(n - 1) : s[i] \in S
      BY <1>1
    <3> HIDE DEF n
    <3> QED BY <3>1, SubSeqProperties
  <2>2. (n - 1) - 1 + 1 = n - 1 /\ \A i \in 1..(n - 1) : 1 + i - 1 = i
    BY <1>1
  <2> QED BY <1>1, <2>1, <2>2 DEF Front
<1>3. DOMAIN Front(s) = 1..(n - 1)
  BY <1>2, LenProperties
<1> HIDE DEF n
<1>4. \A i \in 1..(n - 1) : i \in 1..n /\ i # n
  BY <1>1
<1>5. \A i \in 1..n : i = n \/ i \in 1..(n - 1)
  BY <1>1
<1>6. Last(s) = s[n] /\ n \in 1..n
  BY <1>1 DEF Last, n
<1>7. IsInjective(Front(s))
  BY <1>1, <1>2, <1>3, <1>4 DEF IsInjective
<1>8. Range(Front(s)) = Range(s) \ {Last(s)}
  BY <1>1, <1>2, <1>3, <1>4, <1>5, <1>6 DEF IsInjective, Range
<1>9. Front(s) # <<>> => Front(s)[1] = s[1]
  <2>1. Front(s) # <<>> => 1 \in 1..(n - 1)
    BY <1>1, <1>2, EmptySeq
  <2> QED BY <1>2, <2>1
<1>10. ASSUME NEW a \in DOMAIN s, NEW b \in DOMAIN s, a < b
       PROVE  /\ s[a] # Last(s) /\ a \in DOMAIN Front(s) /\ Front(s)[a] = s[a]
              /\ s[b] = Last(s) \/ (b \in DOMAIN Front(s) /\ Front(s)[b] = s[b])
  <2>1. a \in 1..(n - 1) /\ a # n /\ (b = n \/ b \in 1..(n - 1))
    BY <1>1, <1>10
  <2>2. s[a] # s[n]
    BY <1>1, <1>6, <2>1 DEF IsInjective
  <2> QED BY <1>2, <1>3, <1>6, <2>1, <2>2
<1>11. \A a \in DOMAIN Front(s) : a \in DOMAIN s /\ Front(s)[a] = s[a]
  BY <1>1, <1>2, <1>3, <1>4
<1> QED BY <1>1, <1>2, <1>6, <1>7, <1>8, <1>9, <1>10, <1>11 DEF Range

\* A stack without repetitions and a node that is not on it.
LEMMA Pushed ==
    ASSUME NEW S, NEW s \in Seq(S), IsInjective(s), NEW x \in S, x \notin Range(s)
    PROVE  /\ Append(s, x) \in Seq(S) /\ IsInjective(Append(s, x))
           /\ Range(Append(s, x)) = Range(s) \union {x}
           /\ s # <<>> => Append(s, x)[1] = s[1]
           /\ DOMAIN s \subseteq DOMAIN Append(s, x)
           /\ \A a \in DOMAIN s : Append(s, x)[a] = s[a]
           /\ \E b \in DOMAIN Append(s, x) :
                 /\ Append(s, x)[b] = x /\ \A a \in DOMAIN s : a < b /\ ~ (b < a)
                 /\ ~ (b < b) /\ \A a \in DOMAIN Append(s, x) : a = b \/ a \in DOMAIN s
<1> DEFINE n == Len(s)
           t == Append(s, x)
<1>1. n \in Nat /\ DOMAIN s = 1..n /\ (s # <<>> => n # 0)
  BY EmptySeq, LenProperties
<1>2. /\ t \in Seq(S) /\ Len(t) = n + 1
      /\ \A i \in 1..n : t[i] = s[i]
      /\ t[n + 1] = x
  BY AppendProperties
<1>3. DOMAIN t = 1..(n + 1)
  BY <1>2, LenProperties
<1> HIDE DEF n, t
<1>4. /\ \A i \in 1..(n + 1) : i = n + 1 \/ i \in 1..n
      /\ n + 1 \in 1..(n + 1) /\ \A i \in 1..n : i \in 1..(n + 1)
  BY <1>1
<1>5. Range(t) = Range(s) \union {x}
  BY <1>1, <1>2, <1>3, <1>4 DEF Range
<1>6. IsInjective(t)
  BY <1>1, <1>2, <1>3, <1>4 DEF IsInjective, Range
<1>7. s # <<>> => t[1] = s[1]
  <2>1. s # <<>> => 1 \in 1..n
    BY <1>1
  <2> QED BY <1>2, <2>1
<1>8. DOMAIN s \subseteq DOMAIN t /\ \A a \in DOMAIN s : t[a] = s[a]
  BY <1>1, <1>2, <1>3, <1>4
<1>9. \E b \in DOMAIN t : /\ t[b] = x /\ \A a \in DOMAIN s : a < b /\ ~ (b < a)
                        /\ ~ (b < b) /\ \A a \in DOMAIN t : a = b \/ a \in DOMAIN s
  <2>1. ~ (n + 1 < n + 1) /\ \A a \in 1..n : a < n + 1 /\ ~ (n + 1 < a)
    BY <1>1
  <2> QED BY <1>1, <1>2, <1>3, <1>4, <2>1
<1> QED BY <1>2, <1>5, <1>6, <1>7, <1>8, <1>9 DEF t

\* Every part of R has a node that no other node of it leads to.
Ordered(g, R) ==
    \A X \in SUBSET R :
        X # {} => \E n \in X : \A i \in Links(g) : g[i].target = n => g[i].source \notin X

\* A search that has found no back edge: it is over with the target of an edge it has
\* tried, or the target is on the stack above the source.
OrderInv(g, d) ==
    LET over == d.seen \ Range(d.stack)
    IN  d.back = {} =>
            /\ Ordered(g, over)
            /\ \A i \in d.tried :
                  \/ g[i].target \in over
                  \/ \E a, b \in DOMAIN d.stack :
                        a < b /\ d.stack[a] = g[i].source /\ d.stack[b] = g[i].target

\* The stack is a path, and an edge found to lead back to it closes a loop: a loop
\* through START, or one whose first node has a second node before it.
LoopInv(g, d) ==
    /\ \A a, b \in DOMAIN d.stack :
          a < b => d.stack[b] \in Reachable(g, Targets(g, d.stack[a]))
    /\ \A b \in DOMAIN d.stack :
          \/ d.stack[b] = Start
          \/ \E a \in DOMAIN d.stack :
                a < b /\ \E i \in Links(g) :
                            g[i].source = d.stack[a] /\ g[i].target = d.stack[b]
    /\ \A i \in d.back : g[i].target = Start \/ g[i].target \in JoinsInLoop(g)

\* What the k-th step of a search has found: when the stack is empty, the nodes
\* that have been seen are left by no edge.
SearchInv(g, d, k) ==
    /\ d \in [stack : Seq(Nodes), seen : SUBSET Nodes,
              tried : SUBSET Links(g), back : SUBSET Links(g)]
    /\ Start \in d.seen /\ Range(d.stack) \subseteq d.seen /\ d.seen \subseteq FromStart(g)
    /\ IsInjective(d.stack)
    /\ d.stack # <<>> =>
          /\ d.stack[1] = Start
          /\ Cardinality(d.tried) + Cardinality(d.seen \ Range(d.stack)) = k
    /\ \A n \in d.seen \ Range(d.stack) : OutOf(g, n) \subseteq d.tried
    /\ \A i \in d.tried :
          g[i].target \in d.seen /\ (g[i].target = Start => i \in d.back)
    /\ OrderInv(g, d) /\ LoopInv(g, d)

\* What is reached: the same over edges as over pairs of nodes.
LEMMA ReachableIs ==
    ASSUME NEW g, NEW S, NEW n \in Nodes
    PROVE  n \in Reachable(g, S) <=>
              \A R \in SUBSET Nodes :
                 S \subseteq R /\ (\A i \in Links(g) : g[i].source \in R => g[i].target \in R)
                    => n \in R
<1>1. ASSUME NEW R \in SUBSET Nodes
      PROVE  (\A p \in Follows(g) : p[1] \in R => p[2] \in R)
                <=> (\A i \in Links(g) : g[i].source \in R => g[i].target \in R)
  <2>1. ASSUME \A p \in Follows(g) : p[1] \in R => p[2] \in R,
               NEW i \in Links(g), g[i].source \in R
        PROVE  g[i].target \in R
    <3>1. <<g[i].source, g[i].target>> \in Follows(g)
      BY <2>1 DEF Follows
    <3> QED BY <2>1, <3>1
  <2>2. ASSUME \A i \in Links(g) : g[i].source \in R => g[i].target \in R,
               NEW p \in Follows(g), p[1] \in R
        PROVE  p[2] \in R
    BY <2>2 DEF Follows
  <2> QED BY <2>1, <2>2
<1> QED BY <1>1 DEF Reachable

\* An edge leads on from what is reached.
LEMMA ReachableLeads ==
    ASSUME NEW g, NEW i \in Links(g)
    PROVE  /\ g[i].target \in Nodes
           /\ \A S : g[i].source \in Reachable(g, S) => g[i].target \in Reachable(g, S)
           /\ g[i].source \in Nodes => g[i].target \in Reachable(g, Targets(g, g[i].source))
<1>1. g[i].target \in Nodes
  BY DEF Links, Valid
<1>2. ASSUME NEW S, g[i].source \in Reachable(g, S) PROVE g[i].target \in Reachable(g, S)
  <2>1. g[i].source \in Nodes
    BY <1>2 DEF Reachable
  <2> QED BY <1>1, <1>2, <2>1, ReachableIs
<1>3. ASSUME g[i].source \in Nodes PROVE g[i].target \in Reachable(g, Targets(g, g[i].source))
  <2>1. g[i].target \in Targets(g, g[i].source)
    <3>1. <<g[i].source, g[i].target>> \in Follows(g)
      BY <1>3 DEF Follows
    <3> QED BY <3>1 DEF Targets
  <2> QED BY <1>1, <2>1, ReachableIs
<1> QED BY <1>1, <1>2, <1>3

\* What START leads to is closed under the edges, and in every set that is.
LEMMA StartLeads ==
    ASSUME NEW g
    PROVE  /\ Start \in FromStart(g) /\ FromStart(g) \subseteq Nodes
           /\ \A i \in Links(g) : g[i].source \in FromStart(g) => g[i].target \in FromStart(g)
           /\ \A R \in SUBSET Nodes :
                 Start \in R /\ (\A i \in Links(g) : g[i].source \in R => g[i].target \in R)
                    => FromStart(g) \subseteq R
<1>1. FromStart(g) \subseteq Nodes
  BY DEF FromStart, Reachable
<1>2. Start \in FromStart(g)
  BY RunAssumption, ReachableIs DEF RunAssumption, FromStart
<1>3. \A i \in Links(g) : g[i].source \in FromStart(g) => g[i].target \in FromStart(g)
  BY ReachableLeads DEF FromStart
<1>4. ASSUME NEW R \in SUBSET Nodes,
             Start \in R, \A i \in Links(g) : g[i].source \in R => g[i].target \in R,
             NEW n \in FromStart(g)
      PROVE  n \in R
  BY <1>1, <1>4, ReachableIs DEF FromStart
<1> QED BY <1>1, <1>2, <1>3, <1>4

\* There are finitely many nodes.
LEMMA NodesFinite == \A S \in SUBSET Nodes : IsFiniteSet(S) /\ Cardinality(S) \in Nat
BY RunAssumption, FS_Subset, FS_CardinalityType DEF RunAssumption

\* A node that is left leads only to nodes that were left before it.
LEMMA OrderPops ==
    ASSUME NEW g \in Graphs, NEW k \in Nat, NEW d, SearchInv(g, d, k), d.stack # <<>>,
           OutOf(g, Last(d.stack)) \subseteq d.tried,
           NEW e, e.stack = Front(d.stack), e.seen = d.seen, e.tried = d.tried, e.back = d.back
    PROVE  OrderInv(g, e)
<1> SUFFICES ASSUME d.back = {} PROVE OrderInv(g, e)
  BY DEF OrderInv
<1> DEFINE top == Last(d.stack)
           over == d.seen \ Range(d.stack)
<1>1. d.stack \in Seq(Nodes) /\ IsInjective(d.stack) /\ Range(d.stack) \subseteq d.seen
  BY DEF SearchInv
<1>2. /\ top \in Range(d.stack) /\ Range(Front(d.stack)) = Range(d.stack) \ {top}
      /\ \A a, b \in DOMAIN d.stack :
            a < b => /\ d.stack[a] # top /\ a \in DOMAIN e.stack /\ e.stack[a] = d.stack[a]
                     /\ \/ d.stack[b] = top
                        \/ b \in DOMAIN e.stack /\ e.stack[b] = d.stack[b]
  BY <1>1, Popped
<1>3. e.seen \ Range(e.stack) = over \union {top} /\ top \notin over
  BY <1>1, <1>2
<1>4. /\ Ordered(g, over)
      /\ \A i \in d.tried :
            \/ g[i].target \in over
            \/ \E a, b \in DOMAIN d.stack :
                  a < b /\ d.stack[a] = g[i].source /\ d.stack[b] = g[i].target
  BY DEF SearchInv, OrderInv
<1>5. \A n \in over : OutOf(g, n) \subseteq d.tried
  BY DEF SearchInv
<1> HIDE DEF top, over
<1>6. ASSUME NEW i \in Links(g), g[i].source \in over \union {top} PROVE g[i].target \in over
  <2>1. i \in d.tried
    BY <1>5, <1>6 DEF OutOf, top
  <2>2. \A a, b \in DOMAIN d.stack : a < b => d.stack[a] # g[i].source
    BY <1>2, <1>6 DEF over, Range
  <2> QED BY <1>4, <2>1, <2>2
<1>7. Ordered(g, over \union {top})
  <2> SUFFICES ASSUME NEW X \in SUBSET (over \union {top}), X # {}
               PROVE  \E n \in X : \A i \in Links(g) : g[i].target = n => g[i].source \notin X
    BY DEF Ordered
  <2>1. CASE top \in X
    BY <1>3, <1>6, <2>1
  <2>2. CASE top \notin X
    <3>1. X \in SUBSET over
      BY <2>2
    <3> QED BY <1>4, <3>1 DEF Ordered
  <2> QED BY <2>1, <2>2
<1>8. ASSUME NEW i \in d.tried
      PROVE  \/ g[i].target \in over \union {top}
             \/ \E a, b \in DOMAIN e.stack :
                   a < b /\ e.stack[a] = g[i].source /\ e.stack[b] = g[i].target
  BY <1>2, <1>4
<1> QED BY <1>3, <1>7, <1>8 DEF OrderInv

\* A path without its last node is one.
LEMMA LoopPops ==
    ASSUME NEW g \in Graphs, NEW k \in Nat, NEW d, SearchInv(g, d, k), d.stack # <<>>,
           NEW e, e.stack = Front(d.stack), e.back = d.back
    PROVE  LoopInv(g, e)
<1>1. d.stack \in Seq(Nodes) /\ IsInjective(d.stack)
  BY DEF SearchInv
<1> DEFINE s == d.stack
           w == e.stack
<1>2. /\ \A a \in DOMAIN w : a \in DOMAIN s /\ w[a] = s[a]
      /\ \A a, b \in DOMAIN s : a < b => a \in DOMAIN w
  BY <1>1, Popped
<1>3. LoopInv(g, d)
  BY DEF SearchInv
<1>4. \A a, b \in DOMAIN s : a < b => s[b] \in Reachable(g, Targets(g, s[a]))
  BY <1>3 DEF LoopInv
<1>5. \A b \in DOMAIN s :
          \/ s[b] = Start
          \/ \E a \in DOMAIN s :
                a < b /\ \E i \in Links(g) : g[i].source = s[a] /\ g[i].target = s[b]
  BY <1>3 DEF LoopInv
<1> HIDE DEF s, w
<1>6. \A a, b \in DOMAIN w : a < b => w[b] \in Reachable(g, Targets(g, w[a]))
  BY <1>2, <1>4
<1>7. \A b \in DOMAIN w :
          \/ w[b] = Start
          \/ \E a \in DOMAIN w :
                a < b /\ \E i \in Links(g) : g[i].source = w[a] /\ g[i].target = w[b]
  BY <1>2, <1>5
<1> QED BY <1>3, <1>6, <1>7 DEF LoopInv, w

\* The search leaves a node whose edges it has all tried.
LEMMA SearchPops ==
    ASSUME NEW g \in Graphs, NEW k \in Nat, NEW d, SearchInv(g, d, k), d.stack # <<>>,
           OutOf(g, Last(d.stack)) \subseteq d.tried
    PROVE  SearchInv(g, [d EXCEPT !.stack = Front(@)], k + 1)
<1> DEFINE top == Last(d.stack)
           e == [d EXCEPT !.stack = Front(@)]
<1>1. /\ d.stack \in Seq(Nodes) /\ d.seen \in SUBSET Nodes
      /\ d.tried \in SUBSET Links(g) /\ d.back \in SUBSET Links(g)
      /\ e = [stack |-> Front(d.stack), seen |-> d.seen, tried |-> d.tried, back |-> d.back]
  BY DEF SearchInv
<1>2. /\ Front(d.stack) \in Seq(Nodes) /\ IsInjective(Front(d.stack))
      /\ top \in Range(d.stack) /\ Range(Front(d.stack)) = Range(d.stack) \ {top}
      /\ Front(d.stack) # <<>> => Front(d.stack)[1] = d.stack[1]
  BY <1>1, Popped DEF SearchInv
<1>3. /\ e.stack = Front(d.stack) /\ e.seen = d.seen /\ e.tried = d.tried /\ e.back = d.back
      /\ e \in [stack : Seq(Nodes), seen : SUBSET Nodes,
                tried : SUBSET Links(g), back : SUBSET Links(g)]
  BY <1>1, <1>2
<1> DEFINE over == d.seen \ Range(d.stack)
<1>4. e.seen \ Range(e.stack) = over \union {top} /\ top \notin over
  BY <1>2, <1>3 DEF SearchInv
<1>5. Cardinality(over \union {top}) = Cardinality(over) + 1 /\ Cardinality(over) \in Nat
  <2>1. over \in SUBSET Nodes
    BY <1>1
  <2> HIDE DEF over, top
  <2> QED BY <1>4, <2>1, NodesFinite, FS_AddElement
<1>6. Cardinality(d.tried) \in Nat
  BY <1>1, GraphEdges, FS_CardinalityType
<1>7. e.stack # <<>> =>
          /\ e.stack[1] = Start
          /\ Cardinality(e.tried) + Cardinality(e.seen \ Range(e.stack)) = k + 1
  <2>1. d.stack[1] = Start /\ Cardinality(d.tried) + Cardinality(over) = k
    BY DEF SearchInv
  <2>2. \A a, b \in Nat : a + b = k => a + (b + 1) = k + 1
    OBVIOUS
  <2>3. Cardinality(d.tried) + Cardinality(over \union {top}) = k + 1
    <3> HIDE DEF over, top
    <3> QED BY <1>5, <1>6, <2>1, <2>2
  <2> QED BY <1>2, <1>3, <1>4, <2>1, <2>3
<1>8. /\ Start \in e.seen /\ Range(e.stack) \subseteq e.seen /\ IsInjective(e.stack)
      /\ e.seen \subseteq FromStart(g)
      /\ \A n \in e.seen \ Range(e.stack) : OutOf(g, n) \subseteq e.tried
      /\ \A i \in e.tried :
            g[i].target \in e.seen /\ (g[i].target = Start => i \in e.back)
  BY <1>2, <1>3, <1>4 DEF SearchInv
<1> HIDE DEF e
<1>9. OrderInv(g, e)
  BY <1>3, OrderPops
<1>10. LoopInv(g, e)
  BY <1>3, LoopPops
<1>11. SearchInv(g, e, k + 1)
  BY <1>3, <1>7, <1>8, <1>9, <1>10 DEF SearchInv
<1> QED BY <1>11 DEF e

\* e is the search after d has tried edge i, which leads to t.
Tries(d, i, t, e) ==
    /\ e.tried = d.tried \union {i} /\ e.seen = d.seen \union {t}
    /\ e.back = IF t \in Range(d.stack) THEN d.back \union {i} ELSE d.back
    /\ e.stack = IF t \in d.seen THEN d.stack ELSE Append(d.stack, t)

\* An edge that is tried leads to a node that is over or to one put above its source.
LEMMA OrderTries ==
    ASSUME NEW g \in Graphs, NEW k \in Nat, NEW d, SearchInv(g, d, k), d.stack # <<>>,
           NEW i \in OutOf(g, Last(d.stack)) \ d.tried, NEW t, t = g[i].target,
           NEW e, Tries(d, i, t, e)
    PROVE  OrderInv(g, e)
<1> USE DEF Tries
<1> SUFFICES ASSUME d.back = {}, t \notin Range(d.stack) PROVE OrderInv(g, e)
  BY DEF OrderInv
<1> DEFINE top == Last(d.stack)
           over == d.seen \ Range(d.stack)
<1>1. d.stack \in Seq(Nodes) /\ IsInjective(d.stack) /\ Range(d.stack) \subseteq d.seen
  BY DEF SearchInv
<1>2. /\ Ordered(g, over)
      /\ \A j \in d.tried :
            \/ g[j].target \in over
            \/ \E a, b \in DOMAIN d.stack :
                  a < b /\ d.stack[a] = g[j].source /\ d.stack[b] = g[j].target
  BY DEF SearchInv, OrderInv
<1>3. i \in Links(g) /\ g[i].source = top /\ t \in Nodes
  BY GraphEdges DEF OutOf, Links, Valid
<1>4. PICK c \in DOMAIN d.stack : d.stack[c] = top
  <2>1. top \in Range(d.stack)
    BY <1>1, Popped
  <2> QED BY <2>1 DEF Range
<1>5. CASE t \in d.seen
  <2>1. e.seen \ Range(e.stack) = over /\ t \in over /\ e.stack = d.stack
    BY <1>5
  <2> HIDE DEF over
  <2>2. ASSUME NEW j \in e.tried
        PROVE  \/ g[j].target \in over
               \/ \E a, b \in DOMAIN d.stack :
                     a < b /\ d.stack[a] = g[j].source /\ d.stack[b] = g[j].target
    <3>1. j = i \/ j \in d.tried
      OBVIOUS
    <3> QED BY <1>2, <2>1, <3>1
  <2> DEFINE Above(u) == \A j \in e.tried :
                 \/ g[j].target \in over
                 \/ \E a, b \in DOMAIN u :
                       a < b /\ u[a] = g[j].source /\ u[b] = g[j].target
  <2>3. Above(d.stack)
    BY <2>2
  <2>4. Above(e.stack)
    <3> HIDE DEF Above
    <3> QED BY <2>1, <2>3
  <2> QED BY <1>2, <2>1, <2>4 DEF OrderInv
<1>6. CASE t \notin d.seen
  <2>1. /\ Range(e.stack) = Range(d.stack) \union {t}
        /\ DOMAIN d.stack \subseteq DOMAIN e.stack
        /\ \A a \in DOMAIN d.stack : e.stack[a] = d.stack[a]
        /\ \E b \in DOMAIN e.stack : e.stack[b] = t /\ \A a \in DOMAIN d.stack : a < b
    BY <1>1, <1>3, <1>6, Pushed
  <2>2. e.seen \ Range(e.stack) = over
    BY <1>6, <2>1
  <2>3. \E a, b \in DOMAIN e.stack :
            a < b /\ e.stack[a] = g[i].source /\ e.stack[b] = g[i].target
    BY <1>3, <1>4, <2>1
  <2>4. ASSUME NEW j \in d.tried
        PROVE  \/ g[j].target \in over
               \/ \E a, b \in DOMAIN e.stack :
                     a < b /\ e.stack[a] = g[j].source /\ e.stack[b] = g[j].target
    <3> HIDE DEF over
    <3> QED BY <1>2, <2>1
  <2> HIDE DEF over
  <2> QED BY <1>2, <2>2, <2>3, <2>4 DEF OrderInv
<1> QED BY <1>5, <1>6

\* Two edges from different nodes make their target a join.
LEMMA TwoMeet ==
    ASSUME NEW g, NEW i \in Links(g), NEW j \in Links(g), g[i].target = g[j].target,
           g[i].source # g[j].source, g[i].source \in Nodes, g[j].source \in Nodes
    PROVE  Cardinality({p \in Follows(g) : p[2] = g[i].target}) >= 2
<1> DEFINE S == {p \in Follows(g) : p[2] = g[i].target}
           p == <<g[i].source, g[i].target>>
           q == <<g[j].source, g[j].target>>
<1>1. p \in S /\ q \in S /\ p # q
  BY DEF Follows
<1>2. IsFiniteSet(S)
  <2>1. Follows(g) \subseteq Nodes \X Nodes
    BY ReachableLeads DEF Follows
  <2>2. IsFiniteSet(Nodes \X Nodes)
    BY NodesFinite, FS_Product
  <2> QED BY <2>1, <2>2, FS_Subset
<1> HIDE DEF S, p, q
<1>3. Cardinality({p, q}) = 2
  <2>1. IsFiniteSet({p}) /\ Cardinality({p}) = 1 /\ {p, q} = {p} \union {q} /\ q \notin {p}
    BY <1>1, FS_Singleton
  <2>2. Cardinality({p} \union {q}) = Cardinality({p}) + 1
    BY ONLY <2>1, FS_AddElement
  <2> QED BY ONLY <2>1, <2>2
<1>4. {p, q} \subseteq S
  BY <1>1
<1>5. Cardinality({p, q}) <= Cardinality(S) /\ Cardinality(S) \in Nat
  BY <1>2, <1>4, FS_Subset, FS_CardinalityType
<1> QED BY <1>3, <1>5 DEF S

\* An edge that is tried is another step of the path, or leads back to a node of it that
\* is START or that the path has entered from another node.
LEMMA LoopTries ==
    ASSUME NEW g \in Graphs, NEW k \in Nat, NEW d, SearchInv(g, d, k), d.stack # <<>>,
           NEW i \in OutOf(g, Last(d.stack)) \ d.tried, NEW t, t = g[i].target,
           NEW e,
           e.back = IF t \in Range(d.stack) THEN d.back \union {i} ELSE d.back,
           e.stack = IF t \in d.seen THEN d.stack ELSE Append(d.stack, t)
    PROVE  LoopInv(g, e)
<1> DEFINE s == d.stack
           top == Last(s)
           Ways(u) == \A a, b \in DOMAIN u : a < b => u[b] \in Reachable(g, Targets(g, u[a]))
           Steps(u) == \A b \in DOMAIN u :
                          \/ u[b] = Start
                          \/ \E a \in DOMAIN u :
                                a < b /\ \E j \in Links(g) :
                                            g[j].source = u[a] /\ g[j].target = u[b]
<1>1. /\ s \in Seq(Nodes) /\ IsInjective(s) /\ Range(s) \subseteq d.seen
      /\ Range(s) \subseteq Nodes
  BY RangeOfSeq DEF SearchInv
<1>2. Ways(s) /\ Steps(s) /\ \A j \in d.back : g[j].target = Start \/ g[j].target \in JoinsInLoop(g)
  BY DEF SearchInv, LoopInv
<1>3. i \in Links(g) /\ g[i].source = top /\ t \in Nodes
  BY GraphEdges DEF OutOf, Links, Valid
<1>4. top \in Range(s) /\ top \in Nodes /\ \A a, b \in DOMAIN s : a < b => s[a] # top
  BY <1>1, Popped
<1>5. PICK n \in DOMAIN s : s[n] = top
  BY <1>4 DEF Range
<1>6. \A a \in DOMAIN s : a = n \/ a < n
  <2>1. \A a \in DOMAIN s : a < n \/ a = n \/ n < a
    BY <1>1, LenProperties
  <2> QED BY <1>4, <1>5, <2>1
<1>7. t \in Reachable(g, Targets(g, top)) /\ \A S : top \in Reachable(g, S) => t \in Reachable(g, S)
  BY <1>3, <1>4, ReachableLeads
<1>8. Ways(e.stack) /\ Steps(e.stack)
  <2>1. CASE t \in d.seen
    <3>1. e.stack = s
      BY <2>1
    <3> HIDE DEF Ways, Steps, s
    <3> QED BY <1>2, <3>1
  <2>2. CASE t \notin d.seen
    <3> DEFINE w == e.stack
    <3>1. /\ DOMAIN s \subseteq DOMAIN w /\ \A a \in DOMAIN s : w[a] = s[a]
          /\ \E b \in DOMAIN w :
                /\ w[b] = t /\ \A a \in DOMAIN s : a < b /\ ~ (b < a)
                /\ ~ (b < b) /\ \A a \in DOMAIN w : a = b \/ a \in DOMAIN s
      BY <1>1, <1>3, <2>2, Pushed
    <3> HIDE DEF w, s
    <3>2. PICK b \in DOMAIN w :
                /\ w[b] = t /\ \A a \in DOMAIN s : a < b /\ ~ (b < a)
                /\ ~ (b < b) /\ \A a \in DOMAIN w : a = b \/ a \in DOMAIN s
      BY <3>1
    <3>3. ASSUME NEW a \in DOMAIN s PROVE w[b] \in Reachable(g, Targets(g, w[a]))
      <4>1. CASE a = n
        BY <1>5, <1>7, <3>1, <3>2, <4>1
      <4>2. CASE a < n
        BY <1>2, <1>5, <1>7, <3>1, <3>2, <4>2
      <4> QED BY <1>6, <4>1, <4>2
    <3>4. Ways(w)
      BY <1>2, <3>1, <3>2, <3>3
    <3>5. Steps(w)
      BY <1>2, <1>3, <1>5, <3>1, <3>2
    <3> QED BY <3>4, <3>5 DEF w
  <2> QED BY <2>1, <2>2
<1>9. ASSUME t \in Range(s), t # Start PROVE t \in JoinsInLoop(g)
  <2>1. PICK c \in DOMAIN s : s[c] = t
    BY <1>9 DEF Range
  <2>2. c < n
    <3>1. t # top
      BY <1>3 DEF Links, Valid
    <3> QED BY <1>5, <1>6, <2>1, <3>1
  <2>3. OnCycle(g, t)
    BY <1>2, <1>5, <1>7, <2>1, <2>2 DEF OnCycle
  <2>4. PICK a \in DOMAIN s, j \in Links(g) :
            a < c /\ g[j].source = s[a] /\ g[j].target = s[c]
    BY <1>2, <1>9, <2>1
  <2>5. s[a] # top /\ s[a] \in Nodes
    BY <1>1, <1>4, <2>4, ElementOfSeq DEF Range
  <2>6. Cardinality({p \in Follows(g) : p[2] = t}) >= 2
    BY <1>3, <1>4, <2>1, <2>4, <2>5, TwoMeet
  <2> QED BY <1>3, <2>3, <2>6 DEF JoinsInLoop
<1>10. \A j \in e.back : g[j].target = Start \/ g[j].target \in JoinsInLoop(g)
  BY <1>2, <1>9
<1> QED BY <1>8, <1>10 DEF LoopInv

\* The search tries an edge of the node it is at.
LEMMA SearchTries ==
    ASSUME NEW g \in Graphs, NEW k \in Nat, NEW d, SearchInv(g, d, k), d.stack # <<>>,
           NEW i \in OutOf(g, Last(d.stack)) \ d.tried, NEW t, t = g[i].target
    PROVE  SearchInv(g, [tried |-> d.tried \union {i},
                         back  |-> IF t \in Range(d.stack) THEN d.back \union {i} ELSE d.back,
                         stack |-> IF t \in d.seen THEN d.stack ELSE Append(d.stack, t),
                         seen  |-> d.seen \union {t}], k + 1)
<1> DEFINE e == [tried |-> d.tried \union {i},
                 back  |-> IF t \in Range(d.stack) THEN d.back \union {i} ELSE d.back,
                 stack |-> IF t \in d.seen THEN d.stack ELSE Append(d.stack, t),
                 seen  |-> d.seen \union {t}]
<1>1. /\ d.stack \in Seq(Nodes) /\ d.seen \in SUBSET Nodes
      /\ d.tried \in SUBSET Links(g) /\ d.back \in SUBSET Links(g)
      /\ IsInjective(d.stack) /\ Range(d.stack) \subseteq d.seen
  BY DEF SearchInv
<1>2. i \in Links(g) /\ t \in Nodes
  BY GraphEdges DEF Links, Valid
<1>3. /\ e.stack \in Seq(Nodes) /\ IsInjective(e.stack)
      /\ Range(e.stack) = IF t \in d.seen THEN Range(d.stack) ELSE Range(d.stack) \union {t}
      /\ e.stack # <<>> /\ e.stack[1] = d.stack[1]
  <2>1. CASE t \in d.seen
    BY <1>1, <2>1
  <2>2. CASE t \notin d.seen
    <3>1. t \notin Range(d.stack)
      BY <1>1, <2>2
    <3>2. /\ Append(d.stack, t) \in Seq(Nodes) /\ IsInjective(Append(d.stack, t))
          /\ Range(Append(d.stack, t)) = Range(d.stack) \union {t}
          /\ Append(d.stack, t)[1] = d.stack[1] /\ Append(d.stack, t) # <<>>
      BY <1>1, <1>2, <3>1, Pushed, AppendProperties
    <3> QED BY <2>2, <3>2
  <2> QED BY <2>1, <2>2
<1>4. /\ e.seen = d.seen \union {t} /\ e.tried = d.tried \union {i}
      /\ e.back = IF t \in Range(d.stack) THEN d.back \union {i} ELSE d.back
      /\ e.back \subseteq Links(g) /\ e.tried \subseteq Links(g) /\ e.seen \subseteq Nodes
  BY <1>1, <1>2
<1>5. e \in [stack : Seq(Nodes), seen : SUBSET Nodes,
             tried : SUBSET Links(g), back : SUBSET Links(g)]
  BY <1>3, <1>4
<1> HIDE DEF e
<1>6. e.seen \ Range(e.stack) = d.seen \ Range(d.stack)
  BY <1>1, <1>3, <1>4
<1>7. Cardinality(e.tried) = Cardinality(d.tried) + 1 /\ Cardinality(d.tried) \in Nat
  BY <1>1, <1>4, GraphEdges, FS_CardinalityType, FS_AddElement
<1>8. e.stack # <<>> =>
          /\ e.stack[1] = Start
          /\ Cardinality(e.tried) + Cardinality(e.seen \ Range(e.stack)) = k + 1
  <2>1. d.stack[1] = Start /\ Cardinality(d.tried) + Cardinality(d.seen \ Range(d.stack)) = k
    BY DEF SearchInv
  <2>2. Cardinality(d.seen \ Range(d.stack)) \in Nat
    BY <1>1, NodesFinite
  <2>3. \A a, b \in Nat : a + b = k => (a + 1) + b = k + 1
    OBVIOUS
  <2> QED BY <1>3, <1>6, <1>7, <2>1, <2>2, <2>3
<1>9. \A j \in e.tried : g[j].target \in e.seen /\ (g[j].target = Start => j \in e.back)
  <2>1. Start \in Range(d.stack)
    <3>1. 1 \in DOMAIN d.stack
      BY <1>1, EmptySeq, LenProperties
    <3> QED BY <3>1 DEF SearchInv, Range
  <2> QED BY <1>4, <2>1 DEF SearchInv
<1>10. \A n \in e.seen \ Range(e.stack) : OutOf(g, n) \subseteq e.tried
  BY <1>4, <1>6 DEF SearchInv
<1>11. Start \in e.seen /\ Range(e.stack) \subseteq e.seen /\ e.seen \subseteq FromStart(g)
  <2>1. g[i].source \in d.seen /\ d.seen \subseteq FromStart(g)
    BY <1>1, Popped DEF OutOf, SearchInv
  <2>2. t \in FromStart(g)
    BY <1>2, <2>1, StartLeads
  <2> QED BY <1>1, <1>3, <1>4, <2>1, <2>2 DEF SearchInv
<1>12. OrderInv(g, e)
  <2>1. Tries(d, i, t, e)
    BY DEF e, Tries
  <2>2. /\ g \in Graphs /\ k \in Nat /\ SearchInv(g, d, k) /\ d.stack # <<>>
        /\ i \in OutOf(g, Last(d.stack)) \ d.tried /\ t = g[i].target
    OBVIOUS
  <2> QED BY ONLY <2>1, <2>2, OrderTries
<1>13. LoopInv(g, e)
  <2>1. /\ e.back = IF t \in Range(d.stack) THEN d.back \union {i} ELSE d.back
        /\ e.stack = IF t \in d.seen THEN d.stack ELSE Append(d.stack, t)
    BY DEF e
  <2>2. /\ g \in Graphs /\ k \in Nat /\ SearchInv(g, d, k) /\ d.stack # <<>>
        /\ i \in OutOf(g, Last(d.stack)) \ d.tried /\ t = g[i].target
    OBVIOUS
  <2> QED BY ONLY <2>1, <2>2, LoopTries
<1>14. SearchInv(g, e, k + 1)
  BY <1>3, <1>5, <1>8, <1>9, <1>10, <1>11, <1>12, <1>13 DEF SearchInv
<1> QED BY <1>14 DEF e

\* A step of the search, whichever it is.
LEMMA SearchKeeps ==
    ASSUME NEW g \in Graphs, NEW k \in Nat, NEW d, SearchInv(g, d, k)
    PROVE  SearchInv(g, Search(g, d), k + 1)
<1> DEFINE left == OutOf(g, Last(d.stack)) \ d.tried
<1>1. CASE d.stack = <<>>
  <2>1. Search(g, d) = d
    BY <1>1 DEF Search
  <2> QED BY <1>1, <2>1 DEF SearchInv
<1>2. CASE d.stack # <<>> /\ left = {}
  <2>1. Search(g, d) = [d EXCEPT !.stack = Front(@)]
    BY <1>2 DEF Search
  <2> QED BY <1>2, <2>1, SearchPops
<1>3. CASE d.stack # <<>> /\ left # {}
  <2>1. left \in SUBSET Nat
    BY GraphEdges
  <2>2. LeastOf(left) \in left
    <3> HIDE DEF left
    <3> QED BY <1>3, <2>1, LeastIn
  <2> DEFINE i == LeastOf(left)
             t == g[i].target
  <2>3. Search(g, d) = [tried |-> d.tried \union {i},
                        back  |-> IF t \in Range(d.stack) THEN d.back \union {i} ELSE d.back,
                        stack |-> IF t \in d.seen THEN d.stack ELSE Append(d.stack, t),
                        seen  |-> d.seen \union {t}]
    BY <1>3 DEF Search
  <2>4. i \in OutOf(g, Last(d.stack)) \ d.tried
    BY <2>2
  <2> HIDE DEF i
  <2> QED BY <1>3, <2>3, <2>4, SearchTries
<1> QED BY <1>1, <1>2, <1>3

SearchStart == [stack |-> <<Start>>, seen |-> {Start}, tried |-> {}, back |-> {}]

\* f[k] is what the first k steps of a search have found.
Searches(f, g, n) ==
    f = [i \in 0..n |-> IF i = 0 THEN SearchStart ELSE Search(g, f[i - 1])]

\* The function BackEdges chooses is there to choose.
LEMMA SearchesExist ==
    ASSUME NEW g, NEW n \in Nat
    PROVE  \E f : Searches(f, g, n)
<1> DEFINE Bad == {k \in Nat : ~ \E f : Searches(f, g, k)}
<1>1. SUFFICES ASSUME Bad # {} PROVE FALSE
  OBVIOUS
<1>2. PICK k \in Bad : \A j \in Bad : k <= j
  <2>1. Bad \in SUBSET Nat
    OBVIOUS
  <2> HIDE DEF Bad
  <2> QED BY <1>1, <2>1, LeastFailure
<1>3. CASE k = 0
  <2> DEFINE f == [i \in 0..0 |-> SearchStart]
  <2>1. Searches(f, g, 0)
    BY DEF Searches
  <2> QED BY <1>3, <2>1
<1>4. CASE k # 0
  <2>1. k - 1 \in Nat /\ ~ (k <= k - 1) /\ 0..k = (0..(k - 1)) \union {k}
    BY <1>4
  <2>2. PICK h : Searches(h, g, k - 1)
    BY <1>2, <2>1
  <2> DEFINE f == [i \in 0..k |-> IF i = 0 THEN SearchStart ELSE Search(g, h[i - 1])]
  <2>3. ASSUME NEW i \in 0..(k - 1) PROVE f[i] = h[i]
    <3>1. h[i] = IF i = 0 THEN SearchStart ELSE Search(g, h[i - 1])
      BY <2>2 DEF Searches
    <3>2. i \in 0..k
      BY <2>1
    <3> QED BY <3>1, <3>2
  <2>4. ASSUME NEW i \in 0..k PROVE f[i] = IF i = 0 THEN SearchStart ELSE Search(g, f[i - 1])
    <3>1. CASE i = 0
      BY <3>1
    <3>2. CASE i # 0
      <4>1. i - 1 \in 0..(k - 1)
        BY <2>1, <3>2
      <4> QED BY <2>3, <3>2, <4>1
    <3> QED BY <3>1, <3>2
  <2>5. f = [i \in 0..k |-> IF i = 0 THEN SearchStart ELSE Search(g, f[i - 1])]
    <3>1. f = [i \in 0..k |-> f[i]]
      OBVIOUS
    <3> HIDE DEF f
    <3> QED BY <2>4, <3>1
  <2>6. Searches(f, g, k)
    BY <2>5 DEF Searches
  <2> QED BY <2>6
<1> QED BY <1>3, <1>4

\* The search starts at START, with nothing tried.
LEMMA SearchStarts == ASSUME NEW g \in Graphs PROVE SearchInv(g, SearchStart, 0)
<1>1. Start \in Nodes
  BY RunAssumption DEF RunAssumption
<1>2. /\ <<Start>> \in Seq(Nodes) /\ DOMAIN <<Start>> = {1}
      /\ Range(<<Start>>) = {Start} /\ IsInjective(<<Start>>) /\ <<Start>>[1] = Start
  BY <1>1 DEF Range, IsInjective
<1>3. SearchStart \in [stack : Seq(Nodes), seen : SUBSET Nodes,
                       tried : SUBSET Links(g), back : SUBSET Links(g)]
  BY <1>1, <1>2 DEF SearchStart
<1>4. Cardinality({}) = 0 /\ {Start} \ {Start} = {} /\ 0 + 0 = 0
  BY FS_EmptySet
<1>5. OrderInv(g, SearchStart)
  BY <1>2, <1>4 DEF OrderInv, Ordered, SearchStart
<1>6. SearchStart.seen \subseteq FromStart(g)
  BY StartLeads DEF SearchStart
<1>7. LoopInv(g, SearchStart)
  <2>1. \A a, b \in {1} : ~ (a < b)
    OBVIOUS
  <2>2. SearchStart.back = {} /\ SearchStart.stack = <<Start>>
    BY DEF SearchStart
  <2> QED BY <1>2, <2>1, <2>2 DEF LoopInv
<1> QED BY <1>2, <1>3, <1>4, <1>5, <1>6, <1>7 DEF SearchInv, SearchStart

\* Every step of the search has the invariant.
LEMMA SearchesInv ==
    ASSUME NEW g \in Graphs, NEW n \in Nat, NEW f, Searches(f, g, n), NEW k \in 0..n
    PROVE  SearchInv(g, f[k], k)
<1> DEFINE Bad == {j \in 0..n : ~ SearchInv(g, f[j], j)}
<1>1. ASSUME Bad # {} PROVE FALSE
  <2>1. PICK j \in Bad : \A i \in Bad : j <= i
    <3>1. Bad \in SUBSET Nat
      OBVIOUS
    <3> HIDE DEF Bad
    <3> QED BY <1>1, <3>1, LeastFailure
  <2>2. f[j] = IF j = 0 THEN SearchStart ELSE Search(g, f[j - 1])
    BY DEF Searches
  <2>3. CASE j = 0
    BY <2>1, <2>2, <2>3, SearchStarts
  <2>4. CASE j # 0
    <3>1. j - 1 \in Nat /\ j - 1 \in 0..n /\ (j - 1) + 1 = j /\ ~ (j <= j - 1)
      BY <2>4
    <3>2. SearchInv(g, f[j - 1], j - 1)
      BY <2>1, <3>1
    <3>3. SearchInv(g, Search(g, f[j - 1]), (j - 1) + 1)
      BY <3>1, <3>2, SearchKeeps
    <3> QED BY <2>1, <2>2, <2>4, <3>1, <3>3
  <2> QED BY <2>3, <2>4
<1> QED BY <1>1

\* R holds START and what is reached from it, and nothing in R leads back to START.
Closed(g, R) ==
    /\ R \subseteq Nodes /\ Start \in R
    /\ \A i \in Links(g) : g[i].source \in R => g[i].target \in R \ {Start}

\* BackEdges is what a search has found after enough steps.
LEMMA SearchEnds ==
    ASSUME NEW g \in Graphs
    PROVE  \E d : SearchInv(g, d, Len(g) + Cardinality(Nodes)) /\ BackEdges(g) = d.back
<1> DEFINE n == Len(g) + Cardinality(Nodes)
           f == CHOOSE h : Searches(h, g, n)
<1>1. n \in Nat /\ n \in 0..n
  BY GraphEdges, NodesFinite
<1>2. Searches(f, g, n)
  BY <1>1, SearchesExist
<1>3. BackEdges(g) = f[n].back
  BY DEF BackEdges, Searches, SearchStart
<1> HIDE DEF f
<1>4. SearchInv(g, f[n], n)
  <2> HIDE DEF n
  <2> QED BY <1>1, <1>2, SearchesInv
<1> QED BY <1>3, <1>4

\* _compute_back_edges, and what the editor is warned of: an edge it finds to lead back
\* closes a loop through START, or enters a join that detect_join_in_loop warns of.
LEMMA LoopsAreWarnedOf ==
    ASSUME NEW g \in Graphs, BackEdges(g) # {}, \A i \in BackEdges(g) : g[i].target # Start
    PROVE  JoinsInLoop(g) # {}
<1> DEFINE n == Len(g) + Cardinality(Nodes)
<1>1. PICK d : SearchInv(g, d, n) /\ BackEdges(g) = d.back
  BY SearchEnds
<1>2. LoopInv(g, d)
  BY <1>1 DEF SearchInv
<1>3. \A i \in d.back : g[i].target = Start \/ g[i].target \in JoinsInLoop(g)
  BY ONLY <1>2 DEF LoopInv
<1> QED BY ONLY <1>1, <1>3, BackEdges(g) # {}, \A i \in BackEdges(g) : g[i].target # Start

\* _compute_back_edges: on a graph it finds no back edge in, no path leads back to
\* START, and what START leads to is in order. The search has had steps enough to empty
\* its stack.
LEMMA NoBackEdges ==
    ASSUME NEW g \in Graphs, BackEdges(g) = {}
    PROVE  Closed(g, FromStart(g)) /\ Ordered(g, FromStart(g))
<1> DEFINE n == Len(g) + Cardinality(Nodes)
<1>1. Len(g) \in Nat /\ Cardinality(Nodes) \in Nat /\ n \in Nat
  BY GraphEdges, NodesFinite
<1>2. PICK d : SearchInv(g, d, n) /\ BackEdges(g) = d.back
  BY SearchEnds
<1>3. BackEdges(g) = d.back
  BY <1>2
<1>4. SearchInv(g, d, n)
  BY <1>2
<1> DEFINE over == d.seen \ Range(d.stack)
<1>5. ASSUME d.stack # <<>> PROVE FALSE
  <2>1. /\ d.stack[1] = Start /\ Cardinality(d.tried) + Cardinality(over) = n
        /\ d.stack \in Seq(Nodes) /\ d.seen \in SUBSET Nodes /\ d.tried \in SUBSET Links(g)
    BY <1>4, <1>5 DEF SearchInv
  <2>2. Start \in Range(d.stack) /\ Start \in Nodes
    <3>1. 1 \in DOMAIN d.stack
      BY <1>5, <2>1, EmptySeq, LenProperties
    <3> QED BY <2>1, <3>1, RunAssumption DEF Range, RunAssumption
  <2>3. over \subseteq Nodes \ {Start}
    BY <2>1, <2>2
  <2>4. Cardinality(over) \in Nat /\ Cardinality(over) <= Cardinality(Nodes \ {Start})
    <3>1. IsFiniteSet(Nodes \ {Start})
      BY NodesFinite
    <3> HIDE DEF over
    <3> QED BY <2>3, <3>1, FS_Subset, FS_CardinalityType
  <2>5. Cardinality(Nodes \ {Start}) = Cardinality(Nodes) - 1
    BY <2>2, NodesFinite, FS_RemoveElement
  <2>6. Cardinality(d.tried) \in Nat /\ Cardinality(d.tried) <= Len(g)
    BY <2>1, GraphEdges, FS_CardinalityType
  <2>7. \A a, b, l, c \in Nat : a <= l /\ b <= c - 1 => a + b # l + c
    OBVIOUS
  <2> HIDE DEF over
  <2> QED BY <1>1, <2>1, <2>4, <2>5, <2>6, <2>7
<1>6. d.back = {} /\ Range(d.stack) = {}
  <2>1. DOMAIN <<>> = {}
    OBVIOUS
  <2> QED BY <1>3, <1>5, <2>1 DEF Range
<1>7. ASSUME NEW i \in Links(g), g[i].source \in d.seen
      PROVE  g[i].target \in d.seen \ {Start}
  <2>1. i \in OutOf(g, g[i].source)
    BY DEF OutOf
  <2>2. i \in d.tried
    BY <1>4, <1>6, <1>7, <2>1 DEF SearchInv
  <2> QED BY <1>4, <1>6, <2>2 DEF SearchInv
<1>8. Closed(g, d.seen)
  BY <1>4, <1>7 DEF Closed, SearchInv
<1>9. Ordered(g, d.seen)
  <2>1. d.seen \ Range(d.stack) = d.seen
    BY <1>6
  <2> QED BY <1>4, <1>6, <2>1 DEF SearchInv, OrderInv
<1>10. d.seen = FromStart(g)
  <2>1. /\ d.seen \in SUBSET Nodes /\ Start \in d.seen
        /\ \A i \in Links(g) : g[i].source \in d.seen => g[i].target \in d.seen
    BY <1>8 DEF Closed
  <2>2. d.seen \subseteq FromStart(g)
    BY <1>4 DEF SearchInv
  <2> QED BY <2>1, <2>2, StartLeads
<1> QED BY <1>8, <1>9, <1>10

-----------------------------------------------------------------------------
(* The tokens still to be delivered. *)

\* f[k] is the tokens that the edges of S among the first k of the workflow get.
Queued(f, S, token, n) ==
    f = [i \in 0..n |-> IF i = 0 THEN <<>>
                        ELSE IF i \in S THEN Append(f[i - 1], <<i, token>>) ELSE f[i - 1]]

\* The function WithToken chooses is there to choose.
LEMMA QueuedExist ==
    ASSUME NEW S, NEW token, NEW n \in Nat
    PROVE  \E f : Queued(f, S, token, n)
<1> DEFINE Bad == {k \in Nat : ~ \E f : Queued(f, S, token, k)}
<1>1. SUFFICES ASSUME Bad # {} PROVE FALSE
  OBVIOUS
<1>2. PICK k \in Bad : \A j \in Bad : k <= j
  <2>1. Bad \in SUBSET Nat
    OBVIOUS
  <2> HIDE DEF Bad
  <2> QED BY <1>1, <2>1, LeastFailure
<1>3. CASE k = 0
  <2> DEFINE f == [i \in 0..0 |-> <<>>]
  <2>1. Queued(f, S, token, 0)
    BY DEF Queued
  <2> QED BY <1>3, <2>1
<1>4. CASE k # 0
  <2>1. k - 1 \in Nat /\ ~ (k <= k - 1) /\ 0..k = (0..(k - 1)) \union {k}
    BY <1>4
  <2>2. PICK h : Queued(h, S, token, k - 1)
    BY <1>2, <2>1
  <2> DEFINE f == [i \in 0..k |-> IF i = 0 THEN <<>>
        ELSE IF i \in S THEN Append(h[i - 1], <<i, token>>) ELSE h[i - 1]]
  <2>3. ASSUME NEW i \in 0..(k - 1) PROVE f[i] = h[i]
    <3>1. h[i] = IF i = 0 THEN <<>>
        ELSE IF i \in S THEN Append(h[i - 1], <<i, token>>) ELSE h[i - 1]
      BY <2>2 DEF Queued
    <3>2. i \in 0..k
      BY <2>1
    <3> QED BY <3>1, <3>2
  <2>4. ASSUME NEW i \in 0..k PROVE f[i] = IF i = 0 THEN <<>>
        ELSE IF i \in S THEN Append(f[i - 1], <<i, token>>) ELSE f[i - 1]
    <3>1. CASE i = 0
      BY <3>1
    <3>2. CASE i # 0
      <4>1. i - 1 \in 0..(k - 1)
        BY <2>1, <3>2
      <4> QED BY <2>3, <3>2, <4>1
    <3> QED BY <3>1, <3>2
  <2>5. f = [i \in 0..k |-> IF i = 0 THEN <<>>
        ELSE IF i \in S THEN Append(f[i - 1], <<i, token>>) ELSE f[i - 1]]
    <3>1. f = [i \in 0..k |-> f[i]]
      OBVIOUS
    <3> HIDE DEF f
    <3> QED BY <2>4, <3>1
  <2>6. Queued(f, S, token, k)
    BY <2>5 DEF Queued
  <2> QED BY <2>6
<1> QED BY <1>3, <1>4

\* One token for each edge of S among the first k.
LEMMA QueuedAre ==
    ASSUME NEW S, NEW token, NEW n \in Nat, NEW f, Queued(f, S, token, n), NEW k \in 0..n
    PROVE  /\ f[k] \in Seq((S \intersect (1..k)) \X {token}) /\ IsInjective(f[k])
           /\ \A i \in S \intersect (1..k) : <<i, token>> \in Range(f[k])
<1> DEFINE T(j) == (S \intersect (1..j)) \X {token}
           All(j) == \A i \in S \intersect (1..j) : <<i, token>> \in Range(f[j])
           Good(j) == f[j] \in Seq(T(j)) /\ IsInjective(f[j]) /\ All(j)
           Bad == {j \in 0..n : ~ Good(j)}
<1>1. ASSUME Bad # {} PROVE FALSE
  <2>1. PICK j \in Bad : \A i \in Bad : j <= i
    <3>1. Bad \in SUBSET Nat
      OBVIOUS
    <3> HIDE DEF Bad
    <3> QED BY <1>1, <3>1, LeastFailure
  <2>2. f[j] = IF j = 0 THEN <<>>
               ELSE IF j \in S THEN Append(f[j - 1], <<j, token>>) ELSE f[j - 1]
    BY DEF Queued
  <2>3. CASE j = 0
    <3>1. f[j] = <<>> /\ DOMAIN <<>> = {}
      BY <2>2, <2>3
    <3>2. <<>> \in Seq(T(j))
      BY EmptySeq
    <3>3. All(j)
      <4>1. 1..j = {}
        BY <2>3
      <4> QED BY <4>1
    <3>4. Good(j)
      BY <3>1, <3>2, <3>3 DEF IsInjective
    <3> QED BY <2>1, <3>4
  <2>4. CASE j # 0
    <3>1. /\ j - 1 \in 0..n /\ ~ (j <= j - 1) /\ j \in 1..j
          /\ 1..(j - 1) \subseteq 1..j /\ j \notin 1..(j - 1)
          /\ \A i \in 1..j : i = j \/ i \in 1..(j - 1)
      BY <2>4
    <3>2. Good(j - 1)
      BY <2>1, <3>1
    <3>3. T(j - 1) \subseteq T(j)
      BY <3>1
    <3>4. f[j - 1] \in Seq(T(j)) /\ IsInjective(f[j - 1])
      <4> HIDE DEF T
      <4> QED BY <3>2, <3>3, SeqMonotonic
    <3>5. CASE j \in S
      <4>1. <<j, token>> \in T(j) /\ <<j, token>> \notin T(j - 1)
        BY <3>1, <3>5
      <4>2. <<j, token>> \notin Range(f[j - 1])
        <5> HIDE DEF T
        <5> QED BY <3>2, <4>1, ElementOfSeq, LenProperties DEF Range
      <4>3. /\ Append(f[j - 1], <<j, token>>) \in Seq(T(j))
            /\ IsInjective(Append(f[j - 1], <<j, token>>))
            /\ Range(Append(f[j - 1], <<j, token>>)) = Range(f[j - 1]) \union {<<j, token>>}
        <5> HIDE DEF T
        <5> QED BY <3>4, <4>1, <4>2, Pushed
      <4>4. f[j] = Append(f[j - 1], <<j, token>>)
        BY <2>2, <2>4, <3>5
      <4>5. All(j)
        BY <3>1, <3>2, <4>3, <4>4
      <4>6. Good(j)
        BY <4>3, <4>4, <4>5
      <4> QED BY <2>1, <4>6
    <3>6. CASE j \notin S
      <4>1. f[j] = f[j - 1]
        BY <2>2, <2>4, <3>6
      <4>2. All(j)
        BY <3>1, <3>2, <3>6, <4>1
      <4>3. Good(j)
        BY <3>4, <4>1, <4>2
      <4> QED BY <2>1, <4>3
    <3> QED BY <3>5, <3>6
  <2> QED BY <2>3, <2>4
<1> QED BY <1>1

\* Tokens for edges the scheduler looks at, for no edge twice.
Pending(g, todo) ==
    /\ todo \in Seq(Links(g) \X {"live", "dead"})
    /\ \A a, b \in DOMAIN todo : todo[a][1] = todo[b][1] => a = b

\* WithToken: the tokens of some edges can be pending together.
LEMMA PendingTokens ==
    ASSUME edges \in Graphs, NEW S \in SUBSET Links(edges), NEW token \in {"live", "dead"}
    PROVE  /\ Pending(edges, WithToken(S, token))
           /\ \A p \in Range(WithToken(S, token)) : p[1] \in S /\ p[2] = token
           /\ \A i \in S : <<i, token>> \in Range(WithToken(S, token))
<1> DEFINE n == Len(edges)
           f == CHOOSE h : Queued(h, S, token, n)
           w == WithToken(S, token)
           T == (S \intersect (1..n)) \X {token}
<1>1. n \in Nat
  BY GraphEdges
<1>2. Queued(f, S, token, n)
  BY <1>1, QueuedExist
<1>3. w = f[n]
  BY DEF WithToken, Queued
<1> HIDE DEF f, w
<1>4. /\ w \in Seq(T) /\ IsInjective(w)
      /\ \A i \in S \intersect (1..n) : <<i, token>> \in Range(w)
  <2>1. n \in 0..n
    BY <1>1
  <2> HIDE DEF n
  <2> QED BY <1>1, <1>2, <1>3, <2>1, QueuedAre DEF T
<1>5. T \subseteq Links(edges) \X {"live", "dead"}
  OBVIOUS
<1>6. \A p \in T : p = <<p[1], token>> /\ p[1] \in S /\ p[2] = token
  OBVIOUS
<1> HIDE DEF T
<1>7. w \in Seq(Links(edges) \X {"live", "dead"})
  BY <1>4, <1>5, SeqMonotonic
<1>8. \A a \in DOMAIN w : w[a] \in T
  BY <1>4, ElementOfSeq, LenProperties
<1>9. \A a, b \in DOMAIN w : w[a][1] = w[b][1] => a = b
  BY <1>4, <1>6, <1>8 DEF IsInjective
<1>10. \A p \in Range(w) : p[1] \in S /\ p[2] = token
  BY <1>6, <1>8 DEF Range
<1>11. \A i \in S : <<i, token>> \in Range(w)
  <2>1. \A i \in S : i \in 1..n
    BY GraphEdges
  <2> HIDE DEF n
  <2> QED BY <1>4, <2>1
<1> QED BY <1>7, <1>9, <1>10, <1>11 DEF Pending, w

\* No edge has a token in both.
Apart(u, v) == \A p \in Range(u), q \in Range(v) : p[1] # q[1]

\* Two queues of tokens, one after the other.
LEMMA PendingJoined ==
    ASSUME NEW g, NEW u, NEW v, Pending(g, u), Pending(g, v), Apart(u, v)
    PROVE  Pending(g, u \o v) /\ Range(u \o v) = Range(u) \union Range(v)
<1> DEFINE T == Links(g) \X {"live", "dead"}
           w == u \o v
           m == Len(u)
           n == Len(v)
<1>1. u \in Seq(T) /\ v \in Seq(T)
  BY DEF Pending
<1> HIDE DEF T
<1>2. /\ m \in Nat /\ n \in Nat /\ DOMAIN u = 1..m /\ DOMAIN v = 1..n
      /\ w \in Seq(T) /\ Len(w) = m + n
      /\ \A i \in 1..(m + n) : w[i] = IF i <= m THEN u[i] ELSE v[i - m]
  BY <1>1, ConcatProperties, LenProperties
<1>3. DOMAIN w = 1..(m + n)
  BY <1>2, LenProperties
<1>4. Range(w) = Range(u) \union Range(v)
  BY <1>1, RangeConcatenation
<1> HIDE DEF m, n, w
<1>5. ASSUME NEW a \in DOMAIN w, NEW b \in DOMAIN w, w[a][1] = w[b][1]
      PROVE  a = b
  <2>1. /\ a \in 1..(m + n) /\ b \in 1..(m + n)
        /\ w[a] = IF a <= m THEN u[a] ELSE v[a - m]
        /\ w[b] = IF b <= m THEN u[b] ELSE v[b - m]
    BY <1>2, <1>3
  <2>2. \A i \in 1..(m + n) : IF i <= m THEN i \in 1..m ELSE i - m \in 1..n
    BY <1>2
  <2>3. CASE a <= m /\ b <= m
    BY <1>2, <1>5, <2>1, <2>2, <2>3 DEF Pending
  <2>4. CASE ~ (a <= m) /\ ~ (b <= m)
    <3>1. a - m = b - m
      BY <1>2, <1>5, <2>1, <2>2, <2>4 DEF Pending
    <3> QED BY <1>2, <2>1, <3>1
  <2>5. CASE a <= m /\ ~ (b <= m)
    BY <1>2, <1>5, <2>1, <2>2, <2>5 DEF Apart, Range
  <2>6. CASE ~ (a <= m) /\ b <= m
    BY <1>2, <1>5, <2>1, <2>2, <2>6 DEF Apart, Range
  <2> QED BY <2>3, <2>4, <2>5, <2>6
<1>6. Pending(g, w)
  BY <1>2, <1>5 DEF Pending, T
<1> QED BY <1>4, <1>6 DEF w

\* The first of the pending tokens, and the others.
LEMMA PendingNext ==
    ASSUME NEW g, NEW todo, Pending(g, todo), todo # <<>>
    PROVE  /\ Head(todo) \in Range(todo) /\ Head(todo) \in Links(g) \X {"live", "dead"}
           /\ Pending(g, Tail(todo))
           /\ \A p \in Range(Tail(todo)) : p \in Range(todo) /\ p[1] # Head(todo)[1]
           /\ \A p \in Range(todo) : p = Head(todo) \/ p \in Range(Tail(todo))
<1> DEFINE T == Links(g) \X {"live", "dead"}
           w == Tail(todo)
           n == Len(todo)
<1>1. todo \in Seq(T)
  BY DEF Pending
<1> HIDE DEF T
<1>2. /\ Head(todo) \in T /\ w \in Seq(T) /\ Len(w) = n - 1
      /\ \A i \in 1..Len(w) : w[i] = todo[i + 1]
      /\ n \in Nat /\ n # 0 /\ DOMAIN todo = 1..n /\ Head(todo) = todo[1]
  BY <1>1, HeadTailProperties, EmptySeq, LenProperties
<1>3. DOMAIN w = 1..(n - 1)
  BY <1>2, LenProperties
<1> HIDE DEF w, n
<1>4. \A i \in 1..(n - 1) : w[i] = todo[i + 1]
  BY <1>2
<1>5. 1 \in 1..n /\ \A i \in 1..(n - 1) : i + 1 \in 1..n /\ i + 1 # 1
  BY <1>2
<1>6. \A i, j \in 1..(n - 1) : i + 1 = j + 1 => i = j
  BY <1>2
<1>7. ASSUME NEW a \in DOMAIN w, NEW b \in DOMAIN w, w[a][1] = w[b][1]
      PROVE  a = b
  <2>1. a + 1 \in DOMAIN todo /\ b + 1 \in DOMAIN todo /\ todo[a + 1][1] = todo[b + 1][1]
    BY <1>2, <1>3, <1>5, <1>7, <1>4
  <2>2. a + 1 = b + 1
    BY <2>1 DEF Pending
  <2> QED BY <1>3, <1>6, <2>2
<1>8. ASSUME NEW p \in Range(w) PROVE p \in Range(todo) /\ p[1] # Head(todo)[1]
  <2>1. PICK a \in DOMAIN w : p = w[a]
    BY DEF Range
  <2>2. a + 1 \in DOMAIN todo /\ p = todo[a + 1] /\ a + 1 # 1 /\ 1 \in DOMAIN todo
    BY <1>2, <1>3, <1>5, <1>4, <2>1
  <2>3. todo[a + 1][1] # todo[1][1]
    BY <2>2 DEF Pending
  <2> QED BY <1>2, <2>2, <2>3 DEF Range
<1>9. Head(todo) \in Range(todo)
  BY <1>2, <1>5 DEF Range
<1>10. Pending(g, w)
  BY <1>2, <1>7 DEF Pending, T
<1>11. ASSUME NEW p \in Range(todo) PROVE p = Head(todo) \/ p \in Range(w)
  <2>1. PICK a \in DOMAIN todo : p = todo[a]
    BY DEF Range
  <2>2. a = 1 \/ (a - 1 \in 1..(n - 1) /\ (a - 1) + 1 = a)
    BY <1>2, <2>1
  <2> QED BY <1>2, <1>3, <1>4, <2>1, <2>2 DEF Range
<1> QED BY <1>2, <1>8, <1>9, <1>10, <1>11 DEF T, w

-----------------------------------------------------------------------------
(* On a graph without a back edge, no node is ahead of what leads to it. *)

\* Nodes that will give no token any more, and nodes that wait for none any more: V
\* have been visited, B of them are still to be processed.
Past(s, V, B) == (V \ B) \union s.dead
Entered(s, V) == V \union s.dead \union Range(s.ready)

\* The scheduler's state s: a token comes from a node that is past, and a node other
\* than START is entered when all that lead to it are past.
Balanced(g, s, V, B) ==
    /\ s.tokens \in [DOMAIN g -> {"none", "live", "dead"}]
    /\ s.ready \in Seq(Nodes) /\ IsInjective(s.ready)
    /\ V \intersect Range(s.ready) = {}
    /\ s.dead \intersect (V \union Range(s.ready)) = {}
    /\ Entered(s, V) \subseteq FromStart(g)
    /\ \A i \in Links(g) :
          /\ s.tokens[i] # "none" => g[i].source \in Past(s, V, B)
          /\ g[i].target \in Entered(s, V) =>
                /\ s.tokens[i] = "none"
                /\ g[i].target = Start \/ g[i].source \in Past(s, V, B)

\* A record of the fields that Deliver works on.
IsSchedule(s) ==
    s = [tokens |-> s.tokens, dead |-> s.dead, ready |-> s.ready, todo |-> s.todo]

\* The tokens to deliver are of nodes that are past, to nodes that are not entered.
Due(g, s, V, B) ==
    /\ IsSchedule(s)
    /\ Pending(g, s.todo)
    /\ \A p \in Range(s.todo) :
          /\ g[p[1]].source \in Past(s, V, B) /\ g[p[1]].target \notin Entered(s, V)
          /\ s.tokens[p[1]] = "none"

\* What Deliver starts from: the first token is for a node that is not entered.
LEMMA FirstDue ==
    ASSUME edges \in Graphs, back = {}, Closed(edges, FromStart(edges)),
           NEW V, NEW B, NEW s, Balanced(edges, s, V, B), Due(edges, s, V, B), s.todo # <<>>,
           NEW i, NEW n, i = Head(s.todo)[1], n = edges[i].target
    PROVE  /\ i \in Links(edges) /\ i \in DOMAIN edges
           /\ Head(s.todo)[2] \in {"live", "dead"}
           /\ edges[i].source \in Past(s, V, B) /\ s.tokens[i] = "none"
           /\ n \notin Entered(s, V) /\ n \in Nodes
           /\ n \in FromStart(edges) /\ n # Start
           /\ Pending(edges, Tail(s.todo))
           /\ \A p \in Range(Tail(s.todo)) :
                 /\ p[1] # i /\ p[1] \in Links(edges) /\ p[1] \in DOMAIN edges
                 /\ edges[p[1]].source \in Past(s, V, B)
                 /\ edges[p[1]].target \notin Entered(s, V)
                 /\ s.tokens[p[1]] = "none"
<1>1. /\ Head(s.todo) \in Range(s.todo) /\ Head(s.todo) \in Links(edges) \X {"live", "dead"}
      /\ Pending(edges, Tail(s.todo))
      /\ \A p \in Range(Tail(s.todo)) : p \in Range(s.todo) /\ p[1] # Head(s.todo)[1]
  BY PendingNext DEF Due
<1>2. Links(edges) \subseteq DOMAIN edges
  BY DEF Links
<1>3. i \in Links(edges) /\ i \in DOMAIN edges /\ Head(s.todo)[2] \in {"live", "dead"}
  BY <1>1, <1>2
<1>4. edges[i].source \in Past(s, V, B) /\ s.tokens[i] = "none" /\ n \notin Entered(s, V)
  BY <1>1 DEF Due
<1>5. Past(s, V, B) \subseteq Entered(s, V)
  BY DEF Past, Entered
<1>6. n \in FromStart(edges) \ {Start} /\ n \in Nodes
  BY <1>3, <1>4, <1>5 DEF Balanced, Closed
<1>7. ASSUME NEW p \in Range(Tail(s.todo))
      PROVE  /\ p[1] # i /\ p[1] \in Links(edges) /\ p[1] \in DOMAIN edges
             /\ edges[p[1]].source \in Past(s, V, B)
             /\ edges[p[1]].target \notin Entered(s, V)
             /\ s.tokens[p[1]] = "none"
  <2>1. p \in Range(s.todo) /\ p[1] # i
    BY <1>1
  <2>2. Tail(s.todo) \in Seq(Links(edges) \X {"live", "dead"})
    BY <1>1 DEF Pending
  <2>3. p \in Links(edges) \X {"live", "dead"}
    <3> DEFINE T == Links(edges) \X {"live", "dead"}
    <3>1. Range(Tail(s.todo)) \in SUBSET T
      <4> HIDE DEF T
      <4> QED BY <2>2, RangeOfSeq DEF T
    <3> QED BY <3>1
  <2>4. p[1] \in Links(edges)
    BY <2>3
  <2> QED BY <1>2, <2>1, <2>4 DEF Due
<1> QED BY <1>1, <1>3, <1>4, <1>6, <1>7

\* _maybe_fire: some token of n is still missing; this one is put down.
LEMMA DeliversHeld ==
    ASSUME edges \in Graphs, back = {}, Closed(edges, FromStart(edges)),
           NEW V, NEW B, NEW s, Balanced(edges, s, V, B), Due(edges, s, V, B), s.todo # <<>>,
           NEW i, i = Head(s.todo)[1],
           NEW given, given = [s.tokens EXCEPT ![i] = Head(s.todo)[2]],
           NEW e, e = [tokens |-> given, dead |-> s.dead, ready |-> s.ready, todo |-> Tail(s.todo)]
    PROVE  Balanced(edges, e, V, B) /\ Due(edges, e, V, B)
<1> DEFINE n == edges[i].target
<1>1. /\ i \in Links(edges) /\ i \in DOMAIN edges
      /\ Head(s.todo)[2] \in {"live", "dead"}
      /\ edges[i].source \in Past(s, V, B) /\ n \notin Entered(s, V)
      /\ Pending(edges, Tail(s.todo))
      /\ \A p \in Range(Tail(s.todo)) :
            /\ p[1] # i /\ p[1] \in DOMAIN edges
            /\ edges[p[1]].source \in Past(s, V, B)
            /\ edges[p[1]].target \notin Entered(s, V)
            /\ s.tokens[p[1]] = "none"
  BY FirstDue
<1>2. /\ given \in [DOMAIN edges -> {"none", "live", "dead"}]
      /\ \A j \in DOMAIN edges : j # i => given[j] = s.tokens[j]
  BY <1>1 DEF Balanced
<1>3. Past(e, V, B) = Past(s, V, B) /\ Entered(e, V) = Entered(s, V)
  BY DEF Past, Entered
<1>4. \A j \in Links(edges) : j \in DOMAIN edges
  BY DEF Links
<1>5. ASSUME NEW j \in Links(edges)
      PROVE  /\ e.tokens[j] # "none" => edges[j].source \in Past(e, V, B)
             /\ edges[j].target \in Entered(e, V) =>
                   /\ e.tokens[j] = "none"
                   /\ edges[j].target = Start \/ edges[j].source \in Past(e, V, B)
  <2>1. CASE j = i
    BY <1>1, <1>3, <2>1
  <2>2. CASE j # i
    <3>1. e.tokens[j] = s.tokens[j]
      BY <1>2, <1>4, <2>2
    <3> QED BY <1>3, <3>1 DEF Balanced
  <2> QED BY <2>1, <2>2
<1>6. Balanced(edges, e, V, B)
  BY <1>2, <1>3, <1>5 DEF Balanced
<1>7. Due(edges, e, V, B)
  BY <1>1, <1>2, <1>3 DEF Due, IsSchedule
<1> QED BY <1>6, <1>7

\* A node whose tokens are all there fires: it becomes ready, or is dead and passes
\* that on. Then every node that leads to it is past, and no token is due to it.
Fires(s, given, n, e) ==
    /\ e.tokens = [j \in DOMAIN edges |-> IF j \in ForwardIn(n) THEN "none" ELSE given[j]]
    /\ \A j \in ForwardIn(n) : given[j] # "none"
    /\ \/ e.ready = Append(s.ready, n) /\ e.dead = s.dead
       \/ e.ready = s.ready /\ e.dead = s.dead \union {n}

\* What has fired is entered, and balanced with the rest of the tokens.
LEMMA Fired ==
    ASSUME edges \in Graphs, back = {}, Closed(edges, FromStart(edges)),
           NEW V, NEW B, NEW s, Balanced(edges, s, V, B), Due(edges, s, V, B), s.todo # <<>>,
           NEW i, i = Head(s.todo)[1], NEW n, n = edges[i].target,
           NEW given, given = [s.tokens EXCEPT ![i] = Head(s.todo)[2]],
           NEW e, Fires(s, given, n, e)
    PROVE  /\ Balanced(edges, e, V, B)
           /\ Entered(e, V) = Entered(s, V) \union {n}
           /\ \A p \in Range(Tail(s.todo)) :
                 /\ edges[p[1]].source \in Past(e, V, B)
                 /\ edges[p[1]].target \notin Entered(e, V)
                 /\ e.tokens[p[1]] = "none"
<1>1. /\ i \in Links(edges) /\ i \in DOMAIN edges
      /\ Head(s.todo)[2] \in {"live", "dead"}
      /\ edges[i].source \in Past(s, V, B)
      /\ n \notin Entered(s, V) /\ n \in Nodes /\ n \in FromStart(edges)
      /\ \A p \in Range(Tail(s.todo)) :
            /\ p[1] # i /\ p[1] \in Links(edges) /\ p[1] \in DOMAIN edges
            /\ edges[p[1]].source \in Past(s, V, B)
            /\ edges[p[1]].target \notin Entered(s, V)
            /\ s.tokens[p[1]] = "none"
  BY FirstDue
<1>2. /\ given \in [DOMAIN edges -> {"none", "live", "dead"}]
      /\ \A j \in DOMAIN edges : j # i => given[j] = s.tokens[j]
  BY <1>1 DEF Balanced
<1>3. ForwardIn(n) = {j \in Links(edges) : edges[j].target = n}
  BY DEF ForwardIn
<1>4. \A j \in Links(edges) : j \in DOMAIN edges
  BY DEF Links
<1>5. /\ e.ready \in Seq(Nodes) /\ IsInjective(e.ready)
      /\ Entered(e, V) = Entered(s, V) \union {n}
      /\ V \intersect Range(e.ready) = {}
      /\ e.dead \intersect (V \union Range(e.ready)) = {}
      /\ Past(s, V, B) \subseteq Past(e, V, B)
  <2>1. /\ s.ready \in Seq(Nodes) /\ IsInjective(s.ready) /\ n \notin Range(s.ready)
        /\ n \notin V /\ n \notin s.dead
    BY <1>1 DEF Balanced, Entered
  <2>2. CASE e.ready = Append(s.ready, n) /\ e.dead = s.dead
    <3>1. /\ e.ready \in Seq(Nodes) /\ IsInjective(e.ready)
          /\ Range(e.ready) = Range(s.ready) \union {n}
      BY <1>1, <2>1, <2>2, Pushed
    <3> QED BY <2>1, <2>2, <3>1 DEF Balanced, Entered, Past
  <2>3. CASE e.ready = s.ready /\ e.dead = s.dead \union {n}
    BY <2>1, <2>3 DEF Balanced, Entered, Past
  <2> QED BY <2>2, <2>3 DEF Fires
<1>6. /\ e.tokens \in [DOMAIN edges -> {"none", "live", "dead"}]
      /\ \A j \in Links(edges) : e.tokens[j] = IF edges[j].target = n THEN "none" ELSE given[j]
  BY <1>2, <1>3, <1>4 DEF Fires
<1>7. \A j \in Links(edges) : edges[j].target = n => edges[j].source \in Past(s, V, B)
  <2> SUFFICES ASSUME NEW j \in Links(edges), edges[j].target = n
               PROVE  edges[j].source \in Past(s, V, B)
    OBVIOUS
  <2>1. given[j] # "none"
    BY <1>3 DEF Fires
  <2> QED BY <1>1, <1>2, <1>4, <2>1 DEF Balanced
<1>8. ASSUME NEW j \in Links(edges)
      PROVE  /\ e.tokens[j] # "none" => edges[j].source \in Past(e, V, B)
             /\ edges[j].target \in Entered(e, V) =>
                   /\ e.tokens[j] = "none"
                   /\ edges[j].target = Start \/ edges[j].source \in Past(e, V, B)
  <2>1. CASE edges[j].target = n
    BY <1>5, <1>6, <1>7, <2>1
  <2>2. CASE edges[j].target # n
    <3>1. e.tokens[j] = given[j] /\ j # i
      BY <1>6, <2>2
    <3>2. e.tokens[j] = s.tokens[j]
      BY <1>2, <1>4, <3>1
    <3> QED BY <1>5, <2>2, <3>2 DEF Balanced
  <2> QED BY <2>1, <2>2
<1>9. Entered(e, V) \subseteq FromStart(edges)
  BY <1>1, <1>5 DEF Balanced
<1>10. Balanced(edges, e, V, B)
  BY <1>5, <1>6, <1>8, <1>9 DEF Balanced
<1>11. ASSUME NEW p \in Range(Tail(s.todo))
       PROVE  /\ edges[p[1]].source \in Past(e, V, B)
              /\ edges[p[1]].target \notin Entered(e, V)
              /\ e.tokens[p[1]] = "none"
  <2> DEFINE j == p[1]
  <2>1. /\ j # i /\ j \in Links(edges) /\ j \in DOMAIN edges
        /\ edges[j].source \in Past(s, V, B)
        /\ edges[j].target \notin Entered(s, V) /\ s.tokens[j] = "none"
    BY <1>1
  <2> HIDE DEF j
  <2>2. given[j] = "none"
    BY <1>2, <2>1
  <2>3. edges[j].target # n
    BY <1>3, <2>1, <2>2 DEF Fires
  <2>4. /\ edges[j].source \in Past(e, V, B) /\ edges[j].target \notin Entered(e, V)
        /\ e.tokens[j] = "none"
    BY <1>5, <1>6, <2>1, <2>2, <2>3
  <2> QED BY <2>4 DEF j
<1> QED BY <1>5, <1>10, <1>11

\* _propagate_dead: n is dead, its own edges are to get dead tokens before the others.
Spreads(s, n, e) ==
    /\ IsSchedule(e)
    /\ e.dead = s.dead \union {n} /\ e.ready = s.ready
    /\ e.todo = WithToken(OutOf(edges, n) \ back, "dead") \o Tail(s.todo)

\* The tokens of a dead node's own edges can be delivered.
LEMMA DeadSpreads ==
    ASSUME edges \in Graphs, back = {}, Closed(edges, FromStart(edges)),
           NEW V, NEW B, NEW s, Balanced(edges, s, V, B), Due(edges, s, V, B), s.todo # <<>>,
           NEW i, i = Head(s.todo)[1], NEW n, n = edges[i].target,
           NEW given, given = [s.tokens EXCEPT ![i] = Head(s.todo)[2]],
           NEW e, Fires(s, given, n, e), Spreads(s, n, e)
    PROVE  Due(edges, e, V, B)
<1> DEFINE w == WithToken(OutOf(edges, n) \ back, "dead")
           O == OutOf(edges, n)
<1>1. /\ i \in Links(edges) /\ edges[i].source \in Past(s, V, B)
      /\ n \notin Entered(s, V) /\ n \in FromStart(edges)
      /\ Pending(edges, Tail(s.todo))
      /\ \A p \in Range(Tail(s.todo)) : edges[p[1]].source \in Past(s, V, B)
  BY FirstDue
<1>2. /\ Balanced(edges, e, V, B)
      /\ Entered(e, V) = Entered(s, V) \union {n}
      /\ \A p \in Range(Tail(s.todo)) :
            /\ edges[p[1]].source \in Past(e, V, B)
            /\ edges[p[1]].target \notin Entered(e, V)
            /\ e.tokens[p[1]] = "none"
  BY Fired
<1>3. O \in SUBSET Links(edges) /\ (OutOf(edges, n) \ back) = O
  BY GraphEdges
<1>4. Pending(edges, w) /\ \A p \in Range(w) : p[1] \in O
  <2> HIDE DEF O
  <2> QED BY <1>3, PendingTokens
<1> HIDE DEF w, O
<1>5. Past(s, V, B) \subseteq Entered(s, V) /\ n \notin Past(s, V, B) /\ n \in Past(e, V, B)
  BY <1>1 DEF Past, Entered, Spreads
<1>6. ASSUME NEW j \in O
      PROVE  /\ edges[j].source \in Past(e, V, B) /\ edges[j].target \notin Entered(e, V)
             /\ e.tokens[j] = "none"
  <2>1. j \in Links(edges) /\ edges[j].source = n /\ edges[j].target # n
    BY DEF O, OutOf, Links, Valid
  <2>2. edges[j].target # Start
    BY <1>1, <2>1 DEF Closed
  <2>3. edges[j].target \notin Entered(s, V)
    BY <1>1, <1>5, <2>1, <2>2 DEF Balanced
  <2>4. j \in DOMAIN edges /\ i \in DOMAIN edges /\ j # i
    BY <1>1, <1>5, <2>1 DEF Links
  <2>5. s.tokens[j] = "none"
    BY <1>5, <2>1 DEF Balanced
  <2>6. given[j] = "none"
    BY <2>4, <2>5 DEF Balanced
  <2> QED BY <1>2, <1>5, <2>1, <2>3, <2>4, <2>6 DEF Fires
<1>7. \A p \in Range(w), q \in Range(Tail(s.todo)) : p[1] # q[1]
  BY <1>1, <1>4, <1>5 DEF O, OutOf
<1>8. Pending(edges, e.todo) /\ Range(e.todo) = Range(w) \union Range(Tail(s.todo))
  <2> DEFINE v == Tail(s.todo)
  <2>1. e.todo = w \o v
    BY DEF w, Spreads
  <2>2. Pending(edges, w) /\ Pending(edges, v) /\ Apart(w, v)
    BY <1>1, <1>4, <1>7 DEF Apart
  <2> HIDE DEF v
  <2>3. Pending(edges, w \o v)
    BY ONLY <2>2, PendingJoined
  <2>4. Range(w \o v) = Range(w) \union Range(v)
    BY ONLY <2>2, PendingJoined
  <2> QED BY <2>1, <2>3, <2>4 DEF v
<1> QED BY <1>2, <1>4, <1>6, <1>8 DEF Due, Spreads

\* A field of the scheduler's state at a time.
LEMMA ScheduleFields ==
    ASSUME NEW a, NEW b, NEW c, NEW d, NEW x,
           NEW s, s = [tokens |-> a, dead |-> b, ready |-> c, todo |-> d]
    PROVE  /\ [s EXCEPT !.tokens = x] = [tokens |-> x, dead |-> b, ready |-> c, todo |-> d]
           /\ [s EXCEPT !.dead = x] = [tokens |-> a, dead |-> x, ready |-> c, todo |-> d]
           /\ [s EXCEPT !.ready = x] = [tokens |-> a, dead |-> b, ready |-> x, todo |-> d]
           /\ [s EXCEPT !.todo = x] = [tokens |-> a, dead |-> b, ready |-> c, todo |-> x]
<1>1. s \in [tokens : {a}, dead : {b}, ready : {c}, todo : {d}]
  OBVIOUS
<1>2. [s EXCEPT !.tokens = x] = [tokens |-> x, dead |-> b, ready |-> c, todo |-> d]
  BY <1>1
<1>3. [s EXCEPT !.dead = x] = [tokens |-> a, dead |-> x, ready |-> c, todo |-> d]
  BY <1>1
<1>4. [s EXCEPT !.ready = x] = [tokens |-> a, dead |-> b, ready |-> x, todo |-> d]
  BY <1>1
<1>5. [s EXCEPT !.todo = x] = [tokens |-> a, dead |-> b, ready |-> c, todo |-> x]
  BY <1>1
<1> QED BY <1>2, <1>3, <1>4, <1>5

\* What becomes of n, to which the first pending token goes.
Holds(s, given, n, e) ==
    /\ \E j \in ForwardIn(n) : given[j] = "none"
    /\ e = [tokens |-> given, dead |-> s.dead, ready |-> s.ready, todo |-> Tail(s.todo)]

Readies(s, given, n, e) ==
    /\ \E j \in ForwardIn(n) : given[j] = "live"
    /\ Fires(s, given, n, e) /\ IsSchedule(e)
    /\ e.ready = Append(s.ready, n) /\ e.dead = s.dead /\ e.todo = Tail(s.todo)

Kills(s, given, n, e) ==
    /\ \A j \in ForwardIn(n) : given[j] \notin {"none", "live"}
    /\ Fires(s, given, n, e) /\ Spreads(s, n, e)

\* A back edge enters the node again.
Reenters(s, n, e) ==
    e = [tokens |-> s.tokens, dead |-> s.dead, ready |-> Append(s.ready, n), todo |-> Tail(s.todo)]

\* A node that is dead already fires no token.
Drops(s, given, n, e) ==
    /\ \A j \in ForwardIn(n) : given[j] \notin {"none", "live"}
    /\ n \in s.dead /\ Fires(s, given, n, e) /\ IsSchedule(e)
    /\ e.ready = s.ready /\ e.todo = Tail(s.todo)

\* _deliver, _maybe_fire and _propagate_dead: what the first pending token does to the node
\* it goes to.
LEMMA DeliverDoes ==
    ASSUME NEW s, IsSchedule(s), s.todo # <<>>
    PROVE  LET i == Head(s.todo)[1]
               n == edges[i].target
               given == [s.tokens EXCEPT ![i] = Head(s.todo)[2]]
           IN  \/ i \in back /\ Reenters(s, n, Deliver(s))
               \/ i \notin back /\ Holds(s, given, n, Deliver(s))
               \/ i \notin back /\ Readies(s, given, n, Deliver(s))
               \/ i \notin back /\ Kills(s, given, n, Deliver(s))
               \/ i \notin back /\ Drops(s, given, n, Deliver(s))
<1> DEFINE i == Head(s.todo)[1]
           n == edges[i].target
           given == [s.tokens EXCEPT ![i] = Head(s.todo)[2]]
           gates == ForwardIn(n)
           clear == [j \in DOMAIN edges |-> IF j \in gates THEN "none" ELSE given[j]]
           again == [tokens |-> s.tokens, dead |-> s.dead, ready |-> Append(s.ready, n),
                     todo |-> Tail(s.todo)]
           waits == [tokens |-> given, dead |-> s.dead, ready |-> s.ready,
                     todo |-> Tail(s.todo)]
           drops == [tokens |-> clear, dead |-> s.dead, ready |-> s.ready,
                     todo |-> Tail(s.todo)]
           runs == [tokens |-> clear, dead |-> s.dead, ready |-> Append(s.ready, n),
                    todo |-> Tail(s.todo)]
           dies == [tokens |-> clear, dead |-> s.dead \union {n}, ready |-> s.ready,
                    todo |-> WithToken(OutOf(edges, n) \ back, "dead") \o Tail(s.todo)]
<1>1. s = [tokens |-> s.tokens, dead |-> s.dead, ready |-> s.ready, todo |-> s.todo]
  BY DEF IsSchedule
<1>2. /\ [[s EXCEPT !.todo = Tail(@)] EXCEPT !.ready = Append(@, n)] = again
      /\ [[s EXCEPT !.todo = Tail(@)] EXCEPT !.tokens = given] = waits
      /\ [[s EXCEPT !.todo = Tail(@)] EXCEPT !.tokens = clear] = drops
      /\ [[[s EXCEPT !.todo = Tail(@)] EXCEPT !.tokens = clear]
             EXCEPT !.ready = Append(@, n)] = runs
      /\ [[[s EXCEPT !.todo = Tail(@)] EXCEPT !.tokens = clear]
             EXCEPT !.dead = @ \union {n},
                    !.todo = WithToken(OutOf(edges, n) \ back, "dead") \o @] = dies
  <2> DEFINE w == WithToken(OutOf(edges, n) \ back, "dead")
             later == Tail(s.todo)
             rest == [s EXCEPT !.todo = later]
             fired == [rest EXCEPT !.tokens = clear]
             more == Append(s.ready, n)
             gone == s.dead \union {n}
             spread == w \o later
             half == [fired EXCEPT !.dead = gone]
  <2>1. rest = [tokens |-> s.tokens, dead |-> s.dead, ready |-> s.ready, todo |-> later]
    <3> HIDE DEF later
    <3> QED BY <1>1, ScheduleFields
  <2>2. fired = [tokens |-> clear, dead |-> s.dead, ready |-> s.ready, todo |-> later]
    <3> HIDE DEF later, clear, rest
    <3> QED BY <2>1, ScheduleFields
  <2>3. [rest EXCEPT !.tokens = given] = waits
    <3> HIDE DEF later, given, rest
    <3>1. [rest EXCEPT !.tokens = given]
             = [tokens |-> given, dead |-> s.dead, ready |-> s.ready, todo |-> later]
      BY <2>1, ScheduleFields
    <3> QED BY <3>1 DEF later
  <2>4. [fired EXCEPT !.ready = more] = runs
    <3> HIDE DEF later, clear, fired, more
    <3>1. [fired EXCEPT !.ready = more]
             = [tokens |-> clear, dead |-> s.dead, ready |-> more, todo |-> later]
      BY <2>2, ScheduleFields
    <3> QED BY <3>1 DEF later, more
  <2>5. [half EXCEPT !.todo = spread] = dies
    <3> HIDE DEF later, clear, fired, gone, spread
    <3>1. half = [tokens |-> clear, dead |-> gone, ready |-> s.ready, todo |-> later]
      BY <2>2, ScheduleFields
    <3> HIDE DEF half
    <3>2. [half EXCEPT !.todo = spread]
             = [tokens |-> clear, dead |-> gone, ready |-> s.ready, todo |-> spread]
      BY <3>1, ScheduleFields
    <3> QED BY <3>2 DEF later, gone, spread
  <2>6. fired.ready = s.ready /\ fired.dead = s.dead /\ fired.todo = later
    <3> HIDE DEF later, clear, fired
    <3> QED BY <2>2
  <2>7. [fired EXCEPT !.ready = Append(@, n)] = [fired EXCEPT !.ready = more]
    <3> HIDE DEF later, clear, fired
    <3> QED BY <2>6
  <2>8. [fired EXCEPT !.dead = @ \union {n}, !.todo = w \o @] = [half EXCEPT !.todo = spread]
    <3> HIDE DEF later, clear, fired, w
    <3> QED BY <2>6
  <2>9. [rest EXCEPT !.ready = more] = again
    <3> HIDE DEF later, rest, more
    <3>1. [rest EXCEPT !.ready = more]
             = [tokens |-> s.tokens, dead |-> s.dead, ready |-> more, todo |-> later]
      BY <2>1, ScheduleFields
    <3> QED BY <3>1 DEF later, more
  <2>10. [rest EXCEPT !.ready = Append(@, n)] = [rest EXCEPT !.ready = more]
    <3>1. rest.ready = s.ready
      <4> HIDE DEF later, rest
      <4> QED BY <2>1
    <3> HIDE DEF later, rest
    <3> QED BY <3>1
  <2>11. fired = drops
    BY <2>2 DEF later
  <2> QED BY <2>3, <2>4, <2>5, <2>7, <2>8, <2>9, <2>10, <2>11
<1>3. CASE i \in back
  <2>1. Deliver(s) = again
    BY <1>2, <1>3 DEF Deliver
  <2> QED BY <1>3, <2>1 DEF Reenters
<1>4. CASE i \notin back /\ \E j \in gates : given[j] = "none"
  <2>1. Deliver(s) = waits
    BY <1>2, <1>4 DEF Deliver
  <2>2. Holds(s, given, n, Deliver(s))
    BY <1>4, <2>1 DEF Holds
  <2> QED BY <1>4, <2>2
<1>5. CASE /\ i \notin back /\ (\A j \in gates : given[j] # "none")
           /\ \E j \in gates : given[j] = "live"
  <2>1. Deliver(s) = runs
    BY <1>2, <1>5 DEF Deliver
  <2>2. Fires(s, given, n, runs)
    BY <1>5 DEF Fires
  <2>3. Readies(s, given, n, runs)
    BY <1>5, <2>2 DEF Readies, IsSchedule
  <2> QED BY <1>5, <2>1, <2>3
<1>6. CASE /\ i \notin back /\ (\A j \in gates : given[j] # "none")
           /\ ~ (\E j \in gates : given[j] = "live") /\ n \notin s.dead
  <2>1. Deliver(s) = dies
    BY <1>2, <1>6 DEF Deliver
  <2>2. Fires(s, given, n, dies)
    BY <1>6 DEF Fires
  <2>3. Spreads(s, n, dies)
    BY DEF Spreads, IsSchedule
  <2>4. Kills(s, given, n, dies)
    BY <1>6, <2>2, <2>3 DEF Kills
  <2> QED BY <1>6, <2>1, <2>4
<1>7. CASE /\ i \notin back /\ (\A j \in gates : given[j] # "none")
           /\ ~ (\E j \in gates : given[j] = "live") /\ n \in s.dead
  <2>1. Deliver(s) = drops
    BY <1>2, <1>7 DEF Deliver
  <2>2. s.dead = s.dead \union {n}
    BY <1>7
  <2>3. Fires(s, given, n, drops)
    BY <1>7, <2>2 DEF Fires
  <2>4. Drops(s, given, n, drops)
    BY <1>7, <2>3 DEF Drops, IsSchedule
  <2> QED BY <1>7, <2>1, <2>4
<1> QED BY <1>3, <1>4, <1>5, <1>6, <1>7

\* No token is delivered on a back edge or to a node that is dead already.
LEMMA DeliverIs ==
    ASSUME edges \in Graphs, back = {}, Closed(edges, FromStart(edges)),
           NEW V, NEW B, NEW s, Balanced(edges, s, V, B), Due(edges, s, V, B), s.todo # <<>>
    PROVE  LET n == edges[Head(s.todo)[1]].target
               given == [s.tokens EXCEPT ![Head(s.todo)[1]] = Head(s.todo)[2]]
           IN  \/ Holds(s, given, n, Deliver(s))
               \/ Readies(s, given, n, Deliver(s))
               \/ Kills(s, given, n, Deliver(s))
<1>1. IsSchedule(s) /\ Head(s.todo)[1] \notin back /\ edges[Head(s.todo)[1]].target \notin s.dead
  BY FirstDue DEF Entered, Due
<1> QED BY <1>1, DeliverDoes DEF Drops

\* A delivery keeps the balance.
LEMMA DeliverKeeps ==
    ASSUME edges \in Graphs, back = {}, Closed(edges, FromStart(edges)),
           NEW V, NEW B, NEW s, Balanced(edges, s, V, B), Due(edges, s, V, B)
    PROVE  Balanced(edges, Deliver(s), V, B) /\ Due(edges, Deliver(s), V, B)
<1>1. CASE s.todo = <<>>
  BY <1>1 DEF Deliver
<1>2. CASE s.todo # <<>>
  <2> DEFINE i == Head(s.todo)[1]
             n == edges[i].target
             given == [s.tokens EXCEPT ![i] = Head(s.todo)[2]]
             e == Deliver(s)
  <2>1. Holds(s, given, n, e) \/ Readies(s, given, n, e) \/ Kills(s, given, n, e)
    BY <1>2, DeliverIs
  <2> HIDE DEF i, n, given, e
  <2>2. CASE Holds(s, given, n, e)
    <3>1. e = [tokens |-> given, dead |-> s.dead, ready |-> s.ready, todo |-> Tail(s.todo)]
      BY <2>2 DEF Holds
    <3>2. Balanced(edges, e, V, B) /\ Due(edges, e, V, B)
      BY <1>2, <3>1, DeliversHeld DEF i, given
    <3> QED BY <3>2 DEF e
  <2>3. CASE Readies(s, given, n, e)
    <3>1. Fires(s, given, n, e) /\ IsSchedule(e) /\ e.todo = Tail(s.todo)
      BY <2>3 DEF Readies
    <3>2. /\ Balanced(edges, e, V, B)
          /\ \A p \in Range(Tail(s.todo)) :
                /\ edges[p[1]].source \in Past(e, V, B)
                /\ edges[p[1]].target \notin Entered(e, V)
                /\ e.tokens[p[1]] = "none"
      BY <1>2, <3>1, Fired DEF i, n, given
    <3>3. Pending(edges, Tail(s.todo))
      BY <1>2, PendingNext DEF Due
    <3>4. Due(edges, e, V, B)
      BY <3>1, <3>2, <3>3 DEF Due
    <3> QED BY <3>2, <3>4 DEF e
  <2>4. CASE Kills(s, given, n, e)
    <3>1. Fires(s, given, n, e) /\ Spreads(s, n, e)
      BY <2>4 DEF Kills
    <3>2. Balanced(edges, e, V, B)
      BY <1>2, <3>1, Fired DEF i, n, given
    <3>3. Due(edges, e, V, B)
      BY <1>2, <3>1, DeadSpreads DEF i, n, given
    <3> QED BY <3>2, <3>3 DEF e
  <2> QED BY <2>1, <2>2, <2>3, <2>4
<1> QED BY <1>1, <1>2

-----------------------------------------------------------------------------
(* What the tokens say of the edges that finished nodes have activated. *)

\* The tokens with the first of those that are pending.
Puts(s, given) == given = [s.tokens EXCEPT ![Head(s.todo)[1]] = Head(s.todo)[2]]

\* Edge i has this token, or is to get it from Q.
Given(s, Q, i, token) == s.tokens[i] = token \/ <<i, token>> \in Q

\* The live tokens are of the edges in K that have been activated and whose target has
\* not run yet; a node past gives all its tokens; a node still to enter lacks one.
Told(g, s, Q, V, B, K) ==
    /\ K \subseteq Links(g)
    /\ \A i \in Links(g) : Given(s, Q, i, "live") => i \in K
    /\ \A i \in K : /\ g[i].target \notin s.dead
                    /\ g[i].target \in Entered(s, V) \/ Given(s, Q, i, "live")
    /\ Start \in V \union Range(s.ready)
    /\ \A n \in V \union Range(s.ready) : n = Start \/ \E i \in K : g[i].target = n
    /\ \A i \in Links(g) :
          g[i].source \in Past(s, V, B) \ Ends =>
             \/ g[i].target \in Entered(s, V)
             \/ Given(s, Q, i, "live") \/ Given(s, Q, i, "dead")
    /\ \A i \in Links(g) :
          g[i].target \notin Entered(s, V) =>
             \E j \in Links(g) : g[j].target = g[i].target /\ s.tokens[j] = "none"

\* The first token changes hands: it was pending and is delivered.
LEMMA TokenGiven ==
    ASSUME edges \in Graphs, back = {}, Closed(edges, FromStart(edges)),
           NEW V, NEW B, NEW s, Balanced(edges, s, V, B), Due(edges, s, V, B), s.todo # <<>>,
           NEW i, i = Head(s.todo)[1], NEW given, Puts(s, given),
           NEW j \in Links(edges), NEW token \in {"live", "dead"}
    PROVE  /\ Given(s, Range(s.todo), j, token)
                  => given[j] = token \/ <<j, token>> \in Range(Tail(s.todo))
           /\ given[j] = token \/ <<j, token>> \in Range(Tail(s.todo))
                  => Given(s, Range(s.todo), j, token)
           /\ <<j, token>> \in Range(Tail(s.todo)) => given[j] = "none"
<1>1. /\ Head(s.todo) \in Range(s.todo) /\ Head(s.todo) \in Links(edges) \X {"live", "dead"}
      /\ \A p \in Range(Tail(s.todo)) : p \in Range(s.todo) /\ p[1] # i
      /\ \A p \in Range(s.todo) : p = Head(s.todo) \/ p \in Range(Tail(s.todo))
  BY PendingNext DEF Due
<1>2. /\ i \in DOMAIN edges /\ s.tokens[i] = "none"
      /\ \A p \in Range(Tail(s.todo)) : s.tokens[p[1]] = "none"
  BY FirstDue
<1>3. j \in DOMAIN edges /\ DOMAIN s.tokens = DOMAIN edges
  BY DEF Links, Balanced
<1>4. given[i] = Head(s.todo)[2] /\ (j # i => given[j] = s.tokens[j])
  BY <1>2, <1>3 DEF Puts
<1>5. Head(s.todo) = <<i, Head(s.todo)[2]>>
  BY <1>1
<1> DEFINE later == Range(Tail(s.todo))
           x == Head(s.todo)[2]
<1>6. <<j, token>> \in later => j # i /\ s.tokens[j] = "none"
  BY <1>1, <1>2
<1>7. <<j, token>> \in Range(s.todo) <=> (j = i /\ token = x) \/ <<j, token>> \in later
  <2>1. <<j, token>> = <<i, x>> <=> j = i /\ token = x
    OBVIOUS
  <2> QED BY <1>1, <1>5, <2>1
<1> HIDE DEF later, x
<1>8. given[i] = x
  BY <1>4 DEF x
<1>9. Given(s, Range(s.todo), j, token) <=> given[j] = token \/ <<j, token>> \in later
  BY <1>2, <1>4, <1>7, <1>8 DEF Given
<1> QED BY <1>4, <1>6, <1>9 DEF later

\* _maybe_fire: a node that still waits for a token.
LEMMA HoldsTells ==
    ASSUME edges \in Graphs, back = {}, Closed(edges, FromStart(edges)),
           NEW V, NEW B, NEW s, Balanced(edges, s, V, B), Due(edges, s, V, B), s.todo # <<>>,
           NEW K, Told(edges, s, Range(s.todo), V, B, K),
           NEW i, i = Head(s.todo)[1], NEW n, n = edges[i].target,
           NEW given, Puts(s, given),
           NEW e, Holds(s, given, n, e)
    PROVE  Told(edges, e, Range(e.todo), V, B, K)
<1>1. e.tokens = given /\ e.dead = s.dead /\ e.ready = s.ready /\ e.todo = Tail(s.todo)
  BY DEF Holds
<1>2. ASSUME NEW j \in Links(edges), NEW token \in {"live", "dead"}
      PROVE  Given(e, Range(e.todo), j, token) <=> Given(s, Range(s.todo), j, token)
  <2>1. Given(s, Range(s.todo), j, token)
           <=> given[j] = token \/ <<j, token>> \in Range(Tail(s.todo))
    BY TokenGiven
  <2>2. Given(e, Range(e.todo), j, token)
           <=> given[j] = token \/ <<j, token>> \in Range(Tail(s.todo))
    BY <1>1 DEF Given
  <2> QED BY <2>1, <2>2
<1>3. Past(e, V, B) = Past(s, V, B) /\ Entered(e, V) = Entered(s, V)
  BY <1>1 DEF Past, Entered
<1>4. ASSUME NEW j \in Links(edges), edges[j].target \notin Entered(e, V)
      PROVE  \E k \in Links(edges) : edges[k].target = edges[j].target /\ e.tokens[k] = "none"
  <2>1. CASE edges[j].target = n
    BY <1>1, <2>1 DEF Holds, ForwardIn
  <2>2. CASE edges[j].target # n
    <3>1. PICK k \in Links(edges) : edges[k].target = edges[j].target /\ s.tokens[k] = "none"
      BY <1>3, <1>4 DEF Told
    <3>2. given[k] = s.tokens[k]
      BY <2>2, <3>1 DEF Puts, Balanced, Links
    <3> QED BY <1>1, <3>1, <3>2
  <2> QED BY <2>1, <2>2
<1>5. K \subseteq Links(edges)
  BY DEF Told
<1> DEFINE Q == Range(s.todo)
           R == Range(e.todo)
<1>6. /\ \A j \in Links(edges) : Given(s, Q, j, "live") <=> Given(e, R, j, "live")
      /\ \A j \in Links(edges) : Given(s, Q, j, "dead") <=> Given(e, R, j, "dead")
  BY <1>2
<1> HIDE DEF Q, R
<1>7. Told(edges, s, Q, V, B, K)
  BY DEF Q
<1>8. Told(edges, e, R, V, B, K)
  BY <1>1, <1>3, <1>4, <1>5, <1>6, <1>7 DEF Told
<1> QED BY <1>8 DEF R

\* Q is P with more dead tokens.
WithDead(P, Q) == P \subseteq Q /\ \A j : <<j, "live">> \in Q => <<j, "live">> \in P

\* What the tokens tell once n has fired, but for n itself.
FiredTells(s, n, given, e, Q, V, B, K) ==
    /\ K \subseteq Links(edges)
    /\ \A j \in Links(edges) : Given(e, Q, j, "live") => j \in K
    /\ \A j \in K : edges[j].target \in Entered(e, V) \/ Given(e, Q, j, "live")
    /\ \A j \in K : edges[j].target = n => given[j] = "live"
    /\ \A j \in ForwardIn(n) : given[j] = "live" => j \in K
    /\ \A j \in Links(edges) :
          edges[j].source \in Past(s, V, B) \ Ends =>
             \/ edges[j].target \in Entered(e, V)
             \/ Given(e, Q, j, "live") \/ Given(e, Q, j, "dead")
    /\ \A j \in Links(edges) :
          edges[j].target \notin Entered(e, V) =>
             \E k \in Links(edges) :
                edges[k].target = edges[j].target /\ e.tokens[k] = "none"

\* A node that fires: what the other edges are given stays, and nothing is live that
\* was not.
LEMMA FiredTokens ==
    ASSUME edges \in Graphs, back = {}, Closed(edges, FromStart(edges)),
           NEW V, NEW B, NEW s, Balanced(edges, s, V, B), Due(edges, s, V, B), s.todo # <<>>,
           NEW K, Told(edges, s, Range(s.todo), V, B, K),
           NEW i, i = Head(s.todo)[1], NEW n, n = edges[i].target,
           NEW given, Puts(s, given),
           NEW e, Fires(s, given, n, e),
           NEW Q, WithDead(Range(Tail(s.todo)), Q)
    PROVE  FiredTells(s, n, given, e, Q, V, B, K)
<1> DEFINE later == Range(Tail(s.todo))
           P == Range(s.todo)
<1>1. ASSUME NEW j \in Links(edges), NEW token \in {"live", "dead"}
      PROVE  /\ Given(s, P, j, token) <=> given[j] = token \/ <<j, token>> \in later
             /\ <<j, token>> \in later => given[j] = "none"
             /\ j # i => given[j] = s.tokens[j]
  <2>1. Given(s, P, j, token) => given[j] = token \/ <<j, token>> \in later
    BY TokenGiven
  <2>2. given[j] = token \/ <<j, token>> \in later => Given(s, P, j, token)
    BY TokenGiven
  <2>3. <<j, token>> \in later => given[j] = "none"
    BY TokenGiven
  <2>4. j # i => given[j] = s.tokens[j]
    BY DEF Puts, Balanced, Links
  <2> QED BY <2>1, <2>2, <2>3, <2>4
<1>2. /\ ForwardIn(n) = {j \in Links(edges) : edges[j].target = n}
      /\ \A j \in Links(edges) : e.tokens[j] = IF edges[j].target = n THEN "none" ELSE given[j]
      /\ \A j \in Links(edges) : edges[j].target = n => given[j] # "none"
  BY DEF Fires, ForwardIn, Links
<1>3. Entered(e, V) = Entered(s, V) \union {n} /\ n \notin Entered(s, V)
  BY Fired, FirstDue DEF Puts
<1>4. Told(edges, s, P, V, B, K) /\ K \subseteq Links(edges) /\ i \in Links(edges)
  BY FirstDue DEF Told
<1> HIDE DEF later, P
<1>5. ASSUME NEW j \in Links(edges), edges[j].target # n
      PROVE  /\ Given(e, Q, j, "live") <=> Given(s, P, j, "live")
             /\ Given(s, P, j, "dead") => Given(e, Q, j, "dead")
  <2>1. /\ <<j, "live">> \in Q <=> <<j, "live">> \in later
        /\ <<j, "dead">> \in later => <<j, "dead">> \in Q
    BY DEF later, WithDead
  <2>2. e.tokens[j] = given[j]
    BY <1>2, <1>5
  <2>3. /\ Given(s, P, j, "live") <=> given[j] = "live" \/ <<j, "live">> \in later
        /\ Given(s, P, j, "dead") <=> given[j] = "dead" \/ <<j, "dead">> \in later
    BY <1>1
  <2> QED BY <2>1, <2>2, <2>3 DEF Given
<1>6. ASSUME NEW j \in Links(edges), edges[j].target = n PROVE ~ Given(e, Q, j, "live")
  <2>1. e.tokens[j] = "none" /\ <<j, "live">> \notin later
    BY <1>1, <1>2, <1>6
  <2>2. <<j, "live">> \notin Q
    BY <2>1 DEF later, WithDead
  <2> QED BY <2>1, <2>2 DEF Given
<1>7. \A j \in Links(edges) : Given(e, Q, j, "live") => j \in K
  BY <1>4, <1>5, <1>6 DEF Told
<1>8. \A j \in K : edges[j].target \in Entered(e, V) \/ Given(e, Q, j, "live")
  BY <1>3, <1>4, <1>5 DEF Told
<1>9. ASSUME NEW j \in K, edges[j].target = n PROVE given[j] = "live"
  <2>1. Given(s, P, j, "live")
    BY <1>3, <1>4, <1>9 DEF Told
  <2> QED BY <1>1, <1>2, <1>4, <1>9, <2>1
<1>10. ASSUME NEW j \in ForwardIn(n), given[j] = "live" PROVE j \in K
  <2>1. Given(s, P, j, "live")
    BY <1>1, <1>2, <1>10
  <2> QED BY <1>2, <1>4, <2>1 DEF Told
<1>11. ASSUME NEW j \in Links(edges), edges[j].source \in Past(s, V, B) \ Ends,
              edges[j].target \notin Entered(e, V)
       PROVE  Given(e, Q, j, "live") \/ Given(e, Q, j, "dead")
  <2>1. edges[j].target # n /\ edges[j].target \notin Entered(s, V)
    BY <1>3, <1>11
  <2>2. Given(s, P, j, "live") \/ Given(s, P, j, "dead")
    BY <1>4, <1>11, <2>1 DEF Told
  <2> QED BY <1>5, <2>1, <2>2
<1>12. ASSUME NEW j \in Links(edges), edges[j].target \notin Entered(e, V)
       PROVE  \E k \in Links(edges) : edges[k].target = edges[j].target /\ e.tokens[k] = "none"
  <2>1. edges[j].target # n /\ edges[j].target \notin Entered(s, V)
    BY <1>3, <1>12
  <2>2. PICK k \in Links(edges) : edges[k].target = edges[j].target /\ s.tokens[k] = "none"
    BY <1>4, <2>1 DEF Told
  <2>3. k # i /\ given[k] = s.tokens[k]
    BY <1>1, <2>1, <2>2
  <2> QED BY <1>2, <2>1, <2>2, <2>3
<1> QED BY <1>4, <1>7, <1>8, <1>9, <1>10, <1>11, <1>12 DEF FiredTells

\* A node that becomes ready has a live token, of an edge that has been activated.
LEMMA ReadiesTells ==
    ASSUME edges \in Graphs, back = {}, Closed(edges, FromStart(edges)),
           NEW V, NEW B, NEW s, Balanced(edges, s, V, B), Due(edges, s, V, B), s.todo # <<>>,
           NEW K, Told(edges, s, Range(s.todo), V, B, K),
           NEW i, i = Head(s.todo)[1], NEW n, n = edges[i].target,
           NEW given, Puts(s, given),
           NEW e, Readies(s, given, n, e)
    PROVE  Told(edges, e, Range(e.todo), V, B, K)
<1>1. /\ Fires(s, given, n, e) /\ e.todo = Tail(s.todo) /\ e.dead = s.dead
      /\ e.ready = Append(s.ready, n)
      /\ \E j \in ForwardIn(n) : given[j] = "live"
  BY DEF Readies
<1> DEFINE Q == Range(e.todo)
<1>2. WithDead(Range(Tail(s.todo)), Q)
  BY <1>1 DEF WithDead
<1>3. FiredTells(s, n, given, e, Q, V, B, K)
  <2> HIDE DEF Q
  <2> QED BY <1>1, <1>2, FiredTokens
<1>4. Range(e.ready) = Range(s.ready) \union {n}
  <2>1. s.ready \in Seq(Nodes) /\ IsInjective(s.ready) /\ n \in Nodes /\ n \notin Range(s.ready)
    BY FirstDue DEF Balanced, Entered
  <2> QED BY <1>1, <2>1, Pushed
<1>5. \E j \in K : edges[j].target = n
  BY <1>1, <1>3 DEF FiredTells, ForwardIn
<1>6. Past(e, V, B) = Past(s, V, B)
  BY <1>1 DEF Past
<1>7. /\ \A j \in K : edges[j].target \notin e.dead
      /\ Start \in V \union Range(e.ready)
      /\ \A m \in V \union Range(e.ready) : m = Start \/ \E j \in K : edges[j].target = m
  BY <1>1, <1>4, <1>5 DEF Told
<1> HIDE DEF Q
<1>8. Told(edges, e, Q, V, B, K)
  BY <1>3, <1>6, <1>7 DEF Told, FiredTells
<1> QED BY <1>8 DEF Q

\* A node that is dead has no edge that has been activated, and gives dead tokens.
LEMMA KillsTells ==
    ASSUME edges \in Graphs, back = {}, Closed(edges, FromStart(edges)),
           NEW V, NEW B, NEW s, Balanced(edges, s, V, B), Due(edges, s, V, B), s.todo # <<>>,
           NEW K, Told(edges, s, Range(s.todo), V, B, K),
           NEW i, i = Head(s.todo)[1], NEW n, n = edges[i].target,
           NEW given, Puts(s, given),
           NEW e, Kills(s, given, n, e)
    PROVE  Told(edges, e, Range(e.todo), V, B, K)
<1> DEFINE w == WithToken(OutOf(edges, n), "dead")
           Q == Range(e.todo)
<1>1. /\ Fires(s, given, n, e) /\ e.dead = s.dead \union {n} /\ e.ready = s.ready
      /\ e.todo = w \o Tail(s.todo)
      /\ \A j \in ForwardIn(n) : given[j] # "live"
  <2>1. OutOf(edges, n) \ back = OutOf(edges, n)
    OBVIOUS
  <2> QED BY <2>1 DEF Kills, Spreads
<1>2. /\ w \in Seq(Links(edges) \X {"live", "dead"})
      /\ \A p \in Range(w) : p[2] = "dead"
      /\ \A j \in OutOf(edges, n) : <<j, "dead">> \in Range(w)
  <2>1. OutOf(edges, n) \in SUBSET Links(edges)
    BY GraphEdges
  <2> QED BY <2>1, PendingTokens DEF Pending
<1>3. Q = Range(w) \union Range(Tail(s.todo))
  <2> DEFINE T == Links(edges) \X {"live", "dead"}
             v == Tail(s.todo)
  <2>1. v \in Seq(T)
    BY FirstDue DEF Pending
  <2>2. w \in Seq(T) /\ e.todo = w \o v
    BY <1>1, <1>2
  <2> HIDE DEF w, v, T
  <2>3. Range(w \o v) = Range(w) \union Range(v)
    BY <2>1, <2>2, RangeConcatenation
  <2> QED BY <2>2, <2>3 DEF v
<1>4. WithDead(Range(Tail(s.todo)), Q)
  <2>1. ASSUME NEW j PROVE <<j, "live">> \notin Range(w)
    BY <1>2
  <2> HIDE DEF w, Q
  <2> QED BY <1>3, <2>1 DEF WithDead
<1>5. FiredTells(s, n, given, e, Q, V, B, K)
  <2> HIDE DEF Q, w
  <2> QED BY <1>1, <1>4, FiredTokens
<1>6. Told(edges, s, Range(s.todo), V, B, K)
  OBVIOUS
<1>7. \A j \in K : edges[j].target \notin e.dead
  BY <1>1, <1>5, <1>6 DEF Told, FiredTells, ForwardIn
<1>8. /\ Start \in V \union Range(e.ready)
      /\ \A m \in V \union Range(e.ready) : m = Start \/ \E j \in K : edges[j].target = m
  BY <1>1, <1>6 DEF Told
<1>9. Past(e, V, B) = Past(s, V, B) \union {n}
  BY <1>1 DEF Past
<1>10. \A j \in Links(edges) : edges[j].source = n => Given(e, Q, j, "dead")
  <2>1. \A j \in Links(edges) : edges[j].source = n => <<j, "dead">> \in Range(w)
    BY <1>2 DEF OutOf
  <2> HIDE DEF w, Q
  <2> QED BY <1>3, <2>1 DEF Given
<1> HIDE DEF Q
<1>11. Told(edges, e, Q, V, B, K)
  BY <1>5, <1>7, <1>8, <1>9, <1>10 DEF Told, FiredTells
<1> QED BY <1>11 DEF Q

\* The edges that may still get a token.
Unsent(g, s, V, B) ==
    {p[1] : p \in Range(s.todo)} \union {i \in Links(g) : g[i].source \notin Past(s, V, B)}

\* A delivery keeps what the tokens tell, and is of an edge that gets no other token.
LEMMA DeliverTells ==
    ASSUME edges \in Graphs, back = {}, Closed(edges, FromStart(edges)),
           NEW V, NEW B, NEW s, Balanced(edges, s, V, B), Due(edges, s, V, B), s.todo # <<>>,
           NEW K, Told(edges, s, Range(s.todo), V, B, K)
    PROVE  /\ Told(edges, Deliver(s), Range(Deliver(s).todo), V, B, K)
           /\ \E i \in Unsent(edges, s, V, B) :
                 Unsent(edges, Deliver(s), V, B) \subseteq Unsent(edges, s, V, B) \ {i}
<1> DEFINE i == Head(s.todo)[1]
           n == edges[i].target
           given == [s.tokens EXCEPT ![i] = Head(s.todo)[2]]
           e == Deliver(s)
           later == Range(Tail(s.todo))
<1>1. Holds(s, given, n, e) \/ Readies(s, given, n, e) \/ Kills(s, given, n, e)
  BY DeliverIs
<1>2. Puts(s, given)
  BY DEF Puts
<1>3. /\ i \in Links(edges) /\ edges[i].source \in Past(s, V, B) /\ n \notin Entered(s, V)
      /\ i \in {p[1] : p \in Range(s.todo)}
      /\ \A p \in later : p \in Range(s.todo) /\ p[1] # i
      /\ Tail(s.todo) \in Seq(Links(edges) \X {"live", "dead"})
  BY FirstDue, PendingNext DEF Due, Pending
<1> HIDE DEF i, n, given, e
<1>4. Told(edges, e, Range(e.todo), V, B, K)
  <2>1. CASE Holds(s, given, n, e)
    BY <1>2, <2>1, HoldsTells DEF i, n
  <2>2. CASE Readies(s, given, n, e)
    BY <1>2, <2>2, ReadiesTells DEF i, n
  <2>3. CASE Kills(s, given, n, e)
    BY <1>2, <2>3, KillsTells DEF i, n
  <2> QED BY <1>1, <2>1, <2>2, <2>3
<1>5. Unsent(edges, e, V, B) \subseteq Unsent(edges, s, V, B) \ {i}
  <2>1. CASE Holds(s, given, n, e) \/ Readies(s, given, n, e)
    <3>1. e.todo = Tail(s.todo) /\ e.dead = s.dead
      <4>1. CASE Holds(s, given, n, e)
        BY <4>1 DEF Holds
      <4>2. CASE Readies(s, given, n, e)
        BY <4>2 DEF Readies
      <4> QED BY <2>1, <4>1, <4>2
    <3>2. Range(e.todo) = later /\ Past(e, V, B) = Past(s, V, B)
      BY <3>1 DEF Past
    <3> HIDE DEF later
    <3> QED BY <1>3, <3>2 DEF Unsent
  <2>2. CASE Kills(s, given, n, e)
    <3> DEFINE w == WithToken(OutOf(edges, n) \ back, "dead")
    <3>1. e.todo = w \o Tail(s.todo) /\ Past(e, V, B) = Past(s, V, B) \union {n}
      BY <2>2 DEF Kills, Spreads, Past
    <3>2. /\ w \in Seq(Links(edges) \X {"live", "dead"})
          /\ \A p \in Range(w) : p[1] \in Links(edges) /\ edges[p[1]].source = n
      <4>1. OutOf(edges, n) \ back \in SUBSET Links(edges)
        BY GraphEdges
      <4> QED BY <4>1, PendingTokens DEF Pending, OutOf
    <3>3. Range(e.todo) = Range(w) \union later
      <4> DEFINE T == Links(edges) \X {"live", "dead"}
                 v == Tail(s.todo)
      <4>1. v \in Seq(T) /\ w \in Seq(T) /\ e.todo = w \o v
        BY <1>3, <3>1, <3>2
      <4> HIDE DEF w, v, T, later
      <4>2. Range(w \o v) = Range(w) \union Range(v)
        BY <4>1, RangeConcatenation
      <4> QED BY <4>1, <4>2 DEF v, later
    <3>4. n \notin Past(s, V, B)
      BY <1>3 DEF Past, Entered
    <3> HIDE DEF w, later
    <3> QED BY <1>3, <3>1, <3>2, <3>3, <3>4 DEF Unsent
  <2> QED BY <1>1, <2>1, <2>2
<1>6. i \in Unsent(edges, s, V, B)
  BY <1>3 DEF Unsent
<1> QED BY <1>4, <1>5, <1>6 DEF e

\* f[k] is the scheduler after k deliveries.
Deliveries(f, init, n) ==
    f = [i \in 0..n |-> IF i = 0 THEN init ELSE Deliver(f[i - 1])]

\* The function AfterComplete chooses is there to choose.
LEMMA DeliveriesExist ==
    ASSUME NEW init, NEW n \in Nat
    PROVE  \E f : Deliveries(f, init, n)
<1> DEFINE Bad == {k \in Nat : ~ \E f : Deliveries(f, init, k)}
<1>1. SUFFICES ASSUME Bad # {} PROVE FALSE
  OBVIOUS
<1>2. PICK k \in Bad : \A j \in Bad : k <= j
  <2>1. Bad \in SUBSET Nat
    OBVIOUS
  <2> HIDE DEF Bad
  <2> QED BY <1>1, <2>1, LeastFailure
<1>3. CASE k = 0
  <2> DEFINE f == [i \in 0..0 |-> init]
  <2>1. Deliveries(f, init, 0)
    BY DEF Deliveries
  <2> QED BY <1>3, <2>1
<1>4. CASE k # 0
  <2>1. k - 1 \in Nat /\ ~ (k <= k - 1) /\ 0..k = (0..(k - 1)) \union {k}
    BY <1>4
  <2>2. PICK h : Deliveries(h, init, k - 1)
    BY <1>2, <2>1
  <2> DEFINE f == [i \in 0..k |-> IF i = 0 THEN init ELSE Deliver(h[i - 1])]
  <2>3. ASSUME NEW i \in 0..(k - 1) PROVE f[i] = h[i]
    <3>1. h[i] = IF i = 0 THEN init ELSE Deliver(h[i - 1])
      BY <2>2 DEF Deliveries
    <3>2. i \in 0..k
      BY <2>1
    <3> QED BY <3>1, <3>2
  <2>4. ASSUME NEW i \in 0..k PROVE f[i] = IF i = 0 THEN init ELSE Deliver(f[i - 1])
    <3>1. CASE i = 0
      BY <3>1
    <3>2. CASE i # 0
      <4>1. i - 1 \in 0..(k - 1)
        BY <2>1, <3>2
      <4> QED BY <2>3, <3>2, <4>1
    <3> QED BY <3>1, <3>2
  <2>5. f = [i \in 0..k |-> IF i = 0 THEN init ELSE Deliver(f[i - 1])]
    <3>1. f = [i \in 0..k |-> f[i]]
      OBVIOUS
    <3> HIDE DEF f
    <3> QED BY <2>4, <3>1
  <2>6. Deliveries(f, init, k)
    BY <2>5 DEF Deliveries
  <2> QED BY <2>6
<1> QED BY <1>3, <1>4

\* The scheduler is balanced after any number of deliveries.
LEMMA DeliveriesKeep ==
    ASSUME edges \in Graphs, back = {}, Closed(edges, FromStart(edges)),
           NEW V, NEW B, NEW init, Balanced(edges, init, V, B), Due(edges, init, V, B),
           NEW n \in Nat, NEW f, Deliveries(f, init, n), NEW k \in 0..n
    PROVE  Balanced(edges, f[k], V, B) /\ Due(edges, f[k], V, B)
<1> DEFINE Good(j) == Balanced(edges, f[j], V, B) /\ Due(edges, f[j], V, B)
           Bad == {j \in 0..n : ~ Good(j)}
<1>1. ASSUME Bad # {} PROVE FALSE
  <2>1. PICK j \in Bad : \A i \in Bad : j <= i
    <3>1. Bad \in SUBSET Nat
      OBVIOUS
    <3> HIDE DEF Bad
    <3> QED BY <1>1, <3>1, LeastFailure
  <2>2. f[j] = IF j = 0 THEN init ELSE Deliver(f[j - 1])
    BY DEF Deliveries
  <2>3. CASE j = 0
    BY <2>1, <2>2, <2>3
  <2>4. CASE j # 0
    <3>1. j - 1 \in 0..n /\ ~ (j <= j - 1)
      BY <2>4
    <3>2. Good(j - 1)
      BY <2>1, <3>1
    <3>3. Good(j)
      BY <2>2, <2>4, <3>2, DeliverKeeps
    <3> QED BY <2>1, <3>3
  <2> QED BY <2>3, <2>4
<1> QED BY <1>1

\* Every delivery sends an edge's only token: after as many as there are edges, no token
\* is pending.
LEMMA DeliveriesTell ==
    ASSUME edges \in Graphs, back = {}, Closed(edges, FromStart(edges)),
           NEW V, NEW B, NEW init, Balanced(edges, init, V, B), Due(edges, init, V, B),
           NEW K, Told(edges, init, Range(init.todo), V, B, K),
           NEW n \in Nat, NEW f, Deliveries(f, init, n), NEW k \in 0..n
    PROVE  /\ Told(edges, f[k], Range(f[k].todo), V, B, K)
           /\ f[k].todo # <<>> => k < Len(edges)
<1> DEFINE left(j) == Unsent(edges, f[j], V, B)
           Tells(j) == Told(edges, f[j], Range(f[j].todo), V, B, K)
           Good(j) == Tells(j) /\ (f[j].todo # <<>> => Cardinality(left(j)) + j <= Len(edges))
           Bad == {j \in 0..n : ~ Good(j)}
<1>1. ASSUME NEW j \in 0..n PROVE Balanced(edges, f[j], V, B) /\ Due(edges, f[j], V, B)
  BY DeliveriesKeep
<1>2. ASSUME NEW j \in 0..n
      PROVE  /\ IsFiniteSet(left(j)) /\ Cardinality(left(j)) \in Nat
             /\ Cardinality(left(j)) <= Len(edges)
  <2>1. \A p \in Range(f[j].todo) : p[1] \in Links(edges)
    <3> DEFINE T == Links(edges) \X {"live", "dead"}
    <3>1. f[j].todo \in Seq(T)
      BY <1>1 DEF Due, Pending
    <3>2. Range(f[j].todo) \in SUBSET T
      <4> HIDE DEF T
      <4> QED BY <3>1, RangeOfSeq
    <3> QED BY <3>2
  <2>2. left(j) \in SUBSET Links(edges)
    BY <2>1 DEF Unsent
  <2> HIDE DEF left
  <2> QED BY <2>2, GraphEdges, FS_CardinalityType
<1>3. Len(edges) \in Nat
  BY GraphEdges
<1>4. ASSUME NEW j \in 0..n, f[j].todo # <<>>, Tells(j)
      PROVE  /\ Told(edges, Deliver(f[j]), Range(Deliver(f[j]).todo), V, B, K)
             /\ \E i \in left(j) : Unsent(edges, Deliver(f[j]), V, B) \subseteq left(j) \ {i}
  <2>1. /\ edges \in Graphs /\ back = {} /\ Closed(edges, FromStart(edges))
        /\ Balanced(edges, f[j], V, B) /\ Due(edges, f[j], V, B) /\ f[j].todo # <<>>
        /\ Told(edges, f[j], Range(f[j].todo), V, B, K)
    BY <1>1, <1>4
  <2> QED BY ONLY <2>1, DeliverTells
<1>5. ASSUME Bad # {} PROVE FALSE
  <2>1. PICK j \in Bad : \A i \in Bad : j <= i
    <3>1. Bad \in SUBSET Nat
      OBVIOUS
    <3> HIDE DEF Bad
    <3> QED BY <1>5, <3>1, LeastFailure
  <2>2. f[j] = IF j = 0 THEN init ELSE Deliver(f[j - 1])
    BY DEF Deliveries
  <2>3. CASE j = 0
    <3>1. Tells(j)
      BY <2>2, <2>3
    <3>2. Cardinality(left(j)) + j <= Len(edges)
      <4> HIDE DEF left
      <4> QED BY <1>2, <1>3, <2>1, <2>3
    <3> QED BY <2>1, <3>1, <3>2
  <2>4. CASE j # 0
    <3> DEFINE h == j - 1
    <3>1. h \in 0..n /\ j = h + 1 /\ ~ (j <= h)
      BY <2>4
    <3>2. Good(h)
      BY <2>1, <3>1
    <3>3. f[j] = Deliver(f[h])
      BY <2>2, <2>4
    <3>4. CASE f[h].todo = <<>>
      <4>1. f[j] = f[h]
        BY <3>3, <3>4 DEF Deliver
      <4>2. Good(j)
        BY <3>2, <3>4, <4>1
      <4> QED BY <2>1, <4>2
    <3>5. CASE f[h].todo # <<>>
      <4>1. Tells(j)
        BY <1>4, <3>1, <3>2, <3>3, <3>5
      <4>2. PICK i \in left(h) : left(j) \subseteq left(h) \ {i}
        BY <1>4, <3>1, <3>2, <3>3, <3>5
      <4>3. Cardinality(left(h)) + h <= Len(edges)
        BY <3>2, <3>5
      <4> HIDE DEF left, h
      <4>4. Cardinality(left(h) \ {i}) = Cardinality(left(h)) - 1 /\ IsFiniteSet(left(h) \ {i})
        BY <1>2, <3>1, FS_RemoveElement
      <4>5. Cardinality(left(j)) <= Cardinality(left(h)) - 1 /\ Cardinality(left(j)) \in Nat
        BY <1>2, <2>1, <4>2, <4>4, FS_Subset
      <4>6. Cardinality(left(j)) + j <= Len(edges)
        BY <1>2, <1>3, <3>1, <4>3, <4>5
      <4> QED BY <2>1, <4>1, <4>6
    <3> QED BY <3>4, <3>5
  <2> QED BY <2>3, <2>4
<1>6. Good(k)
  BY <1>5
<1>7. ASSUME f[k].todo # <<>> PROVE k < Len(edges)
  <2>1. PICK i : i \in left(k)
    BY <1>4, <1>6, <1>7
  <2>2. Cardinality(left(k)) + k <= Len(edges)
    BY <1>6, <1>7
  <2> HIDE DEF left
  <2>3. Cardinality(left(k)) # 0
    BY <1>2, <2>1, FS_EmptySet
  <2> QED BY <1>2, <1>3, <2>2, <2>3
<1> QED BY <1>6, <1>7

Schedule == [tokens |-> tokens, dead |-> dead, ready |-> ready]

\* What complete(n, branch) has to deliver.
Completing(n, branch) ==
    [tokens |-> tokens, dead |-> dead, ready |-> ready,
     todo |-> WithToken(Activated(n, branch), "live") \o WithToken(Pruned(n, branch), "dead")]

\* DagScheduler.complete: a visited node is processed, each edge of it has one token due.
LEMMA CompleteStarts ==
    ASSUME edges \in Graphs, back = {}, Closed(edges, FromStart(edges)),
           NEW V, NEW B, Balanced(edges, Schedule, V, B), NEW n \in B, B \subseteq V, NEW branch
    PROVE  /\ Balanced(edges, Completing(n, branch), V, B \ {n})
           /\ Due(edges, Completing(n, branch), V, B \ {n})
           /\ Past(Completing(n, branch), V, B \ {n}) = Past(Schedule, V, B) \union {n}
           /\ Entered(Completing(n, branch), V) = Entered(Schedule, V)
           /\ \A j \in OutOf(edges, n) : edges[j].target \notin Entered(Schedule, V)
           /\ \A p \in Range(Completing(n, branch).todo) :
                 p[1] \in Activated(n, branch) \/ p[2] = "dead"
           /\ \A j \in Activated(n, branch) : <<j, "live">> \in Range(Completing(n, branch).todo)
           /\ \A j \in OutOf(edges, n) \ Activated(n, branch) :
                 <<j, "dead">> \in Range(Completing(n, branch).todo)
<1> DEFINE s == Schedule
           O == OutOf(edges, n)
           A == Activated(n, branch)
           P == Pruned(n, branch)
           u == WithToken(A, "live")
           v == WithToken(P, "dead")
           init == Completing(n, branch)
           C == B \ {n}
<1>1. init.tokens = s.tokens /\ init.dead = s.dead /\ init.ready = s.ready /\ init.todo = u \o v
  BY DEF Completing, Schedule
<1>2. IsSchedule(init)
  BY DEF Completing, IsSchedule
<1> HIDE DEF init
<1>3. /\ Past(init, V, C) = Past(s, V, B) \union {n} /\ Entered(init, V) = Entered(s, V)
      /\ n \notin Past(s, V, B) /\ n \in Entered(s, V)
  BY <1>1 DEF Past, Entered, Balanced
<1> HIDE DEF s
<1>4. Balanced(edges, init, V, C)
  <2>1. Balanced(edges, s, V, B)
    BY DEF s
  <2> HIDE DEF C
  <2> QED BY <1>1, <1>3, <2>1 DEF Balanced
<1>5. ASSUME NEW j \in O
      PROVE  /\ edges[j].source \in Past(init, V, C)
             /\ edges[j].target \notin Entered(init, V)
             /\ init.tokens[j] = "none"
  <2> HIDE DEF C
  <2>1. Balanced(edges, s, V, B)
    BY DEF s
  <2>2. j \in Links(edges) /\ edges[j].source = n
    BY DEF OutOf
  <2>3. s.tokens[j] = "none"
    BY <1>3, <2>2, <2>1 DEF Balanced
  <2>4. edges[j].target # Start
    BY <1>3, <2>2, <2>1 DEF Closed, Balanced
  <2>5. edges[j].target \notin Entered(s, V)
    BY <1>3, <2>2, <2>4, <2>1 DEF Balanced
  <2> QED BY <1>1, <1>3, <2>2, <2>3, <2>5
<1>6. /\ A \subseteq O /\ P = O \ A
      /\ A \in SUBSET Links(edges) /\ P \in SUBSET Links(edges)
  BY GraphEdges DEF Activated, Pruned
<1>7. /\ Pending(edges, u) /\ Pending(edges, v)
      /\ \A p \in Range(u) : p[1] \in A
      /\ \A p \in Range(v) : p[1] \in P /\ p[2] = "dead"
      /\ \A j \in A : <<j, "live">> \in Range(u)
      /\ \A j \in P : <<j, "dead">> \in Range(v)
  <2> HIDE DEF A, P
  <2> QED BY <1>6, PendingTokens
<1>8. Pending(edges, u \o v) /\ Range(u \o v) = Range(u) \union Range(v)
  <2> HIDE DEF u, v, A, P
  <2>1. Apart(u, v)
    BY <1>6, <1>7 DEF Apart
  <2> QED BY <1>7, <2>1, PendingJoined, ZenonT(30)
<1>9. Due(edges, init, V, C)
  <2>1. \A p \in Range(init.todo) : p[1] \in O
    <3> HIDE DEF u, v, A, P
    <3> QED BY <1>1, <1>6, <1>7, <1>8
  <2> HIDE DEF u, v, O, C
  <2> QED BY <1>1, <1>2, <1>5, <1>8, <2>1 DEF Due
<1>10. /\ \A p \in Range(init.todo) : p[1] \in A \/ p[2] = "dead"
       /\ \A j \in A : <<j, "live">> \in Range(init.todo)
       /\ \A j \in O \ A : <<j, "dead">> \in Range(init.todo)
  <2> HIDE DEF u, v, A, O, P
  <2> QED BY <1>1, <1>6, <1>7, <1>8
<1> QED BY <1>3, <1>4, <1>5, <1>9, <1>10 DEF init, s

\* complete delivers 2 * Len(edges) times, if so many tokens are due.
LEMMA CompleteDelivers ==
    ASSUME edges \in Graphs, NEW n, NEW branch
    PROVE  \E f : /\ Deliveries(f, Completing(n, branch), 2 * Len(edges))
                 /\ AfterComplete(n, branch) = f[2 * Len(edges)]
<1> DEFINE init == Completing(n, branch)
           m == 2 * Len(edges)
           f == CHOOSE h : Deliveries(h, init, m)
<1>1. m \in Nat
  BY GraphEdges
<1>2. AfterComplete(n, branch) = f[m]
  BY DEF AfterComplete, Deliveries, Completing
<1>3. Deliveries(f, init, m)
  <2> HIDE DEF init, m
  <2> QED BY <1>1, DeliveriesExist
<1> QED BY <1>2, <1>3

\* DagScheduler.complete keeps the balance.
LEMMA CompleteKeeps ==
    ASSUME edges \in Graphs, back = {}, Closed(edges, FromStart(edges)),
           NEW V, NEW B, Balanced(edges, Schedule, V, B), NEW n \in B, B \subseteq V, NEW branch
    PROVE  Balanced(edges, AfterComplete(n, branch), V, B \ {n})
<1> DEFINE m == 2 * Len(edges)
           init == Completing(n, branch)
           C == B \ {n}
<1>1. PICK f : Deliveries(f, init, m) /\ AfterComplete(n, branch) = f[m]
  BY CompleteDelivers
<1>2. Balanced(edges, init, V, C) /\ Due(edges, init, V, C)
  BY CompleteStarts
<1>3. m \in Nat /\ m \in 0..m
  BY GraphEdges
<1>4. Balanced(edges, f[m], V, C)
  <2> HIDE DEF m, init, C
  <2> QED BY <1>1, <1>2, <1>3, DeliveriesKeep
<1> QED BY <1>1, <1>4

\* DagScheduler.complete: the tokens tell of the activated edges too, and all of them
\* have been delivered.
LEMMA CompleteTells ==
    ASSUME edges \in Graphs, back = {}, Closed(edges, FromStart(edges)),
           NEW V, NEW B, Balanced(edges, Schedule, V, B), NEW n \in B, B \subseteq V, NEW branch,
           NEW K, Told(edges, Schedule, {}, V, B, K)
    PROVE  Told(edges, AfterComplete(n, branch), {}, V, B \ {n}, K \union Activated(n, branch))
<1> DEFINE m == 2 * Len(edges)
           init == Completing(n, branch)
           C == B \ {n}
           s == Schedule
           A == Activated(n, branch)
           L == K \union A
           Q == Range(init.todo)
<1>1. PICK f : Deliveries(f, init, m) /\ AfterComplete(n, branch) = f[m]
  BY CompleteDelivers
<1>2. Balanced(edges, init, V, C) /\ Due(edges, init, V, C)
  BY CompleteStarts
<1>3. /\ Past(init, V, C) = Past(s, V, B) \union {n} /\ Entered(init, V) = Entered(s, V)
      /\ \A j \in OutOf(edges, n) : edges[j].target \notin Entered(s, V)
      /\ \A p \in Q : p[1] \in A \/ p[2] = "dead"
      /\ \A j \in A : <<j, "live">> \in Q
      /\ \A j \in OutOf(edges, n) \ A : <<j, "dead">> \in Q
  <2>0. /\ edges \in Graphs /\ back = {} /\ Closed(edges, FromStart(edges))
        /\ Balanced(edges, Schedule, V, B) /\ n \in B /\ B \subseteq V
    OBVIOUS
  <2>1. Entered(init, V) = Entered(s, V)
    BY ONLY DEF Completing, Schedule, Entered
  <2>5. Past(init, V, C) = Past(s, V, B) \union {n}
    <3>1. init.dead = s.dead
      BY ONLY DEF Completing, Schedule
    <3> HIDE DEF init, s
    <3> QED BY ONLY <2>0, <3>1 DEF Past
  <2>2. \A j \in OutOf(edges, n) : edges[j].target \notin Entered(s, V)
    BY CompleteStarts
  <2>3. \A p \in Q : p[1] \in A \/ p[2] = "dead"
    BY CompleteStarts
  <2>4. /\ \A j \in A : <<j, "live">> \in Q
        /\ \A j \in OutOf(edges, n) \ A : <<j, "dead">> \in Q
    BY CompleteStarts
  <2> QED BY <2>1, <2>2, <2>3, <2>4, <2>5
<1>4. init.tokens = s.tokens /\ init.dead = s.dead /\ init.ready = s.ready
  BY DEF Completing, Schedule
<1>5. A \subseteq OutOf(edges, n) /\ A \subseteq Links(edges)
  BY DEF Activated, OutOf
<1>6. Told(edges, s, {}, V, B, K)
  OBVIOUS
<1> HIDE DEF init, s, A, Q, C
<1>7. Told(edges, init, Q, V, C, L)
  <2>1. \A i \in Links(edges) : Given(init, Q, i, "live") => i \in L
    <3> SUFFICES ASSUME NEW i \in Links(edges), Given(init, Q, i, "live"), i \notin A
                 PROVE  i \in K
      OBVIOUS
    <3>1. <<i, "live">> \notin Q
      BY <1>3
    <3>2. s.tokens[i] = "live"
      BY <1>4, <3>1 DEF Given
    <3> QED BY <1>6, <3>2 DEF Told, Given
  <2>2. ASSUME NEW i \in L
        PROVE  /\ edges[i].target \notin init.dead
               /\ edges[i].target \in Entered(init, V) \/ Given(init, Q, i, "live")
    <3>1. CASE i \in A
      BY <1>3, <1>4, <1>5, <3>1 DEF Given, Entered
    <3>2. CASE i \in K
      BY <1>3, <1>4, <1>6, <3>2 DEF Told, Given
    <3> QED BY <3>1, <3>2
  <2>3. /\ Start \in V \union Range(init.ready)
        /\ \A x \in V \union Range(init.ready) : x = Start \/ \E i \in L : edges[i].target = x
    BY <1>4, <1>6 DEF Told
  <2>4. ASSUME NEW i \in Links(edges), edges[i].source \in Past(init, V, C) \ Ends,
               edges[i].target \notin Entered(init, V)
        PROVE  Given(init, Q, i, "live") \/ Given(init, Q, i, "dead")
    <3>1. CASE edges[i].source = n
      <4>1. i \in OutOf(edges, n)
        BY <3>1 DEF OutOf
      <4> QED BY <1>3, <4>1 DEF Given
    <3>2. CASE edges[i].source # n
      <4>1. edges[i].source \in Past(s, V, B) \ Ends /\ edges[i].target \notin Entered(s, V)
        BY <1>3, <2>4, <3>2
      <4>2. Given(s, {}, i, "live") \/ Given(s, {}, i, "dead")
        BY <1>6, <4>1 DEF Told
      <4> QED BY <1>4, <4>2 DEF Given
    <3> QED BY <3>1, <3>2
  <2>5. \A i \in Links(edges) :
            edges[i].target \notin Entered(init, V) =>
               \E j \in Links(edges) :
                  edges[j].target = edges[i].target /\ init.tokens[j] = "none"
    BY <1>3, <1>4, <1>6 DEF Told
  <2>6. L \subseteq Links(edges)
    BY <1>5, <1>6 DEF Told
  <2> HIDE DEF L
  <2> QED BY <2>1, <2>2, <2>3, <2>4, <2>5, <2>6 DEF Told
<1>8. m \in Nat /\ m \in 0..m /\ ~ (m < Len(edges))
  BY GraphEdges
<1>9. Told(edges, f[m], Range(f[m].todo), V, C, L) /\ f[m].todo = <<>>
  <2>1. Told(edges, init, Range(init.todo), V, C, L)
    BY <1>7 DEF Q
  <2> HIDE DEF m, L
  <2> QED BY <1>1, <1>2, <1>8, <2>1, DeliveriesTell
<1>10. Range(<<>>) = {}
  BY DEF Range
<1> HIDE DEF m, L
<1>11. Told(edges, f[m], {}, V, C, L)
  BY <1>9, <1>10
<1> QED BY <1>1, <1>11 DEF C, L, A

\* A sequence without repetitions, without its head.
LEMMA Taken ==
    ASSUME NEW S, NEW s \in Seq(S), s # <<>>, IsInjective(s)
    PROVE  /\ Head(s) \in S /\ Head(s) \in Range(s)
           /\ Tail(s) \in Seq(S) /\ IsInjective(Tail(s))
           /\ Range(Tail(s)) = Range(s) \ {Head(s)}
<1> DEFINE n == Len(s)
           w == Tail(s)
<1>1. /\ n \in Nat /\ n # 0 /\ DOMAIN s = 1..n /\ Head(s) \in S /\ Head(s) = s[1]
      /\ w \in Seq(S) /\ Len(w) = n - 1 /\ \A i \in 1..Len(w) : w[i] = s[i + 1]
  BY EmptySeq, LenProperties, HeadTailProperties
<1>2. DOMAIN w = 1..(n - 1)
  BY <1>1, LenProperties
<1> HIDE DEF n, w
<1>3. /\ 1 \in 1..n /\ \A i \in 1..(n - 1) : i + 1 \in 1..n /\ i + 1 # 1
      /\ \A i \in 1..n : i = 1 \/ (i - 1 \in 1..(n - 1) /\ (i - 1) + 1 = i)
      /\ \A i, j \in 1..(n - 1) : i + 1 = j + 1 => i = j
  BY <1>1
<1>4. \A i \in 1..(n - 1) : w[i] = s[i + 1]
  BY <1>1
<1>5. IsInjective(w)
  <2> SUFFICES ASSUME NEW a \in DOMAIN w, NEW b \in DOMAIN w, w[a] = w[b] PROVE a = b
    BY DEF IsInjective
  <2>1. a + 1 \in DOMAIN s /\ b + 1 \in DOMAIN s /\ s[a + 1] = s[b + 1]
    BY <1>1, <1>2, <1>3, <1>4
  <2>2. a + 1 = b + 1
    BY <2>1 DEF IsInjective
  <2> QED BY <1>2, <1>3, <2>2
<1>6. Range(w) \subseteq Range(s) \ {Head(s)}
  <2> SUFFICES ASSUME NEW a \in DOMAIN w PROVE w[a] \in Range(s) \ {Head(s)}
    BY DEF Range
  <2>1. a + 1 \in DOMAIN s /\ 1 \in DOMAIN s /\ a + 1 # 1 /\ w[a] = s[a + 1]
    BY <1>1, <1>2, <1>3, <1>4
  <2>2. s[a + 1] # s[1]
    BY <2>1 DEF IsInjective
  <2> QED BY <1>1, <2>1, <2>2 DEF Range
<1>7. Range(s) \ {Head(s)} \subseteq Range(w)
  <2> SUFFICES ASSUME NEW i \in DOMAIN s, s[i] # Head(s) PROVE s[i] \in Range(w)
    BY DEF Range
  <2>1. i - 1 \in DOMAIN w /\ w[i - 1] = s[(i - 1) + 1] /\ (i - 1) + 1 = i
    BY <1>1, <1>2, <1>3, <1>4
  <2>2. w[i - 1] = s[i]
    BY <2>1
  <2> QED BY <2>1, <2>2 DEF Range
<1>8. Head(s) \in Range(s)
  BY <1>1, <1>3 DEF Range
<1> QED BY <1>1, <1>5, <1>6, <1>7, <1>8 DEF w

-----------------------------------------------------------------------------
(* The run keeps the scheduler's balance. *)

Visited == {n \in Nodes : visits[n] > 0}
Busy == {t.node : t \in running}

\* On a graph without a back edge a node is visited once, by one task, and no node is
\* ahead of what leads to it.
ScheduleInv ==
    /\ edges \in Graphs
    /\ back = {} =>
          /\ Closed(edges, FromStart(edges)) /\ Ordered(edges, FromStart(edges))
          /\ Balanced(edges, Schedule, Visited, Busy)
          /\ Busy \subseteq Visited
          /\ visits \in [Nodes -> {0, 1}]
          /\ \A t, u \in running : t.node = u.node => t = u

\* The initial state: START is ready, no token is anywhere.
LEMMA InitSchedule == ParallelInit => ScheduleInv
<1> SUFFICES ASSUME ParallelInit, back = {} PROVE ScheduleInv
  BY DEF ParallelInit, ScheduleInv
<1>1. edges \in Graphs /\ Closed(edges, FromStart(edges)) /\ Ordered(edges, FromStart(edges))
  <2>1. edges \in Graphs /\ BackEdges(edges) = {}
    BY DEF ParallelInit
  <2> QED BY <2>1, NoBackEdges
<1>2. Visited = {} /\ Busy = {}
  BY DEF ParallelInit, Visited, Busy
<1>3. /\ Start \in Nodes /\ Start \in FromStart(edges) /\ Schedule.ready = <<Start>>
      /\ Schedule.dead = {} /\ Schedule.tokens = [i \in DOMAIN edges |-> "none"]
  BY <1>1, RunAssumption DEF ParallelInit, Schedule, RunAssumption, Closed
<1>4. /\ <<Start>> \in Seq(Nodes) /\ IsInjective(<<Start>>) /\ Range(<<Start>>) = {Start}
  BY <1>3 DEF IsInjective, Range
<1>5. Entered(Schedule, {}) = {Start}
  BY <1>3, <1>4 DEF Entered
<1>6. \A i \in Links(edges) : Schedule.tokens[i] = "none"
  BY <1>3 DEF Links
<1>7. Balanced(edges, Schedule, {}, {})
  BY <1>3, <1>4, <1>5, <1>6 DEF Balanced
<1>8. visits \in [Nodes -> {0, 1}] /\ running = {}
  BY DEF ParallelInit
<1> QED BY <1>1, <1>2, <1>7, <1>8 DEF ScheduleInv

\* What ends less, or has nothing ready any more, is balanced too.
LEMMA LessBusy ==
    ASSUME NEW g, NEW V, NEW B, NEW s, Balanced(g, s, V, B), NEW C \in SUBSET B,
           NEW e, e.tokens = s.tokens, e.dead = s.dead, e.ready \in {s.ready, <<>>}
    PROVE  Balanced(g, e, V, C)
<1>1. /\ e.ready \in Seq(Nodes) /\ IsInjective(e.ready) /\ Range(e.ready) \subseteq Range(s.ready)
  <2>1. <<>> \in Seq(Nodes) /\ DOMAIN <<>> = {}
    OBVIOUS
  <2> QED BY <2>1 DEF Balanced, IsInjective, Range
<1>2. Past(s, V, B) \subseteq Past(e, V, C) /\ Entered(e, V) \subseteq Entered(s, V)
  BY <1>1 DEF Past, Entered
<1>3. /\ V \intersect Range(e.ready) = {} /\ e.dead \intersect (V \union Range(e.ready)) = {}
      /\ Entered(e, V) \subseteq FromStart(g)
  BY <1>1, <1>2 DEF Balanced
<1> QED BY <1>1, <1>2, <1>3 DEF Balanced

\* Launch: a ready node becomes a visited one that is still to be processed.
Launches(n) ==
    /\ n \in Nodes /\ n \in Range(ready) /\ n \notin Visited /\ n \notin Busy
    /\ ready' \in Seq(Nodes) /\ IsInjective(ready') /\ Range(ready') = Range(ready) \ {n}
    /\ visits' \in [Nodes -> {0, 1}] /\ Visited' = Visited \union {n}
    /\ Busy' = Busy \union {n} /\ \A t, u \in running' : t.node = u.node => t = u
    /\ Past(Schedule', Visited', Busy') = Past(Schedule, Visited, Busy)
    /\ Entered(Schedule', Visited') = Entered(Schedule, Visited)
    /\ Schedule'.tokens = Schedule.tokens /\ Schedule'.dead = Schedule.dead
    /\ Schedule'.ready = ready'

LEMMA LaunchMoves == ScheduleInv /\ Launch /\ back = {} => Launches(Head(ready))
<1> SUFFICES ASSUME ScheduleInv, Launch, back = {} PROVE Launches(Head(ready))
  OBVIOUS
<1>1. edges' = edges /\ back' = back /\ tokens' = tokens /\ dead' = dead
  BY DEF Launch, scheduler
<1> DEFINE n == Head(ready)
<1>2. PICK new : new = [node |-> n, step |-> steps, saw |-> state]
  OBVIOUS
<1>3. /\ running' = running \union {new} /\ new.node = n /\ ready' = Tail(ready) /\ ready # <<>>
      /\ visits' = [visits EXCEPT ![n] = @ + 1]
  BY <1>2 DEF Launch
<1>4. /\ ready \in Seq(Nodes) /\ IsInjective(ready)
      /\ Visited \intersect Range(ready) = {} /\ Busy \subseteq Visited
      /\ visits \in [Nodes -> {0, 1}]
  BY DEF ScheduleInv, Balanced, Schedule
<1>5. /\ n \in Nodes /\ n \in Range(ready) /\ ready' \in Seq(Nodes) /\ IsInjective(ready')
      /\ Range(ready') = Range(ready) \ {n}
  BY <1>3, <1>4, Taken
<1> HIDE DEF n
<1>6. n \notin Visited /\ n \notin Busy /\ visits[n] = 0
  BY <1>4, <1>5 DEF Visited
<1>7. visits' \in [Nodes -> {0, 1}] /\ Visited' = Visited \union {n}
  <2>1. \A x \in Nodes : visits'[x] = IF x = n THEN 1 ELSE visits[x]
    BY <1>3, <1>4, <1>5, <1>6
  <2> QED BY <1>3, <1>4, <1>5, <2>1 DEF Visited
<1>8. Busy' = Busy \union {n} /\ \A t, u \in running' : t.node = u.node => t = u
  <2>1. \A t, u \in running : t.node = u.node => t = u
    BY DEF ScheduleInv
  <2> QED BY <1>3, <1>6, <2>1 DEF Busy
<1>9. /\ Past(Schedule', Visited', Busy') = Past(Schedule, Visited, Busy)
      /\ Entered(Schedule', Visited') = Entered(Schedule, Visited)
      /\ Schedule'.tokens = Schedule.tokens /\ Schedule'.dead = Schedule.dead
      /\ Schedule'.ready = ready'
  BY <1>1, <1>5, <1>6, <1>7, <1>8 DEF Past, Entered, Schedule
<1>10. Launches(n)
  BY <1>5, <1>6, <1>7, <1>8, <1>9 DEF Launches
<1> QED BY <1>10 DEF n

LEMMA LaunchSchedule == ScheduleInv /\ Launch => ScheduleInv'
<1> SUFFICES ASSUME ScheduleInv, Launch PROVE ScheduleInv'
  OBVIOUS
<1>1. edges' = edges /\ back' = back
  BY DEF Launch, scheduler
<1> SUFFICES ASSUME back = {}
             PROVE  /\ Balanced(edges, Schedule', Visited', Busy')
                    /\ Busy' \subseteq Visited'
                    /\ visits' \in [Nodes -> {0, 1}]
                    /\ \A t, u \in running' : t.node = u.node => t = u
  BY <1>1 DEF ScheduleInv
<1>2. PICK n : Launches(n)
  BY LaunchMoves
<1>3. /\ Balanced(edges, Schedule, Visited, Busy) /\ Busy \subseteq Visited
      /\ Schedule.dead = dead /\ Schedule.ready = ready
  BY DEF ScheduleInv, Schedule
<1>4. /\ Visited' \intersect Range(ready') = {}
      /\ dead \intersect (Visited' \union Range(ready')) = {}
  BY <1>2, <1>3 DEF Balanced, Launches
<1>5. Balanced(edges, Schedule', Visited', Busy')
  BY <1>2, <1>3, <1>4 DEF Balanced, Launches
<1> QED BY <1>2, <1>3, <1>5 DEF Launches

\* An aborted run launches nothing more.
LEMMA AbortSchedule ==
    ScheduleInv /\ Abort /\ UNCHANGED <<scheduler, visits>> => ScheduleInv'
<1> SUFFICES ASSUME ScheduleInv, Abort, UNCHANGED <<scheduler, visits>> PROVE ScheduleInv'
  OBVIOUS
<1>1. /\ edges' = edges /\ back' = back /\ tokens' = tokens /\ dead' = dead /\ visits' = visits
      /\ ready' = <<>> /\ running' = {}
  BY DEF Abort, scheduler
<1>2. Visited' = Visited /\ Busy' = {}
  BY <1>1 DEF Visited, Busy
<1>3. ASSUME back = {} PROVE Balanced(edges, Schedule', Visited, {})
  <2>1. /\ Schedule'.tokens = Schedule.tokens /\ Schedule'.dead = Schedule.dead
        /\ Schedule'.ready = <<>>
    BY <1>1 DEF Schedule
  <2>2. Balanced(edges, Schedule, Visited, Busy)
    BY <1>3 DEF ScheduleInv
  <2> QED BY <2>1, <2>2, LessBusy
<1> QED BY <1>1, <1>2, <1>3 DEF ScheduleInv

\* Wait and Finish leave the scheduler and the tasks alone.
LEMMA OthersSchedule ==
    ScheduleInv /\ UNCHANGED <<scheduler, visits, ready, running>> => ScheduleInv'
<1> SUFFICES ASSUME ScheduleInv, UNCHANGED <<scheduler, visits, ready, running>>
             PROVE  ScheduleInv'
  OBVIOUS
<1>1. /\ edges' = edges /\ back' = back /\ visits' = visits /\ running' = running
      /\ Schedule' = Schedule /\ Visited' = Visited /\ Busy' = Busy
  BY DEF scheduler, Schedule, Visited, Busy
<1> QED BY <1>1 DEF ScheduleInv

\* A task that is processed is the only one of its node.
LEMMA ProcessedSchedule ==
    ASSUME ScheduleInv, back = {}, NEW t \in running, running' = running \ {t}, visits' = visits
    PROVE  /\ Visited' = Visited /\ Busy' = Busy \ {t.node} /\ t.node \in Busy
           /\ Busy' \subseteq Visited'
           /\ \A u, w \in running' : u.node = w.node => u = w
BY DEF ScheduleInv, Visited, Busy

\* NodeCompleted: the node is past, its edges have their tokens.
LEMMA CompletedSchedule ==
    ASSUME ScheduleInv, done \subseteq running, NEW t \in done, NodeCompleted(t)
    PROVE  ScheduleInv'
<1>1. /\ edges' = edges /\ back' = back /\ visits' = visits
      /\ t \in running /\ running' = running \ {t}
  BY DEF NodeCompleted, Processed
<1>2. ASSUME back = {} PROVE Balanced(edges, Schedule', Visited', Busy')
  <2>1. PICK branch : LET after == AfterComplete(t.node, branch)
                      IN  tokens' = after.tokens /\ dead' = after.dead /\ ready' = after.ready
    BY DEF NodeCompleted
  <2>2. Visited' = Visited /\ Busy' = Busy \ {t.node} /\ t.node \in Busy
    BY <1>1, <1>2, ProcessedSchedule
  <2> DEFINE after == AfterComplete(t.node, branch)
             n == t.node
  <2>3. Balanced(edges, after, Visited, Busy \ {n})
    <3>1. /\ edges \in Graphs /\ Closed(edges, FromStart(edges)) /\ Busy \subseteq Visited
          /\ Balanced(edges, Schedule, Visited, Busy)
      BY <1>2 DEF ScheduleInv
    <3>2. n \in Busy
      BY <2>2
    <3> QED BY <1>2, <3>1, <3>2, CompleteKeeps
  <2>4. /\ Schedule'.tokens = after.tokens /\ Schedule'.dead = after.dead
        /\ Schedule'.ready = after.ready
    BY <2>1 DEF Schedule
  <2> HIDE DEF after
  <2>5. Balanced(edges, Schedule', Visited, Busy \ {n})
    BY <2>3, <2>4, LessBusy
  <2> QED BY <2>2, <2>5
<1> QED BY <1>1, <1>2, ProcessedSchedule DEF ScheduleInv

\* EndCompleted: the END is past, and gives no token.
LEMMA EndSchedule ==
    ASSUME ScheduleInv, done \subseteq running, NEW t \in done, EndCompleted(t)
    PROVE  ScheduleInv'
<1>1. /\ edges' = edges /\ back' = back /\ visits' = visits /\ Schedule' = Schedule
      /\ t \in running /\ running' = running \ {t}
  BY DEF EndCompleted, Processed, Schedule
<1>2. ASSUME back = {} PROVE Balanced(edges, Schedule', Visited', Busy')
  <2>1. Balanced(edges, Schedule, Visited, Busy)
    BY <1>2 DEF ScheduleInv
  <2>2. Visited' = Visited /\ Busy' \in SUBSET Busy
    BY <1>1, <1>2, ProcessedSchedule
  <2> QED BY <1>1, <2>1, <2>2, LessBusy
<1> QED BY <1>1, <1>2, ProcessedSchedule DEF ScheduleInv

\* Every step of the run keeps the balance.
LEMMA NextSchedule ==
    ScheduleInv /\ done \subseteq running /\ [ParallelNext]_parallelVars => ScheduleInv'
<1> SUFFICES ASSUME ScheduleInv, done \subseteq running, [ParallelNext]_parallelVars
             PROVE  ScheduleInv'
  OBVIOUS
<1>1. CASE Launch
  BY <1>1, LaunchSchedule
<1>2. CASE LimitReached
  BY <1>2, AbortSchedule DEF LimitReached
<1>3. CASE Wait
  BY <1>3, OthersSchedule DEF Wait
<1>4. CASE Timeout
  BY <1>4, AbortSchedule DEF Timeout
<1>5. CASE Finish
  BY <1>5, OthersSchedule DEF Finish
<1>6. ASSUME NEW t \in done, NodeFailed(t) PROVE ScheduleInv'
  BY <1>6, AbortSchedule DEF NodeFailed
<1>7. ASSUME NEW t \in done, NodeCompleted(t) PROVE ScheduleInv'
  BY <1>7, CompletedSchedule
<1>8. ASSUME NEW t \in done, EndCompleted(t) PROVE ScheduleInv'
  BY <1>8, EndSchedule
<1>9. CASE UNCHANGED parallelVars
  BY <1>9, OthersSchedule DEF parallelVars
<1> QED BY <1>1, <1>2, <1>3, <1>4, <1>5, <1>6, <1>7, <1>8, <1>9 DEF ParallelNext

\* A balanced scheduler is ahead of nothing.
LEMMA BalancedWaits == ScheduleInv => JoinWaits
<1> SUFFICES ASSUME ScheduleInv, back = {} PROVE JoinWaits
  BY DEF JoinWaits
<1>1. /\ Closed(edges, FromStart(edges)) /\ Balanced(edges, Schedule, Visited, Busy)
      /\ Busy \subseteq Visited /\ visits \in [Nodes -> {0, 1}]
      /\ Schedule.ready = ready /\ Schedule.dead = dead
  BY DEF ScheduleInv, Schedule
<1>2. \A n \in Nodes : visits[n] <= 1
  BY <1>1
<1>3. ASSUME NEW i \in Links(edges), visits[edges[i].target] > 0,
             edges[i].source \in Range(ready) \union Busy
      PROVE  FALSE
  <2> DEFINE n == edges[i].target
             m == edges[i].source
  <2>1. n \in Visited
    BY <1>3 DEF Visited, Links, Valid
  <2>2. n \in Entered(Schedule, Visited) /\ m \in Entered(Schedule, Visited)
    BY <1>1, <1>3, <2>1 DEF Entered
  <2>3. n # Start
    BY <1>1, <2>2 DEF Closed, Balanced
  <2>4. m \in (Visited \ Busy) \union dead
    BY <1>1, <2>2, <2>3 DEF Balanced, Past
  <2> QED BY <1>1, <1>3, <2>4 DEF Balanced
<1> QED BY <1>2, <1>3 DEF JoinWaits, Busy

\* dag_scheduler.py, on every graph without a back edge: a node is launched once, and
\* only when nothing that leads to it is still to run or running.
THEOREM NodesWaitForTheirInput == ParallelSpec => []JoinWaits
<1>1. NumbersInv => done \subseteq running
  BY DEF NumbersInv
<1>2. NumbersInv /\ ScheduleInv /\ [ParallelNext]_parallelVars => NumbersInv' /\ ScheduleInv'
  BY <1>1, NextNumbers, NextSchedule
<1> QED BY <1>2, InitNumbers, InitSchedule, BalancedWaits, PTL DEF ParallelSpec

-----------------------------------------------------------------------------
(* No branch is lost: a run that is over has run what its nodes have led to. *)

\* The tokens of a run that has not failed tell of the edges its nodes have activated.
BranchInv ==
    back = {} /\ outcome # "failed" => Told(edges, Schedule, {}, Visited, Busy, taken)

\* What is told stays told when no token moves.
LEMMA ToldSame ==
    ASSUME NEW g, NEW V, NEW B, NEW K, NEW s, Told(g, s, {}, V, B, K),
           NEW e, e.tokens = s.tokens, e.dead = s.dead, NEW W, NEW C,
           W \union Range(e.ready) = V \union Range(s.ready), Entered(e, W) = Entered(s, V),
           Past(e, W, C) \ Ends \subseteq Past(s, V, B)
    PROVE  Told(g, e, {}, W, C, K)
BY DEF Told, Given

\* The initial state: only START is entered, no token is given.
LEMMA InitBranch == ParallelInit /\ ScheduleInv => BranchInv
<1> SUFFICES ASSUME ParallelInit, ScheduleInv, back = {}
             PROVE  Told(edges, Schedule, {}, Visited, Busy, taken)
  BY DEF BranchInv
<1>1. /\ Visited = {} /\ Busy = {} /\ taken = {}
      /\ Schedule.ready = <<Start>> /\ Schedule.dead = {}
      /\ Schedule.tokens = [i \in DOMAIN edges |-> "none"]
  BY DEF ParallelInit, Visited, Busy, Schedule
<1>2. Range(Schedule.ready) = {Start}
  BY <1>1 DEF Range
<1>3. Entered(Schedule, {}) = {Start} /\ Past(Schedule, {}, {}) = {}
  BY <1>1, <1>2 DEF Entered, Past
<1>4. \A i \in Links(edges) : Schedule.tokens[i] = "none"
  BY <1>1 DEF Links
<1> QED BY <1>1, <1>2, <1>3, <1>4 DEF Told, Given

\* Launch: the node stays entered.
LEMMA LaunchBranch == BranchInv /\ ScheduleInv /\ NumbersInv /\ Launch => BranchInv'
<1> SUFFICES ASSUME BranchInv, ScheduleInv, NumbersInv, Launch, back = {}
             PROVE  Told(edges, Schedule', {}, Visited', Busy', taken)
  BY DEF BranchInv, Launch, scheduler
<1>1. outcome # "failed"
  BY DEF Launch, NumbersInv
<1>2. Told(edges, Schedule, {}, Visited, Busy, taken)
  BY <1>1 DEF BranchInv
<1>3. PICK n : Launches(n)
  BY LaunchMoves
<1>4. Visited' \union Range(Schedule'.ready) = Visited \union Range(Schedule.ready)
  BY <1>3 DEF Launches, Schedule
<1> QED BY <1>2, <1>3, <1>4, ToldSame DEF Launches

\* Wait and Finish move no token.
LEMMA OthersBranch ==
    BranchInv /\ UNCHANGED <<scheduler, visits, ready, running, taken>>
        /\ (outcome' = "failed" \/ outcome # "failed") => BranchInv'
<1> SUFFICES ASSUME BranchInv, UNCHANGED <<scheduler, visits, ready, running, taken>>,
                    outcome' = "failed" \/ outcome # "failed"
             PROVE  BranchInv'
  OBVIOUS
<1>1. /\ edges' = edges /\ back' = back /\ taken' = taken
      /\ Schedule' = Schedule /\ Visited' = Visited /\ Busy' = Busy
  BY DEF scheduler, Schedule, Visited, Busy
<1> QED BY <1>1 DEF BranchInv

\* NodeCompleted: its edges have been activated, and their tokens delivered.
LEMMA CompletedBranch ==
    ASSUME BranchInv, ScheduleInv, NumbersInv, NEW t \in done, NodeCompleted(t)
    PROVE  BranchInv'
<1>1. /\ edges' = edges /\ back' = back /\ visits' = visits
      /\ t \in running /\ running' = running \ {t} /\ outcome # "failed"
  BY DEF NodeCompleted, Processed, NumbersInv
<1> SUFFICES ASSUME back = {} PROVE Told(edges, Schedule', {}, Visited', Busy', taken')
  BY <1>1 DEF BranchInv
<1>2. PICK branch : LET after == AfterComplete(t.node, branch)
                    IN  /\ tokens' = after.tokens /\ dead' = after.dead /\ ready' = after.ready
                        /\ taken' = taken \union Activated(t.node, branch)
  BY DEF NodeCompleted
<1>3. Visited' = Visited /\ Busy' = Busy \ {t.node} /\ t.node \in Busy
  BY <1>1, ProcessedSchedule
<1> DEFINE after == AfterComplete(t.node, branch)
           n == t.node
           K == taken \union Activated(n, branch)
<1>4. Told(edges, after, {}, Visited, Busy \ {n}, K)
  <2>1. /\ edges \in Graphs /\ Closed(edges, FromStart(edges)) /\ Busy \subseteq Visited
        /\ Balanced(edges, Schedule, Visited, Busy)
    BY DEF ScheduleInv
  <2>2. n \in Busy /\ Told(edges, Schedule, {}, Visited, Busy, taken)
    BY <1>1, <1>3 DEF BranchInv
  <2> QED BY <2>1, <2>2, CompleteTells
<1>5. /\ Schedule'.tokens = after.tokens /\ Schedule'.dead = after.dead
      /\ Schedule'.ready = after.ready /\ taken' = K
  BY <1>2 DEF Schedule
<1> HIDE DEF after, K
<1>6. Told(edges, Schedule', {}, Visited, Busy \ {n}, K)
  <2>1. /\ Entered(Schedule', Visited) = Entered(after, Visited)
        /\ Past(Schedule', Visited, Busy \ {n}) = Past(after, Visited, Busy \ {n})
    BY <1>5 DEF Entered, Past
  <2> QED BY <1>4, <1>5, <2>1, ToldSame
<1> QED BY <1>3, <1>5, <1>6

\* EndCompleted: an END gives no token.
LEMMA EndBranch ==
    ASSUME BranchInv, ScheduleInv, NumbersInv, NEW t \in done, EndCompleted(t)
    PROVE  BranchInv'
<1>1. /\ edges' = edges /\ back' = back /\ visits' = visits /\ Schedule' = Schedule
      /\ t \in running /\ running' = running \ {t} /\ outcome # "failed" /\ taken' = taken
      /\ t.node \in Ends
  BY DEF EndCompleted, Processed, Schedule, NumbersInv
<1> SUFFICES ASSUME back = {} PROVE Told(edges, Schedule, {}, Visited', Busy', taken)
  BY <1>1 DEF BranchInv
<1>2. Told(edges, Schedule, {}, Visited, Busy, taken)
  BY <1>1 DEF BranchInv
<1>3. Visited' = Visited /\ Busy' = Busy \ {t.node}
  BY <1>1, ProcessedSchedule
<1>4. Past(Schedule, Visited, Busy \ {t.node}) \ Ends \subseteq Past(Schedule, Visited, Busy)
  BY <1>1 DEF Past
<1>5. Told(edges, Schedule, {}, Visited, Busy \ {t.node}, taken)
  BY <1>2, <1>4, ToldSame
<1> QED BY <1>3, <1>5

\* Every step: an aborted run is out of it, whatever happens to its tokens.
LEMMA NextBranch ==
    BranchInv /\ ScheduleInv /\ NumbersInv /\ [ParallelNext]_parallelVars => BranchInv'
<1> SUFFICES ASSUME BranchInv, ScheduleInv, NumbersInv, [ParallelNext]_parallelVars
             PROVE  BranchInv'
  OBVIOUS
<1>1. CASE Launch
  BY <1>1, LaunchBranch
<1>2. CASE LimitReached
  BY <1>2 DEF LimitReached, Abort, BranchInv
<1>3. CASE Wait
  <2>1. outcome' = "failed" \/ outcome # "failed"
    BY <1>3 DEF Wait
  <2> QED BY <1>3, <2>1, OthersBranch DEF Wait
<1>4. CASE Timeout
  BY <1>4 DEF Timeout, Abort, BranchInv
<1>5. CASE Finish
  BY <1>5, OthersBranch DEF Finish
<1>6. ASSUME NEW t \in done, NodeFailed(t) PROVE BranchInv'
  BY <1>6 DEF NodeFailed, Abort, BranchInv
<1>7. ASSUME NEW t \in done, NodeCompleted(t) PROVE BranchInv'
  BY <1>7, CompletedBranch
<1>8. ASSUME NEW t \in done, EndCompleted(t) PROVE BranchInv'
  BY <1>8, EndBranch
<1>9. CASE UNCHANGED parallelVars
  BY <1>9, OthersBranch DEF parallelVars
<1> QED BY <1>1, <1>2, <1>3, <1>4, <1>5, <1>6, <1>7, <1>8, <1>9 DEF ParallelNext

\* On a graph where every edge that gates a node of the run is of a node of the run, a
\* run that is over has entered all that START leads to: the first node it has not, in
\* the order of the search, would have all its tokens.
LEMMA AllEntered ==
    ASSUME NEW g, Ordered(g, FromStart(g)), Stray(g) = {},
           NEW V, NEW s, Balanced(g, s, V, {}), NEW K, Told(g, s, {}, V, {}, K),
           Range(s.ready) = {}
    PROVE  Entered(s, V) = FromStart(g) /\ Past(s, V, {}) = FromStart(g) /\ Start \in V
<1> DEFINE F == FromStart(g)
           E == Entered(s, V)
           X == F \ E
<1>1. Past(s, V, {}) = E /\ E \subseteq F /\ Start \in V /\ Start \in E
  BY DEF Past, Entered, Balanced, Told
<1>2. ASSUME X # {} PROVE FALSE
  <2>1. PICK n \in X : \A i \in Links(g) : g[i].target = n => g[i].source \notin X
    <3>1. X \in SUBSET F
      OBVIOUS
    <3> HIDE DEF X
    <3> QED BY <1>2, <3>1 DEF Ordered
  <2>2. PICK i \in Links(g) : g[i].target = n
    <3> SUFFICES ASSUME \A i \in Links(g) : g[i].target # n PROVE FALSE
      OBVIOUS
    <3>1. F \ {n} \in SUBSET Nodes /\ Start \in F \ {n}
      BY <1>1, StartLeads
    <3>2. \A i \in Links(g) : g[i].source \in F \ {n} => g[i].target \in F \ {n}
      BY StartLeads
    <3>3. F \subseteq F \ {n}
      <4> DEFINE R == F \ {n}
      <4>1. R \in SUBSET Nodes /\ Start \in R
            /\ \A i \in Links(g) : g[i].source \in R => g[i].target \in R
        BY <3>1, <3>2
      <4> HIDE DEF R
      <4>2. F \subseteq R
        BY <4>1, StartLeads
      <4> QED BY <4>2 DEF R
    <3> QED BY <3>3
  <2>3. PICK j \in Links(g) : g[j].target = n /\ s.tokens[j] = "none"
    BY <2>1, <2>2 DEF Told
  <2>4. g[j].source \in F \ Ends
    BY <2>1, <2>3 DEF Stray
  <2>5. g[j].source \in Past(s, V, {}) \ Ends /\ n \notin E
    BY <1>1, <2>1, <2>3, <2>4
  <2>6. Given(s, {}, j, "live") \/ Given(s, {}, j, "dead")
    BY <2>3, <2>5 DEF Told
  <2> QED BY <2>3, <2>6 DEF Given
<1> QED BY <1>1, <1>2

\* The graph and its back edges stay what they were.
GraphInv == edges \in Graphs /\ back = BackEdges(edges)

LEMMA NextLoops == GraphInv /\ [ParallelNext]_parallelVars => GraphInv'
<1>1. [ParallelNext]_parallelVars => edges' = edges /\ back' = back
  BY DEF ParallelNext, Launch, LimitReached, Wait, Timeout, Finish, NodeFailed, NodeCompleted,
         EndCompleted, Processed, parallelVars, scheduler
<1> QED BY <1>1 DEF GraphInv

\* A run without a back edge that is completed has run what its nodes have led to.
LEMMA CompletedIsWhole ==
    ASSUME BranchInv, ScheduleInv, NumbersInv, back = {} PROVE LiveBranchesRun
<1> SUFFICES ASSUME outcome = "completed", Stray(edges) = {}
             PROVE  Visited = {Start} \union {edges[i].target : i \in taken}
  BY DEF LiveBranchesRun, Visited
<1> DEFINE s == Schedule
<1>1. Busy = {} /\ Range(s.ready) = {}
  BY DEF NumbersInv, Busy, Schedule, Range
<1>2. /\ Ordered(edges, FromStart(edges)) /\ Balanced(edges, s, Visited, {})
      /\ Told(edges, s, {}, Visited, {}, taken)
  BY <1>1 DEF ScheduleInv, BranchInv
<1> HIDE DEF s
<1>3. /\ Entered(s, Visited) = FromStart(edges) /\ Past(s, Visited, {}) = FromStart(edges)
      /\ Start \in Visited
  BY <1>1, <1>2, AllEntered
<1>4. FromStart(edges) = Visited \union s.dead
  BY <1>1, <1>3 DEF Entered
<1>5. ASSUME NEW i \in taken PROVE edges[i].target \in Visited
  <2>1. /\ i \in Links(edges) /\ edges[i].target \notin s.dead
        /\ edges[i].target \in Entered(s, Visited) \/ s.tokens[i] = "live"
    BY <1>2 DEF Told, Given
  <2>2. ASSUME s.tokens[i] = "live" PROVE edges[i].target \in FromStart(edges)
    <3>1. edges[i].source \in FromStart(edges)
      BY <1>2, <1>3, <2>1, <2>2 DEF Balanced
    <3> QED BY <2>1, <3>1, StartLeads
  <2> QED BY <1>3, <1>4, <2>1, <2>2
<1>6. \A n \in Visited : n = Start \/ \E i \in taken : edges[i].target = n
  BY <1>2 DEF Told
<1> QED BY <1>3, <1>5, <1>6

\* dag_scheduler.py, on every graph that detect_join_in_loop is silent on, with no loop
\* through START and no stray edge: the pruning of branches leaves no join waiting. A
\* completed run has run START and the target of every edge that a finished node has
\* activated, and nothing else. Such a graph has no back edge.
THEOREM NoBranchIsLost == ParallelSpec => []LiveBranchesRun
<1> DEFINE Whole == NumbersInv /\ ScheduleInv /\ BranchInv /\ GraphInv
<1>1. ParallelInit => Whole
  <2>1. ParallelInit => GraphInv
    BY DEF ParallelInit, GraphInv
  <2> QED BY <2>1, InitNumbers, InitSchedule, InitBranch
<1>2. Whole /\ [ParallelNext]_parallelVars => Whole'
  <2>1. NumbersInv => done \subseteq running
    BY DEF NumbersInv
  <2> QED BY <2>1, NextNumbers, NextSchedule, NextBranch, NextLoops
<1>3. Whole => LiveBranchesRun
  <2>1. CASE back = {}
    BY <2>1, CompletedIsWhole
  <2>2. CASE back # {}
    BY <2>2, LoopsAreWarnedOf DEF GraphInv, LiveBranchesRun
  <2> QED BY <2>1, <2>2
<1> QED BY <1>1, <1>2, <1>3, PTL DEF ParallelSpec

-----------------------------------------------------------------------------
(* Two ENDs of one run lie behind different branches of one AND-split: every two *)
(* threads of the run have parted at an AND-split that leads to both.            *)

\* Different targets of a node that is no CONDITION lead to x and to y.
Parted(g, x, y) ==
    \E m \in Nodes \ Routers : \E t, u \in Targets(g, m) :
        t # u /\ x \in Reachable(g, {t}) /\ y \in Reachable(g, {u})

\* The threads of a run, each with the node it has come to: a node to launch, by the step
\* it will get when k have been launched; a task of T that is no END; a live token on an
\* edge, or one of Q on its way there; an END of E, those that have been visited.
Queue(q, k) == {<<"step", k + a, q[a]>> : a \in DOMAIN q}
AtWork(T) == {<<"step", t.step + 1, t.node>> : t \in {u \in T : u.node \notin Ends}}
Laid(g, f) == {<<"token", i, g[i].target>> : i \in {j \in Links(g) : f[j] = "live"}}
Sent(g, Q) == {<<"due", i, g[i].target>> : i \in {j \in Links(g) : <<j, "live">> \in Q}}
AtEnd(E) == {<<"end", n, n>> : n \in E}

Threads(g, s, Q, k, T, E) ==
    Queue(s.ready, k) \union AtWork(T) \union Laid(g, s.tokens) \union Sent(g, Q)
        \union AtEnd(E)

LEMMA Kinds ==
    /\ \A q, k : \A z \in Queue(q, k) : z[1] = "step"
    /\ \A T : \A z \in AtWork(T) : z[1] = "step"
    /\ \A f : \A z \in Laid(edges, f) : z[1] = "token"
    /\ \A Q : \A z \in Sent(edges, Q) : z[1] = "due" /\ \E i : <<i, "live">> \in Q
    /\ \A E : \A z \in AtEnd(E) : z[1] = "end"
<1>1. \A q, k : \A z \in Queue(q, k) : z[1] = "step"
  BY DEF Queue
<1>2. \A T : \A z \in AtWork(T) : z[1] = "step"
  BY DEF AtWork
<1>3. \A f : \A z \in Laid(edges, f) : z[1] = "token"
  BY DEF Laid
<1>4. ASSUME NEW Q, NEW z \in Sent(edges, Q) PROVE z[1] = "due" /\ \E i : <<i, "live">> \in Q
  <2>1. PICK i \in {j \in Links(edges) : <<j, "live">> \in Q} : z = <<"due", i, edges[i].target>>
    BY DEF Sent
  <2> QED BY <2>1
<1>5. \A E : \A z \in AtEnd(E) : z[1] = "end"
  BY DEF AtEnd
<1> QED BY <1>1, <1>2, <1>3, <1>4, <1>5

Untangled(g, S) == \A p, q \in S : p # q => Parted(g, p[3], q[3])

\* An edge, or none, leads from x to y.
Leads(g, x, y) == y = x \/ \E i \in Links(g) : g[i].source = x /\ g[i].target = y

LEMMA PartedSame == ASSUME NEW g, NEW x, NEW y, Parted(g, x, y) PROVE Parted(g, y, x)
BY DEF Parted

\* Where two nodes have parted, what one of them leads to has parted too.
LEMMA PartedLeads ==
    ASSUME NEW g, NEW x, NEW y, NEW z, Parted(g, x, y), Leads(g, x, z)
    PROVE  Parted(g, z, y)
<1>1. CASE z = x
  BY <1>1
<1>2. CASE \E i \in Links(g) : g[i].source = x /\ g[i].target = z
  <2>1. PICK i \in Links(g) : g[i].source = x /\ g[i].target = z
    BY <1>2
  <2>2. PICK m \in Nodes \ Routers : \E t, u \in Targets(g, m) :
            t # u /\ x \in Reachable(g, {t}) /\ y \in Reachable(g, {u})
    BY DEF Parted
  <2>3. PICK t \in Targets(g, m), u \in Targets(g, m) :
            t # u /\ x \in Reachable(g, {t}) /\ y \in Reachable(g, {u})
    BY <2>2
  <2>4. z \in Reachable(g, {t})
    BY <2>1, <2>3, ReachableLeads
  <2> QED BY <2>3, <2>4 DEF Parted
<1> QED BY <1>1, <1>2 DEF Leads

\* One thread z goes on, or splits into D; some may end.
LEMMA Moves ==
    ASSUME NEW g, NEW S, Untangled(g, S), NEW z \in S,
           NEW D, Untangled(g, D), \A d \in D : Leads(g, z[3], d[3]),
           NEW N, N \subseteq (S \ {z}) \union D
    PROVE  Untangled(g, N)
<1>1. ASSUME NEW p \in S \ {z}, NEW d \in D PROVE Parted(g, d[3], p[3])
  <2>1. Parted(g, z[3], p[3])
    BY DEF Untangled
  <2> QED BY <2>1, PartedLeads
<1>2. ASSUME NEW p \in N, NEW q \in N, p # q PROVE Parted(g, p[3], q[3])
  <2>1. CASE p \in S \ {z} /\ q \in S \ {z}
    BY <1>2, <2>1 DEF Untangled
  <2>2. CASE p \in D /\ q \in D
    BY <1>2, <2>2 DEF Untangled
  <2>3. CASE p \in D /\ q \in S \ {z}
    BY <1>1, <2>3
  <2>4. CASE p \in S \ {z} /\ q \in D
    BY <1>1, <2>4, PartedSame
  <2> QED BY <2>1, <2>2, <2>3, <2>4
<1> QED BY <1>2 DEF Untangled

LEMMA Ended ==
    ASSUME NEW g, NEW S, Untangled(g, S), NEW N, N \subseteq S PROVE Untangled(g, N)
BY DEF Untangled

LEMMA OneAlone == \A g, z : Untangled(g, {z})
BY DEF Untangled

\* A live token is pending once.
Once(todo) == \A a, b \in DOMAIN todo : todo[a] = todo[b] /\ todo[a][2] = "live" => a = b

\* What Deliver works on, on any graph: no dead token is for a back edge.
Loose(s) ==
    /\ IsSchedule(s)
    /\ s.tokens \in [DOMAIN edges -> {"none", "live", "dead"}]
    /\ s.ready \in Seq(Nodes)
    /\ s.todo \in Seq(Links(edges) \X {"live", "dead"}) /\ Once(s.todo)
    /\ \A p \in Range(s.todo) : p[1] \in back => p[2] = "live"

\* The first of the pending tokens, and the others.
LEMMA LooseNext ==
    ASSUME NEW s, Loose(s), s.todo # <<>>
    PROVE  /\ Head(s.todo) \in Range(s.todo) /\ Head(s.todo) \in Links(edges) \X {"live", "dead"}
           /\ Tail(s.todo) \in Seq(Links(edges) \X {"live", "dead"}) /\ Once(Tail(s.todo))
           /\ Range(Tail(s.todo)) \subseteq Range(s.todo)
           /\ Head(s.todo)[2] = "live" => Head(s.todo) \notin Range(Tail(s.todo))
<1> DEFINE T == Links(edges) \X {"live", "dead"}
           todo == s.todo
           w == Tail(todo)
           n == Len(todo)
<1>1. todo \in Seq(T) /\ todo # <<>> /\ Once(todo)
  BY DEF Loose
<1> HIDE DEF T, todo
<1>2. /\ Head(todo) \in T /\ w \in Seq(T) /\ Len(w) = n - 1
      /\ \A i \in 1..Len(w) : w[i] = todo[i + 1]
      /\ n \in Nat /\ n # 0 /\ DOMAIN todo = 1..n /\ Head(todo) = todo[1]
  BY <1>1, HeadTailProperties, EmptySeq, LenProperties
<1>3. DOMAIN w = 1..(n - 1)
  BY <1>2, LenProperties
<1> HIDE DEF w, n
<1>4. \A i \in 1..(n - 1) : w[i] = todo[i + 1]
  BY <1>2
<1>5. 1 \in 1..n /\ \A i \in 1..(n - 1) : i + 1 \in 1..n /\ i + 1 # 1
  BY <1>2
<1>6. \A i, j \in 1..(n - 1) : i + 1 = j + 1 => i = j
  BY <1>2
<1>7. ASSUME NEW a \in DOMAIN w, NEW b \in DOMAIN w, w[a] = w[b], w[a][2] = "live"
      PROVE  a = b
  <2>1. a + 1 \in DOMAIN todo /\ b + 1 \in DOMAIN todo /\ todo[a + 1] = todo[b + 1]
        /\ todo[a + 1][2] = "live"
    BY <1>2, <1>3, <1>5, <1>7, <1>4
  <2>2. a + 1 = b + 1
    BY <1>1, <2>1 DEF Once
  <2> QED BY <1>3, <1>6, <2>2
<1>8. ASSUME NEW p \in Range(w)
      PROVE  p \in Range(todo) /\ (p = Head(todo) => p[2] # "live")
  <2>1. PICK a \in DOMAIN w : p = w[a]
    BY DEF Range
  <2>2. a + 1 \in DOMAIN todo /\ p = todo[a + 1] /\ a + 1 # 1 /\ 1 \in DOMAIN todo
    BY <1>2, <1>3, <1>5, <1>4, <2>1
  <2> QED BY <1>1, <1>2, <2>2 DEF Range, Once
<1>9. Head(todo) \in Range(todo)
  BY <1>2, <1>5 DEF Range
<1>10. Once(w)
  BY <1>7 DEF Once
<1> QED BY <1>2, <1>8, <1>9, <1>10 DEF T, w, todo

\* The threads while tokens are delivered.
ThreadsOf(s, k, T, E) == Threads(edges, s, Range(s.todo), k, T, E)

\* _maybe_fire: the token is put down.
LEMMA HeldThreads ==
    ASSUME NEW s, Loose(s), s.todo # <<>>, NEW k, NEW T, NEW E,
           Untangled(edges, ThreadsOf(s, k, T, E)),
           NEW i, i = Head(s.todo)[1], NEW given, Puts(s, given),
           NEW e, e.tokens = given, e.ready = s.ready, e.todo = Tail(s.todo)
    PROVE  Untangled(edges, ThreadsOf(e, k, T, E))
<1> DEFINE S == ThreadsOf(s, k, T, E)
           N == ThreadsOf(e, k, T, E)
           n == edges[i].target
           z == <<"due", i, n>>
           r == <<"token", i, n>>
           P == Range(s.todo)
           Q == Range(Tail(s.todo))
<1>1. /\ i \in Links(edges) /\ Head(s.todo) \in P
      /\ Q \subseteq P /\ (Head(s.todo)[2] = "live" => Head(s.todo) \notin Q)
      /\ Head(s.todo) \in Links(edges) \X {"live", "dead"}
  BY LooseNext
<1>2. Head(s.todo) = <<i, Head(s.todo)[2]>>
  BY <1>1
<1>3. \A j \in Links(edges) : given[j] = IF j = i THEN Head(s.todo)[2] ELSE s.tokens[j]
  BY DEF Puts, Loose, Links
<1> HIDE DEF P, Q
<1>4. /\ S = Queue(s.ready, k) \union AtWork(T) \union Laid(edges, s.tokens) \union Sent(edges, P)
               \union AtEnd(E)
      /\ N = Queue(s.ready, k) \union AtWork(T) \union Laid(edges, given) \union Sent(edges, Q)
               \union AtEnd(E)
  BY DEF ThreadsOf, Threads, P, Q
<1> HIDE DEF S, N
<1>5. CASE Head(s.todo)[2] = "live"
  <2>1. z \in Sent(edges, P) /\ z \notin Sent(edges, Q)
    BY <1>1, <1>2, <1>5 DEF Sent
  <2>2. Sent(edges, Q) \subseteq Sent(edges, P)
    BY <1>1 DEF Sent
  <2>3. Laid(edges, given) \subseteq Laid(edges, s.tokens) \union {r}
    BY <1>3 DEF Laid
  <2>4. z[1] = "due" /\ z[3] = n /\ r[1] = "token" /\ r[3] = n
    OBVIOUS
  <2> HIDE DEF z, r
  <2>5. z \in S /\ N \subseteq (S \ {z}) \union {r}
    BY <1>4, <2>1, <2>2, <2>3, <2>4, Kinds
  <2>6. \A d \in {r} : Leads(edges, z[3], d[3])
    BY <2>4 DEF Leads
  <2>7. Untangled(edges, S) /\ Untangled(edges, {r})
    BY OneAlone DEF S
  <2> QED BY <2>5, <2>6, <2>7, Moves DEF N
<1>6. CASE Head(s.todo)[2] # "live"
  <2>1. Sent(edges, Q) \subseteq Sent(edges, P)
    BY <1>1 DEF Sent
  <2>2. Laid(edges, given) \subseteq Laid(edges, s.tokens)
    BY <1>3, <1>6 DEF Laid
  <2>3. N \subseteq S
    BY <1>4, <2>1, <2>2
  <2> QED BY <2>3, Ended DEF S, N
<1> QED BY <1>5, <1>6

\* A ready node at the end of the queue.
LEMMA QueueLonger ==
    ASSUME NEW q \in Seq(Nodes), NEW n \in Nodes, NEW k
    PROVE  Queue(Append(q, n), k) = Queue(q, k) \union {<<"step", k + (Len(q) + 1), n>>}
<1> DEFINE m == Len(q) + 1
           w == Append(q, n)
<1>1. DOMAIN w = DOMAIN q \union {m} /\ w[m] = n /\ \A a \in DOMAIN q : w[a] = q[a]
  <2>1. /\ w \in Seq(Nodes) /\ Len(w) = Len(q) + 1
        /\ \A a \in 1..Len(q) : w[a] = q[a]
        /\ w[Len(q) + 1] = n
    BY AppendProperties
  <2>2. Len(q) \in Nat /\ DOMAIN q = 1..Len(q)
    BY LenProperties
  <2>3. DOMAIN w = 1..(Len(q) + 1)
    BY <2>1, LenProperties
  <2>4. \A c \in Nat : 1..(c + 1) = (1..c) \union {c + 1}
    OBVIOUS
  <2> HIDE DEF w
  <2> QED BY <2>1, <2>2, <2>3, <2>4
<1> HIDE DEF m, w
<1>2. Queue(w, k) = Queue(q, k) \union {<<"step", k + m, n>>}
  BY <1>1 DEF Queue
<1> QED BY <1>2 DEF m, w

\* _maybe_fire: a live token has reached n, and goes on as a node to launch.
LEMMA ReadyThreads ==
    ASSUME NEW s, Loose(s), s.todo # <<>>, NEW k, NEW T, NEW E,
           Untangled(edges, ThreadsOf(s, k, T, E)),
           NEW i, i = Head(s.todo)[1], NEW n, n = edges[i].target,
           NEW e, e.ready = Append(s.ready, n), e.todo = Tail(s.todo),
           \A j \in Links(edges) : e.tokens[j] = "live" => s.tokens[j] = "live",
           \/ Head(s.todo)[2] = "live"
           \/ \E j \in Links(edges) :
                 edges[j].target = n /\ s.tokens[j] = "live" /\ e.tokens[j] # "live"
    PROVE  Untangled(edges, ThreadsOf(e, k, T, E))
<1> DEFINE S == ThreadsOf(s, k, T, E)
           N == ThreadsOf(e, k, T, E)
           P == Range(s.todo)
           Q == Range(Tail(s.todo))
           r == <<"step", k + (Len(s.ready) + 1), n>>
<1>1. /\ i \in Links(edges) /\ Head(s.todo) \in P
      /\ Q \subseteq P /\ (Head(s.todo)[2] = "live" => Head(s.todo) \notin Q)
      /\ Head(s.todo) \in Links(edges) \X {"live", "dead"}
  BY LooseNext
<1>2. Head(s.todo) = <<i, Head(s.todo)[2]>>
  BY <1>1
<1>3. Queue(e.ready, k) = Queue(s.ready, k) \union {r}
  <2>1. s.ready \in Seq(Nodes) /\ n \in Nodes
    BY <1>1 DEF Loose, Links, Valid
  <2> QED BY <2>1, QueueLonger
<1>4. r[1] = "step" /\ r[3] = n
  OBVIOUS
<1> HIDE DEF P, Q, r
<1>5. /\ S = Queue(s.ready, k) \union AtWork(T) \union Laid(edges, s.tokens) \union Sent(edges, P)
               \union AtEnd(E)
      /\ N = Queue(s.ready, k) \union {r} \union AtWork(T) \union Laid(edges, e.tokens)
               \union Sent(edges, Q)
               \union AtEnd(E)
  BY <1>3 DEF ThreadsOf, Threads, P, Q
<1>6. /\ Laid(edges, e.tokens) \subseteq Laid(edges, s.tokens)
      /\ Sent(edges, Q) \subseteq Sent(edges, P)
  BY <1>1 DEF Laid, Sent
<1> HIDE DEF S, N
<1>7. PICK z : z \in S /\ z[3] = n /\ N \subseteq (S \ {z}) \union {r}
  <2>1. CASE Head(s.todo)[2] = "live"
    <3> DEFINE z == <<"due", i, n>>
    <3>1. z \in Sent(edges, P) /\ z \notin Sent(edges, Q)
      BY <1>1, <1>2, <2>1 DEF Sent
    <3>2. z[1] = "due" /\ z[3] = n
      OBVIOUS
    <3> HIDE DEF z
    <3>3. z \in S /\ N \subseteq (S \ {z}) \union {r}
      BY <1>5, <1>6, <3>1, <3>2, Kinds
    <3> QED BY <3>2, <3>3
  <2>2. CASE \E j \in Links(edges) :
                edges[j].target = n /\ s.tokens[j] = "live" /\ e.tokens[j] # "live"
    <3>1. PICK j \in Links(edges) :
              edges[j].target = n /\ s.tokens[j] = "live" /\ e.tokens[j] # "live"
      BY <2>2
    <3> DEFINE z == <<"token", j, n>>
    <3>2. z \in Laid(edges, s.tokens) /\ z \notin Laid(edges, e.tokens)
      BY <3>1 DEF Laid
    <3>3. z[1] = "token" /\ z[3] = n
      OBVIOUS
    <3> HIDE DEF z
    <3>4. z \in S /\ N \subseteq (S \ {z}) \union {r}
      BY <1>5, <1>6, <3>2, <3>3, Kinds
    <3> QED BY <3>3, <3>4
  <2> QED BY <2>1, <2>2
<1>8. \A d \in {r} : Leads(edges, z[3], d[3])
  BY <1>4, <1>7 DEF Leads
<1>9. Untangled(edges, S) /\ Untangled(edges, {r})
  BY OneAlone DEF S
<1> QED BY <1>7, <1>8, <1>9, Moves DEF N

\* _propagate_dead: no live token comes into being.
LEMMA DeadThreads ==
    ASSUME NEW s, NEW k, NEW T, NEW E, Untangled(edges, ThreadsOf(s, k, T, E)),
           NEW e, e.ready = s.ready,
           \A j \in Links(edges) : e.tokens[j] = "live" => s.tokens[j] = "live",
           \A j : <<j, "live">> \in Range(e.todo) => <<j, "live">> \in Range(s.todo)
    PROVE  Untangled(edges, ThreadsOf(e, k, T, E))
<1>1. /\ Laid(edges, e.tokens) \subseteq Laid(edges, s.tokens)
      /\ Sent(edges, Range(e.todo)) \subseteq Sent(edges, Range(s.todo))
  BY DEF Laid, Sent
<1>2. ThreadsOf(e, k, T, E) \subseteq ThreadsOf(s, k, T, E)
  BY <1>1 DEF ThreadsOf, Threads
<1> QED BY <1>2, Ended

\* Dead tokens before the others: every live one is still pending once.
LEMMA OnceAfterDead ==
    ASSUME NEW X, NEW u \in Seq(X), NEW v \in Seq(X), Once(v), \A p \in Range(u) : p[2] = "dead"
    PROVE  u \o v \in Seq(X) /\ Once(u \o v) /\ Range(u \o v) = Range(u) \union Range(v)
<1> DEFINE w == u \o v
           m == Len(u)
           n == Len(v)
<1>1. /\ m \in Nat /\ n \in Nat /\ DOMAIN u = 1..m /\ DOMAIN v = 1..n
      /\ w \in Seq(X) /\ Len(w) = m + n
      /\ \A i \in 1..(m + n) : w[i] = IF i <= m THEN u[i] ELSE v[i - m]
  BY ConcatProperties, LenProperties
<1>2. DOMAIN w = 1..(m + n)
  BY <1>1, LenProperties
<1>3. Range(w) = Range(u) \union Range(v)
  BY RangeConcatenation
<1> HIDE DEF m, n, w
<1>4. ASSUME NEW a \in DOMAIN w, NEW b \in DOMAIN w, w[a] = w[b], w[a][2] = "live"
      PROVE  a = b
  <2>1. /\ a \in 1..(m + n) /\ b \in 1..(m + n)
        /\ w[a] = IF a <= m THEN u[a] ELSE v[a - m]
        /\ w[b] = IF b <= m THEN u[b] ELSE v[b - m]
    BY <1>1, <1>2
  <2>2. \A i \in 1..(m + n) : IF i <= m THEN i \in 1..m ELSE i - m \in 1..n
    BY <1>1
  <2>3. \A i \in 1..m : u[i][2] # "live"
    BY <1>1 DEF Range
  <2>4. ~ (a <= m) /\ ~ (b <= m)
    BY <1>4, <2>1, <2>2, <2>3
  <2>5. a - m = b - m
    BY <1>1, <1>4, <2>1, <2>2, <2>4 DEF Once
  <2> QED BY <1>1, <2>1, <2>5
<1>5. Once(w)
  BY <1>4 DEF Once
<1> QED BY <1>1, <1>3, <1>5 DEF w

\* A delivery, on any graph: a live token becomes a thread of the node it reaches.
LEMMA DeliverThreads ==
    ASSUME edges \in Graphs, NEW s, Loose(s), NEW k, NEW T, NEW E
    PROVE  /\ Loose(Deliver(s))
           /\ Untangled(edges, ThreadsOf(s, k, T, E)) =>
                 Untangled(edges, ThreadsOf(Deliver(s), k, T, E))
<1>1. CASE s.todo = <<>>
  BY <1>1 DEF Deliver
<1>2. CASE s.todo # <<>>
  <2> DEFINE i == Head(s.todo)[1]
             n == edges[i].target
             given == [s.tokens EXCEPT ![i] = Head(s.todo)[2]]
             e == Deliver(s)
             X == Links(edges) \X {"live", "dead"}
             P == Range(s.todo)
             Q == Range(Tail(s.todo))
  <2>1. \/ i \in back /\ Reenters(s, n, e)
        \/ i \notin back /\ Holds(s, given, n, e)
        \/ i \notin back /\ Readies(s, given, n, e)
        \/ i \notin back /\ Kills(s, given, n, e)
        \/ i \notin back /\ Drops(s, given, n, e)
    BY <1>2, DeliverDoes DEF Loose
  <2>2. /\ Head(s.todo) \in P /\ Head(s.todo) \in X
        /\ Tail(s.todo) \in Seq(X) /\ Once(Tail(s.todo)) /\ Q \subseteq P
    BY <1>2, LooseNext
  <2>3. i \in Links(edges) /\ n \in Nodes /\ Head(s.todo)[2] \in {"live", "dead"}
    BY <2>2 DEF Links, Valid
  <2>4. /\ s.tokens \in [DOMAIN edges -> {"none", "live", "dead"}] /\ s.ready \in Seq(Nodes)
        /\ \A p \in P : p[1] \in back => p[2] = "live"
    BY DEF Loose
  <2>5. /\ given \in [DOMAIN edges -> {"none", "live", "dead"}] /\ Puts(s, given)
        /\ \A j \in Links(edges) : given[j] = IF j = i THEN Head(s.todo)[2] ELSE s.tokens[j]
    BY <2>3, <2>4 DEF Links, Puts
  <2>6. Append(s.ready, n) \in Seq(Nodes)
    BY <2>3, <2>4, AppendProperties
  <2>7. i = Head(s.todo)[1] /\ n = edges[i].target /\ (i \in back => Head(s.todo)[2] = "live")
    BY <2>2, <2>4
  <2> HIDE DEF i, n, given, e, X, P, Q
  <2>8. CASE i \in back /\ Reenters(s, n, e)
    <3>1. /\ IsSchedule(e) /\ e.tokens = s.tokens /\ e.ready = Append(s.ready, n)
          /\ e.todo = Tail(s.todo)
      BY <2>8 DEF Reenters, IsSchedule
    <3>2. Loose(e)
      BY <2>2, <2>4, <2>6, <3>1 DEF Loose, X, P, Q
    <3>3. Untangled(edges, ThreadsOf(s, k, T, E)) => Untangled(edges, ThreadsOf(e, k, T, E))
      BY <1>2, <2>7, <2>8, <3>1, ReadyThreads
    <3> QED BY <3>2, <3>3 DEF e
  <2>9. CASE i \notin back /\ Holds(s, given, n, e)
    <3>1. /\ IsSchedule(e) /\ e.tokens = given /\ e.ready = s.ready /\ e.todo = Tail(s.todo)
      BY <2>9 DEF Holds, IsSchedule
    <3>2. Loose(e)
      BY <2>2, <2>4, <2>5, <3>1 DEF Loose, X, P, Q
    <3>3. Untangled(edges, ThreadsOf(s, k, T, E)) => Untangled(edges, ThreadsOf(e, k, T, E))
      BY <1>2, <2>5, <2>7, <3>1, HeldThreads
    <3> QED BY <3>2, <3>3 DEF e
  <2>10. ASSUME i \notin back, Fires(s, given, n, e)
         PROVE  /\ e.tokens \in [DOMAIN edges -> {"none", "live", "dead"}]
                /\ \A j \in Links(edges) : e.tokens[j] = "live" => s.tokens[j] = "live"
                /\ \A j \in ForwardIn(n) : e.tokens[j] = "none"
    <3>1. i \in ForwardIn(n)
      BY <2>3, <2>7, <2>10 DEF ForwardIn
    <3>2. \A j \in Links(edges) : j \in DOMAIN edges
      BY DEF Links
    <3>3. \A j \in ForwardIn(n) : j \in Links(edges)
      BY DEF ForwardIn
    <3> QED BY <2>5, <2>10, <3>1, <3>2, <3>3 DEF Fires
  <2>11. CASE i \notin back /\ Readies(s, given, n, e)
    <3>1. /\ Fires(s, given, n, e) /\ IsSchedule(e) /\ e.ready = Append(s.ready, n)
          /\ e.todo = Tail(s.todo)
      BY <2>11 DEF Readies
    <3>2. Loose(e)
      BY <2>2, <2>4, <2>6, <2>10, <2>11, <3>1 DEF Loose, X, P, Q
    <3>3. \/ Head(s.todo)[2] = "live"
          \/ \E j \in Links(edges) :
                edges[j].target = n /\ s.tokens[j] = "live" /\ e.tokens[j] # "live"
      <4>1. PICK j \in ForwardIn(n) : given[j] = "live"
        BY <2>11 DEF Readies
      <4>2. j \in Links(edges) /\ edges[j].target = n
        BY DEF ForwardIn
      <4>3. e.tokens[j] # "live"
        BY <2>10, <2>11, <3>1
      <4> QED BY <2>5, <4>1, <4>2, <4>3
    <3>4. \A j \in Links(edges) : e.tokens[j] = "live" => s.tokens[j] = "live"
      BY <2>10, <2>11, <3>1
    <3>5. Untangled(edges, ThreadsOf(s, k, T, E)) => Untangled(edges, ThreadsOf(e, k, T, E))
      BY <1>2, <2>7, <3>1, <3>3, <3>4, ReadyThreads
    <3> QED BY <3>2, <3>5 DEF e
  <2>12. CASE i \notin back /\ Kills(s, given, n, e)
    <3> DEFINE w == WithToken(OutOf(edges, n) \ back, "dead")
               v == Tail(s.todo)
    <3>1. /\ Fires(s, given, n, e) /\ IsSchedule(e) /\ e.ready = s.ready /\ e.todo = w \o v
      BY <2>12 DEF Kills, Spreads
    <3>2. w \in Seq(X) /\ \A p \in Range(w) : p[1] \notin back /\ p[2] = "dead"
      <4>1. OutOf(edges, n) \ back \in SUBSET Links(edges)
        BY GraphEdges
      <4> QED BY <4>1, PendingTokens DEF Pending, X
    <3>3. v \in Seq(X) /\ Once(v) /\ Range(v) = Q
      BY <2>2 DEF Q
    <3> HIDE DEF w, v
    <3>4. e.todo \in Seq(X) /\ Once(e.todo) /\ Range(e.todo) = Range(w) \union Range(v)
      BY <3>1, <3>2, <3>3, OnceAfterDead
    <3>5. Loose(e)
      BY <2>2, <2>4, <2>10, <2>12, <3>1, <3>2, <3>3, <3>4 DEF Loose, X
    <3>6. \A j : <<j, "live">> \in Range(e.todo) => <<j, "live">> \in Range(s.todo)
      BY <2>2, <3>2, <3>3, <3>4 DEF P
    <3>7. \A j \in Links(edges) : e.tokens[j] = "live" => s.tokens[j] = "live"
      BY <2>10, <2>12, <3>1
    <3>8. Untangled(edges, ThreadsOf(s, k, T, E)) => Untangled(edges, ThreadsOf(e, k, T, E))
      BY <3>1, <3>6, <3>7, DeadThreads
    <3> QED BY <3>5, <3>8 DEF e
  <2>13. CASE i \notin back /\ Drops(s, given, n, e)
    <3>1. /\ Fires(s, given, n, e) /\ IsSchedule(e) /\ e.ready = s.ready
          /\ e.todo = Tail(s.todo)
      BY <2>13 DEF Drops
    <3>2. Loose(e)
      BY <2>2, <2>4, <2>10, <2>13, <3>1 DEF Loose, X, P, Q
    <3>3. \A j : <<j, "live">> \in Range(e.todo) => <<j, "live">> \in Range(s.todo)
      BY <2>2, <3>1 DEF P, Q
    <3>4. \A j \in Links(edges) : e.tokens[j] = "live" => s.tokens[j] = "live"
      BY <2>10, <2>13, <3>1
    <3>5. Untangled(edges, ThreadsOf(s, k, T, E)) => Untangled(edges, ThreadsOf(e, k, T, E))
      BY <3>1, <3>3, <3>4, DeadThreads
    <3> QED BY <3>2, <3>5 DEF e
  <2> QED BY <2>1, <2>8, <2>9, <2>11, <2>12, <2>13
<1> QED BY <1>1, <1>2

\* The threads stay apart after any number of deliveries.
LEMMA DeliveriesThreads ==
    ASSUME edges \in Graphs, NEW init, Loose(init), NEW k, NEW T, NEW E,
           NEW n \in Nat, NEW f, Deliveries(f, init, n)
    PROVE  /\ Loose(f[n])
           /\ Untangled(edges, ThreadsOf(init, k, T, E)) =>
                 Untangled(edges, ThreadsOf(f[n], k, T, E))
<1> DEFINE Good(j) ==
               /\ Loose(f[j])
               /\ Untangled(edges, ThreadsOf(init, k, T, E)) =>
                     Untangled(edges, ThreadsOf(f[j], k, T, E))
           Bad == {j \in 0..n : ~ Good(j)}
<1>1. ASSUME Bad # {} PROVE FALSE
  <2>1. PICK j \in Bad : \A i \in Bad : j <= i
    <3>1. Bad \in SUBSET Nat
      OBVIOUS
    <3> HIDE DEF Bad
    <3> QED BY <1>1, <3>1, LeastFailure
  <2>2. f[j] = IF j = 0 THEN init ELSE Deliver(f[j - 1])
    BY DEF Deliveries
  <2>3. CASE j = 0
    BY <2>1, <2>2, <2>3
  <2>4. CASE j # 0
    <3>1. j - 1 \in 0..n /\ ~ (j <= j - 1)
      BY <2>4
    <3>2. Good(j - 1)
      BY <2>1, <3>1
    <3>3. Good(j)
      BY <2>2, <2>4, <3>2, DeliverThreads
    <3> QED BY <2>1, <3>3
  <2> QED BY <2>3, <2>4
<1>2. n \in 0..n
  OBVIOUS
<1> QED BY <1>1, <1>2

\* What a finished node activates are different branches, or it is one edge.
LEMMA SplitParts ==
    ASSUME edges \in Graphs, Twins(edges) = {}, NEW n \in Nodes, NEW branch,
           NEW D, D = {<<"due", i, edges[i].target>> : i \in Activated(n, branch)}
    PROVE  /\ Untangled(edges, D)
           /\ \A z : z[3] = n => \A d \in D : Leads(edges, z[3], d[3])
<1>1. \A i \in Activated(n, branch) :
         i \in Links(edges) /\ edges[i].source = n /\ edges[i].target \in Nodes
  BY DEF Activated, OutOf, Links, Valid
<1>2. ASSUME NEW i \in Activated(n, branch), NEW j \in Activated(n, branch), i # j
      PROVE  Parted(edges, edges[i].target, edges[j].target)
  <2>1. /\ i \in Links(edges) /\ j \in Links(edges) \ {i} /\ edges[j].source = edges[i].source
        /\ edges[i].source = n
    BY <1>1, <1>2
  <2>2. n \notin Routers
    <3>1. n \in Routers => edges[j].handle = edges[i].handle
      BY DEF Activated
    <3> QED BY <2>1, <3>1 DEF Twins
  <2>3. edges[i].target # edges[j].target
    BY <2>1, <2>2 DEF Twins
  <2>4. edges[i].target \in Targets(edges, n) /\ edges[j].target \in Targets(edges, n)
    <3>1. <<n, edges[i].target>> \in Follows(edges) /\ <<n, edges[j].target>> \in Follows(edges)
      BY <2>1 DEF Follows
    <3> QED BY <3>1 DEF Targets
  <2>5. \A x \in Nodes : x \in Reachable(edges, {x})
    BY DEF Reachable
  <2> QED BY <1>1, <2>2, <2>3, <2>4, <2>5 DEF Parted
<1>3. ASSUME NEW p \in D, NEW q \in D, p # q PROVE Parted(edges, p[3], q[3])
  <2>1. PICK i \in Activated(n, branch) : p = <<"due", i, edges[i].target>>
    OBVIOUS
  <2>2. PICK j \in Activated(n, branch) : q = <<"due", j, edges[j].target>>
    OBVIOUS
  <2>3. i # j /\ p[3] = edges[i].target /\ q[3] = edges[j].target
    BY <1>3, <2>1, <2>2
  <2> QED BY <1>2, <2>3
<1>4. ASSUME NEW d \in D PROVE Leads(edges, n, d[3])
  <2>1. PICK i \in Activated(n, branch) : d = <<"due", i, edges[i].target>>
    OBVIOUS
  <2> QED BY <1>1, <2>1 DEF Leads
<1> QED BY <1>3, <1>4 DEF Untangled

\* The scheduler before a task t's node is completed.
TaskType(T, k) ==
    \A t \in T : /\ t.node \in Nodes /\ t.step \in Nat /\ t.step < k
                 /\ \A u \in T : u.step = t.step => u = t

\* complete: what it has to deliver is loose.
LEMMA CompleteLoose ==
    ASSUME edges \in Graphs, tokens \in [DOMAIN edges -> {"none", "live", "dead"}],
           ready \in Seq(Nodes), NEW n, NEW branch
    PROVE  /\ Loose(Completing(n, branch))
           /\ \A i : <<i, "live">> \in Range(Completing(n, branch).todo) =>
                      i \in Activated(n, branch)
<1> DEFINE A == Activated(n, branch)
           P == Pruned(n, branch)
           u == WithToken(A, "live")
           v == WithToken(P, "dead")
           init == Completing(n, branch)
<1>1. /\ init.tokens = tokens /\ init.dead = dead /\ init.ready = ready /\ init.todo = u \o v
      /\ IsSchedule(init)
  BY DEF Completing, IsSchedule
<1>2. /\ A \in SUBSET Links(edges) /\ P \in SUBSET Links(edges) /\ A \intersect P = {}
      /\ P \intersect back = {}
  BY GraphEdges DEF Activated, Pruned
<1> HIDE DEF init, A, P
<1>3. /\ Pending(edges, u) /\ Pending(edges, v)
      /\ \A p \in Range(u) : p[1] \in A /\ p[2] = "live"
      /\ \A p \in Range(v) : p[1] \in P /\ p[2] = "dead"
  BY <1>2, PendingTokens
<1> HIDE DEF u, v
<1>4. Apart(u, v)
  BY <1>2, <1>3 DEF Apart
<1>5. Pending(edges, u \o v) /\ Range(u \o v) = Range(u) \union Range(v)
  <2>1. Pending(edges, u \o v)
    BY ONLY <1>3, <1>4, PendingJoined
  <2>2. Range(u \o v) = Range(u) \union Range(v)
    BY ONLY <1>3, <1>4, PendingJoined
  <2> QED BY <2>1, <2>2
<1>6. Once(u \o v)
  BY <1>5 DEF Pending, Once
<1>7. \A p \in Range(u \o v) : p[1] \in back => p[2] = "live"
  BY <1>2, <1>3, <1>5
<1>8. \A i : <<i, "live">> \in Range(u \o v) => i \in A
  BY <1>3, <1>5
<1>9. Loose(init)
  BY <1>1, <1>5, <1>6, <1>7 DEF Loose, Pending
<1> QED BY <1>1, <1>8, <1>9 DEF init, A

\* complete: the thread of the task splits into those of the edges it activates.
LEMMA CompleteThreads ==
    ASSUME edges \in Graphs, Twins(edges) = {},
           tokens \in [DOMAIN edges -> {"none", "live", "dead"}], ready \in Seq(Nodes),
           NEW k \in Nat, NEW T, TaskType(T, k), NEW t \in T, t.node \notin Ends, NEW E,
           Untangled(edges, Threads(edges, Schedule, {}, k, T, E)), NEW branch
    PROVE  Untangled(edges, Threads(edges, AfterComplete(t.node, branch), {}, k, T \ {t}, E))
<1> DEFINE n == t.node
           init == Completing(n, branch)
           after == AfterComplete(n, branch)
           D == {<<"due", i, edges[i].target>> : i \in Activated(n, branch)}
           S == Threads(edges, Schedule, {}, k, T, E)
           N == ThreadsOf(init, k, T \ {t}, E)
           z == <<"step", t.step + 1, n>>
           m == 2 * Len(edges)
<1>1. /\ Loose(init)
      /\ \A i : <<i, "live">> \in Range(init.todo) => i \in Activated(n, branch)
  BY CompleteLoose
<1>2. init.tokens = tokens /\ init.ready = ready
  BY DEF Completing
<1>3. n \in Nodes /\ z[1] = "step" /\ z[3] = n
  BY DEF TaskType
<1>4. Untangled(edges, D) /\ \A d \in D : Leads(edges, z[3], d[3])
  BY <1>3, SplitParts
<1>5. Sent(edges, Range(init.todo)) \subseteq D
  <2> HIDE DEF init
  <2> QED BY <1>1 DEF Sent
<1>6. AtWork(T \ {t}) \subseteq AtWork(T) \ {z} /\ z \in AtWork(T)
  <2>1. \A u \in T \ {t} : u.step + 1 # t.step + 1
    BY DEF TaskType
  <2> QED BY <2>1 DEF AtWork
<1>7. z \notin Queue(ready, k)
  <2>1. \A a \in DOMAIN ready : k + a # t.step + 1
    <3>1. \A a \in DOMAIN ready : a \in Nat /\ 1 <= a
      BY LenProperties
    <3> QED BY <3>1 DEF TaskType
  <2> QED BY <2>1 DEF Queue
<1> HIDE DEF D, z, init
<1>8. z \in S /\ N \subseteq (S \ {z}) \union D
  <2>1. S = Queue(ready, k) \union AtWork(T) \union Laid(edges, tokens) \union Sent(edges, {})
               \union AtEnd(E)
    BY DEF Threads, Schedule
  <2>2. N = Queue(ready, k) \union AtWork(T \ {t}) \union Laid(edges, tokens)
               \union Sent(edges, Range(init.todo)) \union AtEnd(E)
    BY <1>2 DEF ThreadsOf, Threads
  <2> HIDE DEF S, N
  <2> QED BY <1>3, <1>5, <1>6, <1>7, <2>1, <2>2, Kinds
<1>9. Untangled(edges, N)
  <2>1. Untangled(edges, S)
    OBVIOUS
  <2> HIDE DEF S, N
  <2> QED BY <1>4, <1>8, <2>1, Moves
<1>10. PICK f : Deliveries(f, init, m) /\ after = f[m]
  BY CompleteDelivers DEF init
<1>11. Untangled(edges, ThreadsOf(after, k, T \ {t}, E))
  <2>1. m \in Nat
    BY GraphEdges
  <2> HIDE DEF m, after
  <2> QED BY <1>1, <1>9, <1>10, <2>1, DeliveriesThreads
<1> HIDE DEF after
<1>12. Threads(edges, after, {}, k, T \ {t}, E) \subseteq ThreadsOf(after, k, T \ {t}, E)
  BY DEF ThreadsOf, Threads, Sent
<1> QED BY <1>11, <1>12, Ended DEF after

\* complete keeps the types.
LEMMA CompleteTypes ==
    ASSUME edges \in Graphs, tokens \in [DOMAIN edges -> {"none", "live", "dead"}],
           ready \in Seq(Nodes), NEW n, NEW branch
    PROVE  Loose(AfterComplete(n, branch))
<1> DEFINE init == Completing(n, branch)
           m == 2 * Len(edges)
<1>1. Loose(init)
  BY CompleteLoose
<1>2. PICK f : Deliveries(f, init, m) /\ AfterComplete(n, branch) = f[m]
  BY CompleteDelivers
<1>3. m \in Nat
  BY GraphEdges
<1>4. Loose(f[m])
  <2> HIDE DEF init, m
  <2> QED BY <1>1, <1>2, <1>3, DeliveriesThreads
<1> QED BY <1>2, <1>4

-----------------------------------------------------------------------------
(* The run keeps its threads apart. *)

EndsReached == {n \in Ends : visits[n] > 0}

\* On a graph without twins, every two threads have parted at an AND-split.
ThreadInv ==
    /\ edges \in Graphs
    /\ tokens \in [DOMAIN edges -> {"none", "live", "dead"}] /\ ready \in Seq(Nodes)
    /\ visits \in [Nodes -> Nat] /\ steps \in Nat /\ TaskType(running, steps)
    /\ Twins(edges) = {} =>
          Untangled(edges, Threads(edges, Schedule, {}, steps, running, EndsReached))

\* The initial state: one thread, at START.
LEMMA InitThread == ParallelInit => ThreadInv
<1> SUFFICES ASSUME ParallelInit PROVE ThreadInv
  OBVIOUS
<1>1. /\ edges \in Graphs /\ tokens = [i \in DOMAIN edges |-> "none"] /\ ready = <<Start>>
      /\ visits = [n \in Nodes |-> 0] /\ steps = 0 /\ running = {} /\ Start \in Nodes
  BY RunAssumption DEF ParallelInit, RunAssumption
<1>2. EndsReached = {} /\ TaskType(running, steps) /\ ready \in Seq(Nodes)
  <2>1. \A n \in Ends : n \in Nodes
    BY RunAssumption DEF RunAssumption
  <2> QED BY <1>1, <2>1 DEF EndsReached, TaskType
<1>3. Threads(edges, Schedule, {}, steps, running, EndsReached) \subseteq {<<"step", 0 + 1, Start>>}
  <2>1. Queue(ready, steps) \subseteq {<<"step", 0 + 1, Start>>}
    <3>1. DOMAIN <<Start>> = {1} /\ <<Start>>[1] = Start
      OBVIOUS
    <3> QED BY <1>1, <3>1 DEF Queue
  <2>2. Laid(edges, tokens) = {}
    BY <1>1 DEF Laid, Links
  <2> QED BY <1>1, <1>2, <2>1, <2>2 DEF Threads, Schedule, AtWork, Sent, AtEnd
<1>4. Untangled(edges, Threads(edges, Schedule, {}, steps, running, EndsReached))
  BY <1>3, OneAlone, Ended
<1> QED BY <1>1, <1>2, <1>4 DEF ThreadInv

\* The first of the queue is launched.
LEMMA QueueShorter ==
    ASSUME NEW q \in Seq(Nodes), q # <<>>, NEW k \in Nat, NEW z, z = <<"step", k + 1, Head(q)>>
    PROVE  /\ z \in Queue(q, k) /\ Queue(Tail(q), k + 1) \subseteq Queue(q, k) \ {z}
           /\ Head(q) \in Nodes /\ Tail(q) \in Seq(Nodes)
<1> DEFINE w == Tail(q)
           n == Len(q)
<1>1. /\ Head(q) \in Nodes /\ w \in Seq(Nodes) /\ Len(w) = n - 1
      /\ \A i \in 1..Len(w) : w[i] = q[i + 1]
      /\ n \in Nat /\ n # 0 /\ DOMAIN q = 1..n /\ Head(q) = q[1]
  BY HeadTailProperties, EmptySeq, LenProperties
<1>2. DOMAIN w = 1..(n - 1)
  BY <1>1, LenProperties
<1> HIDE DEF w, n
<1>3. 1 \in 1..n /\ \A i \in 1..(n - 1) :
         i + 1 \in 1..n /\ w[i] = q[i + 1] /\ (k + 1) + i = k + (i + 1) /\ (k + 1) + i # k + 1
  BY <1>1
<1>4. z \in Queue(q, k)
  BY <1>1, <1>3 DEF Queue
<1>5. ASSUME NEW i \in 1..(n - 1)
      PROVE  <<"step", (k + 1) + i, w[i]>> \in Queue(q, k) \ {z}
  <2>1. <<"step", (k + 1) + i, w[i]>> = <<"step", k + (i + 1), q[i + 1]>>
    BY <1>3
  <2>2. <<"step", k + (i + 1), q[i + 1]>> \in Queue(q, k)
    BY <1>1, <1>3 DEF Queue
  <2>3. <<"step", (k + 1) + i, w[i]>> # z
    BY <1>3
  <2> QED BY <2>1, <2>2, <2>3
<1>6. Queue(w, k + 1) \subseteq Queue(q, k) \ {z}
  BY <1>2, <1>5 DEF Queue
<1> QED BY <1>1, <1>4, <1>6 DEF w

\* Launch: the thread goes on as a task, or has come to an END.
LEMMA LaunchThread == ThreadInv /\ Launch => ThreadInv'
<1> SUFFICES ASSUME ThreadInv, Launch PROVE ThreadInv'
  OBVIOUS
<1> DEFINE n == Head(ready)
           k == steps
           z == <<"step", k + 1, n>>
           E == EndsReached
           r == IF n \in Ends THEN <<"end", n, n>> ELSE z
<1>1. PICK new : new = [node |-> n, step |-> k, saw |-> state]
  OBVIOUS
<1>2. /\ edges' = edges /\ tokens' = tokens /\ ready # <<>> /\ ready' = Tail(ready)
      /\ running' = running \union {new} /\ new.node = n /\ new.step = k
      /\ steps' = k + 1 /\ visits' = [visits EXCEPT ![n] = @ + 1]
  BY <1>1 DEF Launch, scheduler
<1>3. /\ edges \in Graphs /\ tokens \in [DOMAIN edges -> {"none", "live", "dead"}]
      /\ ready \in Seq(Nodes) /\ visits \in [Nodes -> Nat] /\ k \in Nat /\ TaskType(running, k)
      /\ Twins(edges) = {} => Untangled(edges, Threads(edges, Schedule, {}, k, running, E))
  BY DEF ThreadInv
<1>4. /\ z \in Queue(ready, k) /\ Queue(ready', k + 1) \subseteq Queue(ready, k) \ {z}
      /\ n \in Nodes /\ ready' \in Seq(Nodes)
  BY <1>2, <1>3, QueueShorter
<1> HIDE DEF k, n
<1>5. TaskType(running', steps')
  <2>1. \A t \in running : t.node \in Nodes /\ t.step \in Nat /\ t.step < k + 1 /\ t.step # k
    BY <1>3 DEF TaskType
  <2>2. k < k + 1
    BY <1>3
  <2> QED BY <1>2, <1>3, <1>4, <2>1, <2>2 DEF TaskType
<1>6. visits' \in [Nodes -> Nat]
  BY <1>2, <1>3, <1>4
<1>7. EndsReached' \subseteq E \union ({n} \intersect Ends)
  <2>1. \A x \in Ends : x \in Nodes
    BY RunAssumption DEF RunAssumption
  <2> QED BY <1>2, <1>3, <1>4, <2>1 DEF EndsReached
<1>8. ASSUME Twins(edges) = {}
      PROVE  Untangled(edges, Threads(edges, Schedule', {}, k + 1, running', EndsReached'))
  <2> DEFINE S == Threads(edges, Schedule, {}, k, running, E)
             N == Threads(edges, Schedule', {}, k + 1, running', EndsReached')
             F == EndsReached'
  <2>1. /\ S = Queue(ready, k) \union AtWork(running) \union Laid(edges, tokens)
               \union Sent(edges, {}) \union AtEnd(E)
        /\ N = Queue(ready', k + 1) \union AtWork(running') \union Laid(edges, tokens)
               \union Sent(edges, {}) \union AtEnd(F)
    BY <1>2 DEF Threads, Schedule
  <2>2. z \notin AtWork(running)
    BY <1>3 DEF AtWork, TaskType
  <2>3. AtWork(running') \subseteq AtWork(running) \union {r}
    BY <1>2 DEF AtWork
  <2>4. AtEnd(F) \subseteq AtEnd(E) \union {r}
    <3> HIDE DEF F, E
    <3> QED BY <1>7 DEF AtEnd, F
  <2>5. z[1] = "step" /\ z[3] = n /\ r[3] = n
    OBVIOUS
  <2> HIDE DEF S, N, F, z, r, E
  <2>6. z \in S /\ N \subseteq (S \ {z}) \union {r}
    BY <1>4, <2>1, <2>2, <2>3, <2>4, <2>5, Kinds
  <2>7. \A d \in {r} : Leads(edges, z[3], d[3])
    BY <2>5 DEF Leads
  <2>8. Untangled(edges, S) /\ Untangled(edges, {r})
    BY <1>3, <1>8, OneAlone DEF S, E
  <2>9. Untangled(edges, N)
    BY <2>6, <2>7, <2>8, Moves
  <2> QED BY <2>9 DEF N
<1> HIDE DEF E
<1>9. Twins(edges') = {} =>
         Untangled(edges', Threads(edges', Schedule', {}, steps', running', EndsReached'))
  BY <1>2, <1>8
<1> QED BY <1>2, <1>3, <1>4, <1>5, <1>6, <1>9 DEF ThreadInv

\* Steps that launch and deliver nothing: threads may end.
LEMMA LessThread ==
    ASSUME ThreadInv, edges' = edges, tokens' = tokens, ready' \in {ready, <<>>},
           running' \subseteq running, UNCHANGED <<steps, visits>>
    PROVE  ThreadInv'
<1>1. TaskType(running', steps') /\ ready' \in Seq(Nodes) /\ EndsReached' = EndsReached
  <2>1. <<>> \in Seq(Nodes)
    OBVIOUS
  <2> QED BY <2>1 DEF ThreadInv, TaskType, EndsReached
<1>2. Queue(ready', steps) \subseteq Queue(ready, steps)
  <2>1. DOMAIN <<>> = {}
    OBVIOUS
  <2> QED BY <2>1 DEF Queue
<1>3. AtWork(running') \subseteq AtWork(running)
  BY DEF AtWork
<1>4. Threads(edges, Schedule', {}, steps, running', EndsReached)
        \subseteq Threads(edges, Schedule, {}, steps, running, EndsReached)
  BY <1>2, <1>3 DEF Threads, Schedule
<1>5. Twins(edges) = {} =>
         Untangled(edges, Threads(edges, Schedule', {}, steps, running', EndsReached))
  BY <1>4, Ended DEF ThreadInv
<1>6. Twins(edges') = {} =>
         Untangled(edges', Threads(edges', Schedule', {}, steps', running', EndsReached'))
  BY <1>1, <1>5
<1> QED BY <1>1, <1>6 DEF ThreadInv

\* NodeCompleted: the thread splits.
LEMMA CompletedThread ==
    ASSUME ThreadInv, done \subseteq running, NEW t \in done, NodeCompleted(t)
    PROVE  ThreadInv'
<1>1. /\ edges' = edges /\ steps' = steps /\ visits' = visits /\ t \in running
      /\ running' = running \ {t} /\ t.node \notin Ends
  BY DEF NodeCompleted, Processed
<1>2. PICK branch : LET after == AfterComplete(t.node, branch)
                    IN  tokens' = after.tokens /\ ready' = after.ready
  BY DEF NodeCompleted
<1> DEFINE after == AfterComplete(t.node, branch)
<1>3. /\ edges \in Graphs /\ tokens \in [DOMAIN edges -> {"none", "live", "dead"}]
      /\ ready \in Seq(Nodes) /\ visits \in [Nodes -> Nat] /\ steps \in Nat
      /\ TaskType(running, steps)
      /\ Twins(edges) = {} =>
            Untangled(edges, Threads(edges, Schedule, {}, steps, running, EndsReached))
  BY DEF ThreadInv
<1>4. Loose(after)
  BY <1>3, CompleteTypes
<1>5. Twins(edges) = {} =>
         Untangled(edges, Threads(edges, after, {}, steps, running \ {t}, EndsReached))
  <2> DEFINE E == EndsReached
  <2> HIDE DEF E
  <2> QED BY <1>1, <1>3, CompleteThreads DEF E
<1>6. /\ tokens' = after.tokens /\ ready' = after.ready
      /\ Schedule'.tokens = tokens' /\ Schedule'.ready = ready'
  BY <1>2 DEF Schedule
<1>7. /\ tokens' \in [DOMAIN edges -> {"none", "live", "dead"}] /\ ready' \in Seq(Nodes)
      /\ TaskType(running', steps') /\ EndsReached' = EndsReached
  BY <1>1, <1>3, <1>4, <1>6 DEF Loose, TaskType, EndsReached
<1> HIDE DEF after
<1>8. Threads(edges, Schedule', {}, steps, running \ {t}, EndsReached)
        = Threads(edges, after, {}, steps, running \ {t}, EndsReached)
  BY <1>6 DEF Threads
<1>9. Twins(edges') = {} =>
         Untangled(edges', Threads(edges', Schedule', {}, steps', running', EndsReached'))
  BY <1>1, <1>5, <1>7, <1>8
<1> QED BY <1>1, <1>3, <1>7, <1>9 DEF ThreadInv

\* Every step keeps the threads apart.
LEMMA NextThread ==
    ThreadInv /\ done \subseteq running /\ [ParallelNext]_parallelVars => ThreadInv'
<1> SUFFICES ASSUME ThreadInv, done \subseteq running, [ParallelNext]_parallelVars
             PROVE  ThreadInv'
  OBVIOUS
<1>1. CASE Launch
  BY <1>1, LaunchThread
<1>2. CASE LimitReached
  BY <1>2, LessThread DEF LimitReached, Abort, scheduler
<1>3. CASE Wait
  BY <1>3, LessThread DEF Wait, scheduler
<1>4. CASE Timeout
  BY <1>4, LessThread DEF Timeout, Abort, scheduler
<1>5. CASE Finish
  BY <1>5, LessThread DEF Finish, scheduler
<1>6. ASSUME NEW t \in done, NodeFailed(t) PROVE ThreadInv'
  BY <1>6, LessThread DEF NodeFailed, Abort, scheduler
<1>7. ASSUME NEW t \in done, NodeCompleted(t) PROVE ThreadInv'
  BY <1>7, CompletedThread
<1>8. ASSUME NEW t \in done, EndCompleted(t) PROVE ThreadInv'
  BY <1>8, LessThread DEF EndCompleted, Processed
<1>9. CASE UNCHANGED parallelVars
  BY <1>9, LessThread DEF parallelVars, scheduler
<1> QED BY <1>1, <1>2, <1>3, <1>4, <1>5, <1>6, <1>7, <1>8, <1>9 DEF ParallelNext

\* Two ENDs that have parted are behind a split the analysis finds.
LEMMA PartedEnds ==
    ASSUME NEW g, NEW x \in Ends, NEW y \in Ends, x # y, Parted(g, x, y)
    PROVE  ParallelEnds(g) # {}
<1>1. PICK m \in Nodes \ Routers : \E t, u \in Targets(g, m) :
          t # u /\ x \in Reachable(g, {t}) /\ y \in Reachable(g, {u})
  BY DEF Parted
<1>2. PICK t \in Targets(g, m), u \in Targets(g, m) :
          t # u /\ x \in Reachable(g, {t}) /\ y \in Reachable(g, {u})
  BY <1>1
<1> DEFINE reached == UNION {ReachableEnds(g, v) : v \in Targets(g, m)}
<1>3. x \in ReachableEnds(g, t) /\ y \in ReachableEnds(g, u)
  BY <1>2 DEF ReachableEnds
<1>4. x \in reached /\ y \in reached
  BY <1>2, <1>3
<1>5. Cardinality(reached) >= 2
  <2>1. reached \in SUBSET Nodes
    BY DEF ReachableEnds, Reachable
  <2> HIDE DEF reached
  <2>2. IsFiniteSet(reached) /\ Cardinality(reached) \in Nat
    BY <2>1, NodesFinite
  <2>3. IsFiniteSet({x, y}) /\ Cardinality({x, y}) = 2 /\ {x, y} \in SUBSET reached
    <3>1. IsFiniteSet({x}) /\ Cardinality({x}) = 1
      BY FS_Singleton
    <3>2. {x, y} = {x} \union {y} /\ y \notin {x}
      OBVIOUS
    <3>3. IsFiniteSet({x} \union {y}) /\ Cardinality({x} \union {y}) = Cardinality({x}) + 1
      BY <3>1, <3>2, FS_AddElement
    <3> QED BY <1>4, <3>1, <3>2, <3>3
  <2> QED BY <2>2, <2>3, FS_Subset
<1>6. x \in ParallelEnds(g)
  BY <1>2, <1>3, <1>4, <1>5 DEF ParallelEnds
<1> QED BY <1>6

\* A run whose threads are apart has two ENDs only behind such a split.
LEMMA ApartIsWarned == ThreadInv => UnflaggedEndIsAlone
<1> SUFFICES ASSUME ThreadInv, Twins(edges) = {}, Cardinality(EndsReached) > 1
             PROVE  ParallelEnds(edges) # {}
  BY DEF UnflaggedEndIsAlone, EndsReached
<1> DEFINE E == EndsReached
<1>1. PICK x \in E, y \in E : x # y
  <2> SUFFICES ASSUME \A x, y \in E : x = y PROVE FALSE
    OBVIOUS
  <2>1. CASE E = {}
    <3>1. Cardinality(E) = 0
      BY <2>1, FS_EmptySet
    <3> QED BY <3>1
  <2>2. CASE E # {}
    <3>1. PICK x : E = {x}
      BY <2>2
    <3> HIDE DEF E
    <3>2. Cardinality(E) = 1
      BY <3>1, FS_Singleton
    <3> QED BY <3>2 DEF E
  <2> QED BY <2>1, <2>2
<1>2. x \in Ends /\ y \in Ends
  BY DEF EndsReached
<1> DEFINE S == Threads(edges, Schedule, {}, steps, running, E)
<1>3. Untangled(edges, S)
  BY DEF ThreadInv
<1> HIDE DEF E
<1>4. <<"end", x, x>> \in S /\ <<"end", y, y>> \in S
  BY DEF Threads, AtEnd
<1>5. <<"end", x, x>> # <<"end", y, y>> /\ <<"end", x, x>>[3] = x /\ <<"end", y, y>>[3] = y
  BY <1>1
<1> HIDE DEF S
<1>6. Parted(edges, x, y)
  BY <1>3, <1>4, <1>5 DEF Untangled
<1> QED BY <1>1, <1>2, <1>6, PartedEnds

\* graph_analysis.py, detect_parallel_ends, on every graph without twins: a completed run
\* has visited two ENDs only on a graph it warns of.
THEOREM SecondEndIsWarnedOf == ParallelSpec => []UnflaggedEndIsAlone
<1>1. NumbersInv => done \subseteq running
  BY DEF NumbersInv
<1>2. NumbersInv /\ ThreadInv /\ [ParallelNext]_parallelVars => NumbersInv' /\ ThreadInv'
  BY <1>1, NextNumbers, NextThread
<1> QED BY <1>2, InitNumbers, InitThread, ApartIsWarned, PTL DEF ParallelSpec

=============================================================================
