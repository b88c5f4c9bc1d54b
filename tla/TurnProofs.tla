------------------------------ MODULE TurnProofs ------------------------------
(***************************************************************************)
(* Proofs about what a turn of a conversation does and what is paid for it. *)
(*                                                                         *)
(* WorkflowRun, for any workflows without a fork or a join, which the code *)
(* gives to this engine, and any variables, requests, limits and bounds:   *)
(* the trace is one way through the graph whatever crashes the run went    *)
(* through, a failed turn leaves no sign of itself, a run is billed what   *)
(* it used and answers for its last agent. The argument: while a turn is   *)
(* served the loop stands behind the last completed step of the trace, the *)
(* context carries what was used since the run was taken up, and the       *)
(* conversation differs from the one it was asked in by transcripts and    *)
(* new defaults only.                                                      *)
(*                                                                         *)
(* CreditLedger, for every set of sessions and payments, every allowance,  *)
(* price and amount: what the holder of the row lock has done to its draft *)
(* is described relative to the committed row, which cannot change under   *)
(* it; a commit then hands the draft's properties to the account.          *)
(***************************************************************************)
EXTENDS WorkflowRun, CreditLedger, FiniteSetTheorems, SequenceTheorems,
        WellFoundedInduction, TLAPS

-----------------------------------------------------------------------------
(* WorkflowRun: the outcomes of nodes. *)

\* What is billed and what was used agree: in amounts, and key by key unless the
\* kinds of keys were mixed.
Agree(bill, use, mix) ==
    /\ bill \in [Buckets -> Nat] /\ use \in [Buckets -> Nat]
    /\ SameUse(bill, use)
    /\ mix \in BOOLEAN /\ (~mix => bill = use)

\* Amounts are natural numbers, bucket by bucket.
LEMMA AmountsAgree ==
    /\ NoCost \in [Buckets -> Nat]
    /\ \A kind : LlmUse(kind) \in [Buckets -> Nat] /\ VoiceUse(kind) \in [Buckets -> Nat]
<1>1. NoCost \in [Buckets -> Nat]
  BY DEF NoCost
<1>2. \A bucket : One(bucket) \in [Buckets -> Nat]
  BY DEF One, NoCost
<1> QED BY <1>1, <1>2 DEF LlmUse, VoiceUse

\* What is billed as it was used agrees; so does one model's use on two keys.
LEMMA AgreeAlone ==
    /\ \A use \in [Buckets -> Nat] : Agree(use, use, FALSE)
    /\ \A first, second : Agree(LlmUse(first), LlmUse(second), second # first)
<1>1. \A use \in [Buckets -> Nat] : Agree(use, use, FALSE)
  BY DEF Agree, SameUse
<1>2. ASSUME NEW first, NEW second
      PROVE  Agree(LlmUse(first), LlmUse(second), second # first)
  <2>1. SameUse(LlmUse(first), LlmUse(second))
    BY DEF SameUse, LlmUse, One, NoCost, Buckets
  <2> QED BY <2>1, AmountsAgree DEF Agree
<1> QED BY <1>1, <1>2

\* Two things that agree also do together.
LEMMA AgreeTogether ==
    ASSUME NEW bill, NEW use, NEW mix, Agree(bill, use, mix),
           NEW more, NEW also, NEW mixed2, Agree(more, also, mixed2),
           NEW both \in BOOLEAN, ~both => ~mix /\ ~mixed2
    PROVE  Agree(Adding(bill, more), Adding(use, also), both)
<1>1. Adding(bill, more) \in [Buckets -> Nat] /\ Adding(use, also) \in [Buckets -> Nat]
  BY DEF Adding, Agree
<1>2. SameUse(Adding(bill, more), Adding(use, also))
  <2>1. /\ bill["systemLlm"] \in Nat /\ bill["ownLlm"] \in Nat
        /\ use["systemLlm"] \in Nat /\ use["ownLlm"] \in Nat
        /\ more["systemLlm"] \in Nat /\ more["ownLlm"] \in Nat
        /\ also["systemLlm"] \in Nat /\ also["ownLlm"] \in Nat
    BY DEF Agree, Buckets
  <2>2. \A b \in {"systemLlm", "ownLlm", "systemVoice", "ownVoice"} :
           /\ Adding(bill, more)[b] = bill[b] + more[b]
           /\ Adding(use, also)[b] = use[b] + also[b]
    BY DEF Adding, Buckets
  <2> QED BY <2>1, <2>2 DEF Agree, SameUse
<1> QED BY <1>1, <1>2 DEF Agree

\* A node that only passes data on uses nothing and says nothing.
LEMMA PassingFields ==
    ASSUME NEW data
    PROVE  /\ Passing(data).bill = NoCost /\ Passing(data).spent = NoCost
           /\ Passing(data).mixed = FALSE /\ Passing(data).fails = FALSE
           /\ Passing(data).data = data /\ Passing(data).saves = Null
BY DEF Passing

\* What every node's outcome promises the run: it bills what it spends, and a
\* transcript is all it may say at once.
Accounted(o) ==
    /\ Agree(o.bill, o.spent, o.mixed)
    /\ o.saves \in {Null, Text("transcript")}

\* Passing data on, and failing, cost nothing.
LEMMA PassingAccounted ==
    ASSUME NEW data
    PROVE  Accounted(Passing(data)) /\ Accounted(Failing)
BY AmountsAgree, AgreeAlone DEF Accounted, Passing, Failing

\* Setting variables costs nothing, whatever the updates and merges are.
LEMMA SetVariableAccounted ==
    ASSUME NEW config, NEW c, NEW data, NEW o \in SetVariableOutcomes(config, c, data)
    PROVE  Accounted(o)
BY PassingAccounted DEF SetVariableOutcomes, Accounted, Passing

\* A transcription is not billed; all it says at once is the transcript.
LEMMA TranscribeAccounted ==
    ASSUME NEW config, NEW c, NEW data, NEW keys,
           NEW o \in TranscribeOutcomes(config, c, data, keys)
    PROVE  Accounted(o)
BY PassingAccounted DEF TranscribeOutcomes, Accounted, Passing

\* Jev is billed as it was used, on an own key.
LEMMA JevAccounted ==
    ASSUME NEW config, NEW c, NEW data, NEW keys, NEW o \in JevOutcomes(config, c, data, keys)
    PROVE  Accounted(o)
<1>1. CASE o = Failing
  BY <1>1, PassingAccounted
<1>2. ASSUME NEW answers,
             o = [Passing(config.key :> Dict(answers) @@ data)
                    EXCEPT !.bill = LlmUse("own"), !.spent = LlmUse("own")]
      PROVE  Accounted(o)
  <2>1. /\ o.bill = LlmUse("own") /\ o.spent = LlmUse("own") /\ o.mixed = FALSE
        /\ o.saves = Null
    BY <1>2 DEF Passing
  <2>2. Agree(LlmUse("own"), LlmUse("own"), FALSE)
    BY AmountsAgree, AgreeAlone
  <2> QED BY <2>1, <2>2 DEF Accounted
<1> QED BY <1>1, <1>2 DEF JevOutcomes

\* A spoken or silent reply is billed as it was used, on the kind of the first
\* key, and an agent that does not fail puts out a message.
LEMMA RepliedAccounted ==
    ASSUME NEW config, NEW kinds, NEW voice, NEW i, NEW reply
    PROVE  /\ Accounted(Spoken(config, kinds, voice, i, reply))
           /\ Spoken(config, kinds, voice, i, reply) = Failing
              \/ "message" \in DOMAIN Spoken(config, kinds, voice, i, reply).data
<1> DEFINE r == Replied(config, kinds, i, reply)
<1>1. /\ r.bill = LlmUse(kinds[1]) /\ r.spent = LlmUse(kinds[i]) /\ r.mixed = (kinds[i] # kinds[1])
      /\ r.saves = Null /\ "message" \in DOMAIN r.data
  BY DEF Replied, Passing
<1>2. Accounted(r)
  BY <1>1, AgreeAlone DEF Accounted
<1>3. /\ Accounted(Voiced(r, voice))
      /\ Voiced(r, voice).data = r.data
  <2>1. DOMAIN r = {"fails", "data", "state", "project", "says", "hears", "saves", "bill", "spent", "mixed"}
    BY DEF Replied, Passing
  <2> DEFINE v == Voiced(r, voice)
  <2>2. /\ v.bill = Adding(r.bill, VoiceUse(voice)) /\ v.spent = Adding(r.spent, VoiceUse(voice))
        /\ v.mixed = r.mixed /\ v.saves = r.saves /\ v.data = r.data
    BY <2>1 DEF Voiced
  <2>3. Agree(VoiceUse(voice), VoiceUse(voice), FALSE) /\ Agree(r.bill, r.spent, r.mixed)
    BY <1>2, AmountsAgree, AgreeAlone DEF Accounted
  <2>4. r.mixed \in BOOLEAN /\ (~r.mixed => ~r.mixed /\ ~FALSE)
    BY <2>3 DEF Agree
  <2>5. Agree(v.bill, v.spent, r.mixed)
    <3> HIDE DEF v, r
    <3>1. Agree(Adding(r.bill, VoiceUse(voice)), Adding(r.spent, VoiceUse(voice)), r.mixed)
      BY <2>3, <2>4, AgreeTogether
    <3> QED BY <2>2, <3>1
  <2> QED BY <1>2, <2>2, <2>5 DEF Accounted
<1> QED BY <1>1, <1>2, <1>3, PassingAccounted DEF Spoken

\* The same of whatever a chain of models may answer.
LEMMA RepliesAccounted ==
    ASSUME NEW config, NEW kinds, NEW voice, NEW o \in Replies(config, kinds, voice)
    PROVE  Accounted(o) /\ (o = Failing \/ "message" \in DOMAIN o.data)
<1>1. PICK i, reply : o = Spoken(config, kinds, voice, i, reply)
  BY DEF Replies
<1> QED BY <1>1, RepliedAccounted

\* The same of an agent, whatever its keys and its configuration.
LEMMA AgentAccounted ==
    ASSUME NEW config, NEW c, NEW data, NEW keys, NEW o \in AgentOutcomes(config, c, data, keys)
    PROVE  Accounted(o) /\ (o = Failing \/ "message" \in DOMAIN o.data)
<1>1. o = Failing \/ \E kinds, voice : o \in Replies(config, kinds, voice)
  BY DEF AgentOutcomes
<1> QED BY <1>1, PassingAccounted, RepliesAccounted

\* The same of every node type that the registry has.
LEMMA OutcomesAccounted ==
    ASSUME NEW node, NEW c, NEW data, NEW steps, NEW keys,
           NEW o \in OutcomesOf(node, c, data, steps, keys)
    PROVE  /\ Accounted(o)
           /\ node.type = "agent" => o = Failing \/ "message" \in DOMAIN o.data
           /\ node.type = "end" => o \in EndOutcomes(node, c, data, steps)
<1>1. CASE node.type \in {"start", "delay"}
  BY <1>1, PassingAccounted DEF OutcomesOf, StartOutcomes, DelayOutcomes
<1>2. CASE node.type = "condition"
  BY <1>2, PassingAccounted DEF OutcomesOf, ConditionOutcomes
<1>3. CASE node.type = "set_variable"
  BY <1>3, SetVariableAccounted DEF OutcomesOf
<1>4. CASE node.type = "http_request"
  BY <1>4, PassingAccounted DEF OutcomesOf, HttpOutcomes
<1>5. CASE node.type = "transcribe"
  BY <1>5, TranscribeAccounted DEF OutcomesOf
<1>6. CASE node.type = "jev"
  BY <1>6, JevAccounted DEF OutcomesOf
<1>7. CASE node.type = "agent"
  BY <1>7, AgentAccounted DEF OutcomesOf
<1>8. CASE node.type = "end"
  BY <1>8, PassingAccounted DEF OutcomesOf, EndOutcomes
<1>9. CASE node.type \notin {"start", "delay", "condition", "set_variable", "http_request",
                             "transcribe", "jev", "agent", "end"}
  BY <1>9, PassingAccounted DEF OutcomesOf
<1> QED BY <1>1, <1>2, <1>3, <1>4, <1>5, <1>6, <1>7, <1>8, <1>9

-----------------------------------------------------------------------------
(* Sequences, whatever their elements are. *)

\* A sequence of anything.
IsSequence(s) == \E S : s \in Seq(S)

\* The empty sequence.
LEMMA EmptySequence == IsSequence(<<>>) /\ Len(<<>>) = 0 /\ DOMAIN <<>> = {}
<1>1. <<>> \in Seq({})
  OBVIOUS
<1> QED BY <1>1 DEF IsSequence

\* A sequence of one element.
LEMMA SingleSequence ==
    ASSUME NEW e
    PROVE  IsSequence(<<e>>) /\ Len(<<e>>) = 1 /\ <<e>>[1] = e
<1>1. <<e>> \in Seq({e})
  OBVIOUS
<1> QED BY <1>1 DEF IsSequence

\* The indices of a sequence.
LEMMA IndicesOf ==
    ASSUME NEW s, IsSequence(s)
    PROVE  Len(s) \in Nat /\ DOMAIN s = 1..Len(s) /\ (s = <<>> <=> Len(s) = 0)
<1>1. PICK S : s \in Seq(S)
  BY DEF IsSequence
<1> QED BY <1>1

\* A sequence with one element more.
LEMMA OneMore ==
    ASSUME NEW s, IsSequence(s), NEW e
    PROVE  /\ IsSequence(Append(s, e)) /\ Len(Append(s, e)) = Len(s) + 1
           /\ Append(s, e) # <<>> /\ DOMAIN Append(s, e) = 1..(Len(s) + 1)
           /\ \A i \in 1..Len(s) : Append(s, e)[i] = s[i]
           /\ Append(s, e)[Len(s) + 1] = e
           /\ Last(Append(s, e)) = e
<1>1. PICK S : s \in Seq(S)
  BY DEF IsSequence
<1>2. s \in Seq(S \cup {e})
  BY <1>1
<1>3. Append(s, e) \in Seq(S \cup {e})
  BY <1>2
<1> QED BY <1>2, <1>3 DEF IsSequence, Last

\* Two sequences together.
LEMMA BothSequences ==
    ASSUME NEW s, NEW t, IsSequence(s), IsSequence(t)
    PROVE  IsSequence(s \o t)
<1>1. PICK S, T : s \in Seq(S) /\ t \in Seq(T)
  BY DEF IsSequence
<1>2. s \in Seq(S \cup T) /\ t \in Seq(S \cup T)
  BY <1>1
<1>3. s \o t \in Seq(S \cup T)
  BY <1>2
<1> QED BY <1>3 DEF IsSequence

\* A non-empty set of places has a last one.
LEMMA LastPlace ==
    ASSUME NEW b \in Nat, NEW S \in SUBSET (1..b), S # {}
    PROVE  \E x \in S : \A y \in S : y <= x
<1> DEFINE R == OpToRel(<, Nat)
           M == {b - x : x \in S}
<1>1. IsWellFoundedOn(R, Nat)
  BY NatLessThanWellFounded
<1>2. M \in SUBSET Nat /\ M # {}
  <2>1. PICK x \in S : TRUE
    OBVIOUS
  <2>2. b - x \in M
    BY <2>1
  <2> QED BY <2>2
<1>3. PICK m \in M : \A y \in M : ~(<<y, m>> \in R)
  <2> HIDE DEF R, M
  <2> QED BY <1>1, <1>2, WFMin
<1>4. \A y \in M : ~(y < m)
  BY <1>2, <1>3 DEF OpToRel
<1>5. PICK x \in S : m = b - x
  OBVIOUS
<1> HIDE DEF R
<1>6. ASSUME NEW y \in S PROVE y <= x
  <2>1. b - y \in M
    OBVIOUS
  <2>2. ~(b - y < b - x)
    BY <1>4, <1>5, <2>1
  <2> QED BY <2>2
<1> QED BY <1>6

\* The steps of a trace are numbered by their places.
Numbered(steps) == \A i \in DOMAIN steps : steps[i].number = i - 1

\* So the newest of them is the last.
LEMMA NewestIsLast ==
    ASSUME NEW steps, IsSequence(steps), Numbered(steps),
           NEW found \in SUBSET DOMAIN steps, found # {}
    PROVE  \E m \in found : /\ \A i \in found : i <= m
                            /\ Newest(found, steps) = steps[m]
<1>1. Len(steps) \in Nat /\ DOMAIN steps = 1..Len(steps)
  BY IndicesOf
<1>2. PICK m \in found : \A i \in found : i <= m
  BY <1>1, LastPlace
<1> DEFINE best(i) == \A j \in found : steps[j].number <= steps[i].number
           n == CHOOSE i \in found : best(i)
<1>3. best(m)
  BY <1>1, <1>2 DEF Numbered
<1>4. n \in found /\ best(n)
  BY <1>2, <1>3
<1>5. n = m
  BY <1>1, <1>2, <1>4 DEF Numbered
<1>6. Newest(found, steps) = steps[n]
  BY DEF Newest
<1> QED BY <1>2, <1>5, <1>6

\* The newest of the same places in a longer trace.
LEMMA NewestOfLonger ==
    ASSUME NEW steps, NEW more, IsSequence(steps), IsSequence(more), Numbered(steps), Numbered(more),
           NEW found \in SUBSET DOMAIN steps, found # {}, found \subseteq DOMAIN more,
           \A i \in found : more[i] = steps[i]
    PROVE  Newest(found, more) = Newest(found, steps)
<1>1. PICK m \in found : (\A i \in found : i <= m) /\ Newest(found, steps) = steps[m]
  BY NewestIsLast
<1>2. PICK n \in found : (\A i \in found : i <= n) /\ Newest(found, more) = more[n]
  BY NewestIsLast
<1>3. m = n
  <2>1. m \in Nat /\ n \in Nat
    BY <1>1, <1>2, IndicesOf
  <2> QED BY <1>1, <1>2, <2>1
<1> QED BY <1>1, <1>2, <1>3

-----------------------------------------------------------------------------
(* The inductive invariant, one part per thing that a turn carries on. *)

CtxFields == {"state", "project", "input", "audio", "chat", "history", "said", "step",
              "visits", "cost"}
RowFields == {"status", "output", "state", "bill", "steps", "closed", "chat"}

\* The places of the agent steps, and the successor of a step.
AgentsOf(steps) == {i \in DOMAIN steps : steps[i].type = "agent"}

NextOf(s) == FindNextNode(workflow, s.node, BranchIndex(s.type, s.output))

\* A run in memory has a context, and the trace is a sequence.
RunShapes ==
    /\ workflow \in Workflows
    /\ phase \in {"idle", "asked", "looping", "recording", "stuck", "finalizing"}
    /\ IsSequence(trace)
    /\ DOMAIN row = RowFields
    /\ phase \in {"looping", "recording", "finalizing"} => DOMAIN ctx = CtxFields

\* While a turn is served the trace holds completed steps only and the loop stands
\* behind the last of them, at its successor and with the state it left.
PathInv ==
    /\ TraceFollowsTheGraph
    /\ phase # "idle" => Completed(trace) = DOMAIN trace
    /\ phase = "asked" /\ trace # <<>> => turn.queued
    /\ phase \in {"looping", "recording"} =>
          /\ ctx.step = Len(trace)
          /\ trace = <<>> => at = FindStartNode(workflow)
          /\ trace # <<>> => at = NextOf(Last(trace)) /\ ctx.state = Last(trace).state

\* A run that is resumed has a way on, unless it lost its worker behind its last node.
WaysOn ==
    /\ phase = "asked" /\ trace # <<>> /\ ~endLost => NextOf(Last(trace)) # NoNode
    /\ phase \in {"looping", "recording"} => at # NoNode

\* What END answers with under "last agent" when there was an agent.
SaysTheLastAgent(end, data, steps) ==
    Node(end).mode = "last_agent" /\ AgentsOf(steps) # {} =>
        data = Newest(AgentsOf(steps), steps).output

AnswerInv ==
    /\ phase # "idle" => \A i \in AgentsOf(trace) : DOMAIN trace[i].output # {}
    /\ phase = "recording" =>
          /\ Node(at).type = "agent" => DOMAIN out.data # {}
          /\ Node(at).type = "end" => SaysTheLastAgent(at, out.data, trace)
    /\ phase = "finalizing" /\ ~endLost =>
          /\ trace # <<>> /\ at # NoNode
          /\ Last(trace).type = "end" /\ Last(trace).node = at /\ Last(trace).output = out.data
          /\ SaysTheLastAgent(at, out.data, trace)
    /\ AnswersForTheLastAgent

\* The context carries what the run used, less the node that is being recorded.
BillInv ==
    /\ phase # "idle" => row.bill = NoCost
    /\ phase = "asked" => spent = NoCost /\ mixed = FALSE
    /\ phase \in {"looping", "finalizing"} => Agree(ctx.cost, spent, mixed)
    /\ phase = "recording" => Agree(Adding(ctx.cost, out.bill), spent, mixed)
    /\ BilledWhatItUsed

Well(cs) ==
    /\ IsSequence(cs)
    /\ \A i \in DOMAIN cs : /\ DOMAIN cs[i] = {"state", "messages", "active"}
                             /\ IsSequence(cs[i].messages)

\* Every chat there was is still there, with nothing but transcripts more.
Unchanged(old, new) ==
    /\ DOMAIN old \subseteq DOMAIN new
    /\ \A i \in DOMAIN old : /\ new[i].state = old[i].state
                              /\ new[i].active = old[i].active
                              /\ OnlyTranscripts(old[i].messages, new[i].messages)

\* Until it is finalized a turn changes chats by transcripts only, and the client's
\* variables by the defaults of new ones; between turns everything is committed.
TalkInv ==
    /\ Well(before.chats) /\ Well(chats) /\ Well(stored.chats)
    /\ phase = "idle" => stored.chats = chats /\ stored.client = client
    /\ phase # "idle" =>
          /\ Unchanged(before.chats, chats) /\ Unchanged(before.chats, stored.chats)
          /\ {client, stored.client} \subseteq {before.client, Synced(before.client)}
    /\ FailedTurnLeavesNothing

-----------------------------------------------------------------------------
(* What the actions that touch the trace do, field by field. *)

\* What recording a node and counting its visit do to the context.
LEMMA ContextFields ==
    ASSUME NEW c, DOMAIN c = CtxFields, NEW o, NEW n
    PROVE  /\ DOMAIN Visited(Folded(c, o), n) = CtxFields
           /\ Visited(Folded(c, o), n).step = c.step + 1
           /\ Visited(Folded(c, o), n).state = Folded(c, o).state
           /\ Visited(Folded(c, o), n).cost = Adding(c.cost, o.bill)
           /\ Folded(c, o).step = c.step
<1>1. /\ DOMAIN Folded(c, o) = CtxFields
      /\ Folded(c, o).step = c.step
      /\ Folded(c, o).cost = Adding(c.cost, o.bill)
  BY DEF Folded, CtxFields
<1>2. ASSUME NEW f, DOMAIN f = CtxFields
      PROVE  /\ DOMAIN Visited(f, n) = CtxFields
             /\ Visited(f, n).step = f.step + 1
             /\ Visited(f, n).state = f.state
             /\ Visited(f, n).cost = f.cost
  BY <1>2 DEF Visited, CtxFields
<1> QED BY <1>1, <1>2

\* END replaces the variables of the context, not its cost.
LEMMA FilteredContext ==
    ASSUME NEW c, DOMAIN c = CtxFields, NEW state, NEW project
    PROVE  /\ DOMAIN [c EXCEPT !.state = state, !.project = project] = CtxFields
           /\ [c EXCEPT !.state = state, !.project = project].cost = c.cost
BY DEF CtxFields

\* The row that a completed node leaves, and where it leads.
Recorded == StepRow(at, ctx, "COMPLETED", out.data, Folded(ctx, out).state)

\* The fields of that row.
LEMMA RecordedFields ==
    /\ Recorded.number = ctx.step /\ Recorded.node = at /\ Recorded.type = Node(at).type
    /\ Recorded.status = "COMPLETED" /\ Recorded.output = out.data
    /\ Recorded.earlier = ctx.state /\ Recorded.state = Folded(ctx, out).state
BY DEF Recorded, StepRow

\* The three ways a node that was recorded leads on.
RecordEnds ==
    /\ Node(at).type = "end" /\ phase' = "finalizing" /\ at' = at
    /\ DOMAIN ctx' = CtxFields /\ ctx'.cost = Adding(ctx.cost, out.bill)

RecordSticks == Node(at).type # "end" /\ NextOf(Recorded) = NoNode /\ phase' = "stuck"

RecordGoesOn ==
    /\ Node(at).type # "end" /\ NextOf(Recorded) # NoNode
    /\ phase' = "looping" /\ at' = NextOf(Recorded)
    /\ DOMAIN ctx' = CtxFields /\ ctx'.cost = Adding(ctx.cost, out.bill)
    /\ ctx'.step = ctx.step + 1 /\ ctx'.state = Recorded.state

\* The error path changes the status of the row, commits, and bills nothing.
LEMMA FailedRow ==
    ASSUME DOMAIN row = RowFields, NEW steps, HandleError(steps)
    PROVE  /\ row'.status = "FAILED" /\ row'.bill = row.bill /\ DOMAIN row' = RowFields
           /\ trace' = steps /\ chats' = chats /\ phase' = "idle"
           /\ stored'.chats = chats /\ stored'.client = client
BY DEF HandleError, RowFields, Now

\* Recording a node ends the loop, leads nowhere, or goes on.
LEMMA RecordCases ==
    ASSUME RunShapes, Record
    PROVE  /\ phase = "recording" /\ trace' = Logged(trace, Recorded)
           /\ UNCHANGED <<workflow, turn, prepared, out, row, chats, client, before, spent, mixed,
                          endLost>>
           /\ stored'.chats = chats /\ stored'.client = client
           /\ RecordEnds \/ RecordSticks \/ RecordGoesOn
<1> DEFINE c    == Folded(ctx, out)
           next == FindNextNode(workflow, at, BranchIndex(Node(at).type, out.data))
<1>1. phase = "recording" /\ DOMAIN ctx = CtxFields
  BY DEF RunShapes, Record
<1>2. NextOf(Recorded) = next
  BY RecordedFields DEF NextOf
<1>3. /\ UNCHANGED <<workflow, turn, prepared, out, row, chats, client, before, spent, mixed, endLost>>
      /\ stored'.chats = chats /\ stored'.client = client
      /\ trace' = Logged(trace, Recorded)
  BY DEF Record, Recorded, pastVars, Now
<1>4. CASE Node(at).type = "end"
  <2>1. /\ phase' = "finalizing" /\ at' = at
        /\ ctx' = [Visited(c, at) EXCEPT
                     !.state   = Filtered(@, Node(at).filter, Node(at).variables),
                     !.project = Filtered(@, Node(at).projectFilter, {})]
    BY <1>4 DEF Record
  <2>2. \E state, project : ctx' = [Visited(c, at) EXCEPT !.state = state, !.project = project]
    BY <2>1
  <2>3. DOMAIN ctx' = CtxFields /\ ctx'.cost = Adding(ctx.cost, out.bill)
    <3> HIDE DEF c
    <3> QED BY <1>1, <2>2, ContextFields, FilteredContext DEF c
  <2> QED BY <1>1, <1>3, <1>4, <2>1, <2>3 DEF RecordEnds
<1>5. CASE Node(at).type # "end"
  <2>1. /\ phase' = IF next = NoNode THEN "stuck" ELSE "looping"
        /\ at' = next /\ ctx' = Visited(c, at)
    BY <1>5 DEF Record
  <2>2. /\ DOMAIN ctx' = CtxFields /\ ctx'.cost = Adding(ctx.cost, out.bill)
        /\ ctx'.step = ctx.step + 1 /\ ctx'.state = Recorded.state
    BY <1>1, <2>1, ContextFields, RecordedFields
  <2> QED BY <1>1, <1>2, <1>3, <1>5, <2>1, <2>2 DEF RecordSticks, RecordGoesOn
<1> QED BY <1>4, <1>5

-----------------------------------------------------------------------------
(* The trace and the way through the graph. *)

\* A step with the next number is not there yet: log_step appends it.
LEMMA LoggedAtTheEnd ==
    ASSUME NEW steps, IsSequence(steps), Numbered(steps), NEW s, s.number = Len(steps)
    PROVE  Logged(steps, s) = Append(steps, s)
<1>1. Len(steps) \in Nat /\ DOMAIN steps = 1..Len(steps)
  BY IndicesOf
<1>2. \A i \in DOMAIN steps : steps[i].number # s.number
  BY <1>1 DEF Numbered
<1> QED BY <1>2 DEF Logged

\* The successor of a step in a workflow, and the path a trace is.
After(w, s) == FindNextNode(w, s.node, BranchIndex(s.type, s.output))

Follows(w, steps) ==
    \A i \in DOMAIN steps :
        /\ steps[i].number = i - 1
        /\ i = 1 => steps[i].node = FindStartNode(w)
        /\ i > 1 => /\ steps[i - 1].status = "COMPLETED"
                    /\ steps[i].node = After(w, steps[i - 1])
                    /\ steps[i].earlier = steps[i - 1].state

\* The property about the trace, said of a workflow and a sequence of steps.
LEMMA PathOfTheTrace == TraceFollowsTheGraph <=> Follows(workflow, trace)
BY DEF TraceFollowsTheGraph, Follows, After

\* A path stays one when the successor of its last step is added.
LEMMA OneStepFurther ==
    ASSUME NEW w, NEW steps, IsSequence(steps), Follows(w, steps), Completed(steps) = DOMAIN steps,
           NEW s, s.number = Len(steps),
           steps = <<>> => s.node = FindStartNode(w),
           steps # <<>> => s.node = After(w, Last(steps)) /\ s.earlier = Last(steps).state
    PROVE  Follows(w, Append(steps, s))
<1> DEFINE more == Append(steps, s)
<1>1. Len(steps) \in Nat /\ DOMAIN steps = 1..Len(steps) /\ (steps = <<>> <=> Len(steps) = 0)
  BY IndicesOf
<1>2. /\ DOMAIN more = 1..(Len(steps) + 1) /\ more[Len(steps) + 1] = s
      /\ \A i \in 1..Len(steps) : more[i] = steps[i]
  BY OneMore
<1> HIDE DEF more
<1>3. ASSUME NEW i \in 1..Len(steps)
      PROVE  /\ more[i].number = i - 1
             /\ i = 1 => more[i].node = FindStartNode(w)
             /\ i > 1 => /\ more[i - 1].status = "COMPLETED"
                         /\ more[i].node = After(w, more[i - 1])
                         /\ more[i].earlier = more[i - 1].state
  <2>1. more[i] = steps[i]
    BY <1>2
  <2>2. i > 1 => i - 1 \in 1..Len(steps) /\ more[i - 1] = steps[i - 1]
    BY <1>1, <1>2
  <2> QED BY <1>1, <2>1, <2>2 DEF Follows
<1>4. /\ s.number = Len(steps) + 1 - 1
      /\ Len(steps) + 1 = 1 => s.node = FindStartNode(w)
      /\ Len(steps) + 1 > 1 => /\ more[Len(steps)].status = "COMPLETED"
                               /\ s.node = After(w, more[Len(steps)])
                               /\ s.earlier = more[Len(steps)].state
  <2>1. CASE Len(steps) = 0
    BY <1>1, <2>1
  <2>2. CASE Len(steps) > 0
    <3>1. Len(steps) \in DOMAIN steps /\ more[Len(steps)] = steps[Len(steps)]
      BY <1>1, <1>2, <2>2
    <3>2. steps[Len(steps)].status = "COMPLETED"
      BY <3>1 DEF Completed
    <3>3. steps # <<>> /\ Last(steps) = steps[Len(steps)]
      BY <1>1, <2>2 DEF Last
    <3> QED BY <1>1, <3>1, <3>2, <3>3
  <2> QED BY <1>1, <2>1, <2>2
<1>5. Len(steps) + 1 - 1 = Len(steps)
  BY <1>1
<1>6. ASSUME NEW i \in DOMAIN more PROVE i \in 1..Len(steps) \/ i = Len(steps) + 1
  BY <1>1, <1>2
<1>7. Follows(w, more)
  BY <1>2, <1>3, <1>4, <1>5, <1>6 DEF Follows
<1> QED BY <1>7 DEF more

\* Where the loop stands: behind the last of completed steps.
LEMMA LoggedStep ==
    ASSUME RunShapes, PathInv, phase \in {"looping", "recording"}, NEW s,
           s.number = ctx.step, s.node = at, s.earlier = ctx.state
    PROVE  /\ Logged(trace, s) = Append(trace, s)
           /\ Follows(workflow, Append(trace, s))
<1>1. /\ IsSequence(trace) /\ Follows(workflow, trace) /\ Completed(trace) = DOMAIN trace
      /\ ctx.step = Len(trace)
      /\ trace = <<>> => at = FindStartNode(workflow)
      /\ trace # <<>> => at = After(workflow, Last(trace)) /\ ctx.state = Last(trace).state
  BY PathOfTheTrace DEF RunShapes, PathInv, NextOf, After
<1>2. Numbered(trace)
  BY <1>1 DEF Numbered, Follows
<1> QED BY <1>1, <1>2, LoggedAtTheEnd, OneStepFurther

\* While a turn is served the newest completed step is the last.
LEMMA LastCompleted ==
    ASSUME IsSequence(trace), Follows(workflow, trace), Completed(trace) = DOMAIN trace, trace # <<>>
    PROVE  /\ Newest(Completed(trace), trace) = Last(trace)
           /\ Last(trace).number + 1 = Len(trace)
           /\ Len(trace) \in DOMAIN trace /\ Last(trace) = trace[Len(trace)]
<1>1. Len(trace) \in Nat /\ DOMAIN trace = 1..Len(trace) /\ Len(trace) # 0
  BY IndicesOf
<1>2. Numbered(trace)
  BY DEF Numbered, Follows
<1>3. Len(trace) \in DOMAIN trace
  BY <1>1
<1>4. PICK m \in DOMAIN trace : /\ \A i \in DOMAIN trace : i <= m
                                /\ Newest(DOMAIN trace, trace) = trace[m]
  <2>1. DOMAIN trace \in SUBSET DOMAIN trace /\ DOMAIN trace # {}
    BY <1>3
  <2> QED BY <1>2, <2>1, NewestIsLast
<1>5. m = Len(trace)
  BY <1>1, <1>3, <1>4
<1>6. trace[Len(trace)].number = Len(trace) - 1
  BY <1>2, <1>3 DEF Numbered
<1> QED BY <1>1, <1>3, <1>4, <1>5, <1>6 DEF Last

\* Where a run starts or is resumed.
LEMMA PreparedFields ==
    ASSUME RunShapes, PathInv, Prepare
    PROVE  /\ phase = "asked" /\ DOMAIN ctx' = CtxFields /\ DOMAIN row' = RowFields
           /\ row'.bill = row.bill /\ row'.status = "RUNNING"
           /\ ctx'.cost = NoCost /\ ctx'.step = Len(trace)
           /\ trace = <<>> => at' = FindStartNode(workflow)
           /\ trace # <<>> => at' = NextOf(Last(trace)) /\ ctx'.state = Last(trace).state
           /\ phase' = IF at' = NoNode THEN "finalizing" ELSE "looping"
           /\ chats' = Opened /\ client' = Synced(client)
           /\ UNCHANGED <<workflow, turn, turns, trace, stored, live, pastVars>>
<1>1. /\ phase = "asked" /\ chats' = Opened /\ client' = Synced(client)
      /\ phase' = IF at' = NoNode THEN "finalizing" ELSE "looping"
      /\ UNCHANGED <<workflow, turn, turns, trace, stored, live, pastVars>>
  BY DEF Prepare
<1>2. DOMAIN row' = RowFields /\ row'.bill = row.bill /\ row'.status = "RUNNING"
  <2>1. \E c : row' = [row EXCEPT !.status = "RUNNING", !.chat = c]
    BY DEF Prepare
  <2> QED BY <2>1 DEF RunShapes, RowFields
<1>3. DOMAIN ctx' = CtxFields /\ ctx'.cost = NoCost
  BY DEF Prepare, CtxFields
<1>4. /\ IsSequence(trace) /\ Follows(workflow, trace) /\ Completed(trace) = DOMAIN trace
      /\ trace # <<>> => turn.queued
  BY <1>1, PathOfTheTrace DEF RunShapes, PathInv
<1>5. CASE trace = <<>>
  <2>1. Completed(trace) = {} /\ Len(trace) = 0
    BY <1>5, EmptySequence DEF Completed
  <2>2. at' = FindStartNode(workflow) /\ ctx'.step = 0
    BY <2>1 DEF Prepare
  <2> QED BY <1>1, <1>2, <1>3, <1>5, <2>1, <2>2
<1>6. CASE trace # <<>>
  <2>1. /\ Newest(Completed(trace), trace) = Last(trace) /\ Last(trace).number + 1 = Len(trace)
        /\ Completed(trace) # {}
    BY <1>4, <1>6, LastCompleted
  <2>2. turn.queued /\ Completed(trace) # {}
    BY <1>4, <1>6, <2>1
  <2> DEFINE point == ResumePoint(trace)
  <2>3. /\ point.step = Last(trace) /\ point.node = Last(trace).node
        /\ point.index = BranchIndex(Last(trace).type, Last(trace).output)
    BY <2>1 DEF ResumePoint
  <2>4. /\ at' = FindNextNode(workflow, point.node, point.index)
        /\ ctx'.step = point.step.number + 1 /\ ctx'.state = point.step.state
    <3> HIDE DEF point
    <3> QED BY <2>2 DEF Prepare, point
  <2>5. /\ at' = NextOf(Last(trace)) /\ ctx'.step = Len(trace) /\ ctx'.state = Last(trace).state
    <3> HIDE DEF point
    <3> QED BY <2>1, <2>3, <2>4 DEF NextOf
  <2> QED BY <1>1, <1>2, <1>3, <1>6, <2>5
<1> QED BY <1>5, <1>6

\* A failed or stopped run: its steps are final, the row says so.
LEMMA StopFields ==
    ASSUME RunShapes, PathInv, StopRun \/ NodeFails \/ NoNextNode
    PROVE  /\ phase # "idle" /\ phase' = "idle"
           /\ row'.status = "FAILED" /\ row'.bill = row.bill /\ DOMAIN row' = RowFields
           /\ chats' = chats /\ stored'.chats = chats /\ stored'.client = client
           /\ UNCHANGED <<workflow, turn, client, before, spent, mixed, endLost>>
           /\ IsSequence(trace') /\ Follows(workflow, trace')
<1>1. DOMAIN row = RowFields /\ IsSequence(trace) /\ Follows(workflow, trace)
  BY PathOfTheTrace DEF RunShapes, PathInv
<1>2. CASE StopRun \/ NoNextNode
  <2>1. HandleError(trace) /\ phase # "idle"
    BY <1>2 DEF StopRun, NoNextNode
  <2>2. UNCHANGED <<workflow, turn, client, before, spent, mixed, endLost>>
    BY <1>2 DEF StopRun, NoNextNode, pastVars
  <2> QED BY <1>1, <2>1, <2>2, FailedRow
<1>3. CASE NodeFails
  <2> DEFINE s == StepRow(at, ctx, "FAILED", <<>>, <<>>)
  <2>1. HandleError(Logged(trace, s)) /\ phase = "looping"
    BY <1>3 DEF NodeFails
  <2>2. s.number = ctx.step /\ s.node = at /\ s.earlier = ctx.state
    BY DEF StepRow
  <2>3. UNCHANGED <<workflow, turn, client, before, spent, mixed, endLost>>
    BY <1>3 DEF NodeFails, pastVars
  <2> HIDE DEF s
  <2>4. Logged(trace, s) = Append(trace, s) /\ Follows(workflow, Append(trace, s))
    BY <2>1, <2>2, LoggedStep
  <2> QED BY <1>1, <2>1, <2>3, <2>4, FailedRow, OneMore
<1> QED BY <1>2, <1>3

\* A recorded node is the last step of the trace.
LEMMA RecordedTrace ==
    ASSUME RunShapes, PathInv, Record
    PROVE  /\ trace' = Append(trace, Recorded) /\ IsSequence(trace') /\ trace' # <<>>
           /\ Last(trace') = Recorded /\ Len(trace') = Len(trace) + 1
           /\ Follows(workflow, trace')
           /\ Completed(trace') = DOMAIN trace'
<1>1. phase = "recording" /\ trace' = Logged(trace, Recorded)
  BY RecordCases
<1>2. trace' = Append(trace, Recorded) /\ Follows(workflow, trace')
  BY <1>1, LoggedStep, RecordedFields
<1>3. IsSequence(trace) /\ Completed(trace) = DOMAIN trace
  BY <1>1 DEF RunShapes, PathInv
<1>4. /\ IsSequence(trace') /\ trace' # <<>> /\ Last(trace') = Recorded
      /\ Len(trace') = Len(trace) + 1
      /\ DOMAIN trace' = 1..(Len(trace) + 1) /\ trace'[Len(trace) + 1] = Recorded
      /\ \A i \in 1..Len(trace) : trace'[i] = trace[i]
  BY <1>2, <1>3, OneMore
<1>5. Len(trace) \in Nat /\ DOMAIN trace = 1..Len(trace)
  BY <1>3, IndicesOf
<1>6. \A i \in DOMAIN trace' : trace'[i].status = "COMPLETED"
  <2>1. \A i \in 1..Len(trace) : trace'[i].status = "COMPLETED"
    BY <1>3, <1>4, <1>5 DEF Completed
  <2> QED BY <1>4, <1>5, <2>1, RecordedFields
<1> QED BY <1>2, <1>4, <1>6 DEF Completed

-----------------------------------------------------------------------------
(* Shapes and the path are kept by every step. *)

\* What running a node changes.
LEMMA RunNodeFields ==
    ASSUME RunNode
    PROVE  /\ phase = "looping" /\ phase' = "recording"
           /\ UNCHANGED <<workflow, turn, ctx, at, trace, row, client, before, endLost>>
           /\ out' \in OutcomesOf(Node(at), ctx, previous, trace, live) /\ ~out'.fails
           /\ spent' = Adding(spent, out'.spent) /\ mixed' = (mixed \/ out'.mixed)
           /\ chats' = IF out'.saves = Null THEN chats
                       ELSE [chats EXCEPT ![ctx.chat].messages = Append(@, From("user", out'.saves))]
           /\ stored' = IF Node(at).type = "agent" THEN Now ELSE stored
BY DEF RunNode, rowVars

\* What finalization writes.
LEMMA FinalizeFields ==
    ASSUME RunShapes, Finalize
    PROVE  /\ phase = "finalizing" /\ phase' = "idle" /\ DOMAIN row' = RowFields
           /\ row'.status = IF at # NoNode /\ Node(at).error THEN "ERROR" ELSE "COMPLETED"
           /\ row'.output = out.data /\ row'.bill = ctx.cost
           /\ row'.closed = (at # NoNode /\ Node(at).ends)
           /\ chats' = [chats EXCEPT
                         ![ctx.chat].state = ctx.state @@ @,
                         ![ctx.chat].messages = @ \o Stored,
                         ![ctx.chat].active = @ /\ ~(at # NoNode /\ Node(at).ends)]
           /\ stored'.chats = chats' /\ stored'.client = client'
           /\ UNCHANGED <<workflow, turn, ctx, at, out, trace, before, spent, mixed, endLost>>
<1>1. DOMAIN row = RowFields
  BY DEF RunShapes
<1> QED BY <1>1 DEF Finalize, RowFields, runVars, pastVars

\* What the death of a worker undoes.
LEMMA CrashFields ==
    ASSUME Crash
    PROVE  /\ phase \in {"looping", "recording", "stuck", "finalizing"}
           /\ phase' = "asked" /\ turn.queued
           /\ endLost' = (endLost \/ phase \in {"stuck", "finalizing"})
           /\ spent' = NoCost /\ mixed' = FALSE
           /\ chats' = stored.chats /\ client' = stored.client
           /\ UNCHANGED <<workflow, turn, trace, row, stored, before>>
BY DEF Crash, rowVars

\* What a request begins with.
LEMMA AskFields ==
    ASSUME NEW kind, NEW queued, NEW fresh, NEW set, Ask(kind, queued, fresh, set)
    PROVE  /\ phase = "idle" /\ phase' = "asked" /\ trace' = <<>>
           /\ DOMAIN row' = RowFields /\ row'.bill = NoCost
           /\ row'.status \in {"QUEUED", "none"}
           /\ before'.chats = chats /\ before'.client = client
           /\ spent' = NoCost /\ mixed' = FALSE /\ endLost' = FALSE
           /\ UNCHANGED <<workflow, chats, stored, client>>
BY DEF Ask, NoRow, RowFields, talkVars

\* Deleting a stored key touches no run.
LEMMA DeleteFields ==
    ASSUME DeleteCredential
    PROVE  UNCHANGED <<workflow, turn, phase, ctx, at, out, trace, row, chats, stored, client,
                       before, spent, mixed, endLost>>
BY DEF DeleteCredential, runVars, rowVars, talkVars, pastVars

\* Every step keeps the shapes and the path.
LEMMA PathKept ==
    ASSUME RunShapes, PathInv, [TurnNext]_turnVars
    PROVE  RunShapes' /\ PathInv'
<1> DEFINE Loops == phase' \in {"looping", "recording"} =>
                      /\ ctx'.step = Len(trace')
                      /\ trace' = <<>> => at' = FindStartNode(workflow')
                      /\ trace' # <<>> => at' = After(workflow', Last(trace')) /\ ctx'.state = Last(trace').state
           Old == phase \in {"looping", "recording"} =>
                      /\ ctx.step = Len(trace)
                      /\ trace = <<>> => at = FindStartNode(workflow)
                      /\ trace # <<>> => at = After(workflow, Last(trace)) /\ ctx.state = Last(trace).state
<1>1. /\ workflow \in Workflows
      /\ phase \in {"idle", "asked", "looping", "recording", "stuck", "finalizing"}
      /\ IsSequence(trace) /\ DOMAIN row = RowFields
      /\ phase \in {"looping", "recording", "finalizing"} => DOMAIN ctx = CtxFields
      /\ Follows(workflow, trace)
      /\ phase # "idle" => Completed(trace) = DOMAIN trace
      /\ phase = "asked" /\ trace # <<>> => turn.queued
      /\ Old
  BY PathOfTheTrace DEF RunShapes, PathInv, NextOf, After
<1>2. /\ workflow' \in Workflows
      /\ phase' \in {"idle", "asked", "looping", "recording", "stuck", "finalizing"}
      /\ IsSequence(trace') /\ DOMAIN row' = RowFields
      /\ phase' \in {"looping", "recording", "finalizing"} => DOMAIN ctx' = CtxFields
      /\ Follows(workflow', trace')
      /\ phase' # "idle" => Completed(trace') = DOMAIN trace'
      /\ phase' = "asked" /\ trace' # <<>> => turn'.queued
      /\ Loops
  <2>1. CASE \E kind \in TurnKinds, queued \in BOOLEAN, fresh \in BOOLEAN, set \in Overrides :
                Ask(kind, queued, fresh, set)
    <3>1. Completed(<<>>) = DOMAIN <<>> /\ Follows(workflow, <<>>)
      BY EmptySequence DEF Completed, Follows
    <3> QED BY <1>1, <2>1, <3>1, AskFields, EmptySequence
  <2>2. CASE Prepare
    <3>1. /\ trace = <<>> => at' = FindStartNode(workflow)
          /\ trace # <<>> => at' = After(workflow, Last(trace)) /\ ctx'.state = Last(trace).state
      BY <2>2, PreparedFields DEF NextOf, After
    <3> QED BY <1>1, <2>2, <3>1, PreparedFields
  <2>3. CASE StopRun \/ NodeFails \/ NoNextNode
    BY <1>1, <2>3, StopFields
  <2>4. CASE RunNode
    BY <1>1, <2>4, RunNodeFields
  <2>5. CASE Record
    <3>1. /\ IsSequence(trace') /\ trace' # <<>> /\ Last(trace') = Recorded
          /\ Len(trace') = Len(trace) + 1 /\ Follows(workflow, trace')
          /\ Completed(trace') = DOMAIN trace'
      BY <2>5, RecordedTrace
    <3>2. /\ phase = "recording" /\ workflow' = workflow /\ turn' = turn /\ row' = row
          /\ RecordEnds \/ RecordSticks \/ RecordGoesOn
      BY <2>5, RecordCases
    <3>3. CASE RecordEnds \/ RecordSticks
      BY <1>1, <3>1, <3>2, <3>3 DEF RecordEnds, RecordSticks
    <3>4. CASE RecordGoesOn
      <4>1. /\ phase' = "looping" /\ DOMAIN ctx' = CtxFields
            /\ at' = After(workflow, Recorded) /\ ctx'.step = ctx.step + 1
            /\ ctx'.state = Recorded.state
        BY <3>4 DEF RecordGoesOn, NextOf, After
      <4> QED BY <1>1, <3>1, <3>2, <4>1
    <3> QED BY <3>2, <3>3, <3>4
  <2>6. CASE Finalize
    BY <1>1, <2>6, FinalizeFields
  <2>7. CASE Crash
    BY <1>1, <2>7, CrashFields
  <2>8. CASE DeleteCredential
    BY <1>1, <2>8, DeleteFields
  <2>9. CASE UNCHANGED turnVars
    BY <1>1, <2>9 DEF turnVars
  <2> QED BY <2>1, <2>2, <2>3, <2>4, <2>5, <2>6, <2>7, <2>8, <2>9 DEF TurnNext
<1>3. TraceFollowsTheGraph' <=> Follows(workflow', trace')
  BY DEF TraceFollowsTheGraph, Follows, After
<1>4. PathInv'
  BY <1>2, <1>3 DEF PathInv, NextOf, After
<1> QED BY <1>2, <1>4 DEF RunShapes

\* The workflow has a start node, and nothing in it is called "none".
LEMMA StartsSomewhere ==
    ASSUME NEW w \in Workflows
    PROVE  FindStartNode(w) # NoNode
<1> DEFINE S == {n \in DOMAIN w.node : w.node[n].type = "start"}
<1>1. Cardinality(S) = 1 /\ "none" \notin DOMAIN w.node
  BY RunAssumption
<1>2. S # {}
  <2>1. Cardinality({}) = 0
    BY FS_EmptySet
  <2> HIDE DEF S
  <2> QED BY <1>1, <2>1
<1>3. FindStartNode(w) \in S
  BY <1>2 DEF FindStartNode
<1> QED BY <1>1, <1>3 DEF NoNode

\* Every step keeps the ways on: where a worker is lost in the loop, the loop had one.
LEMMA WaysOnKept ==
    ASSUME RunShapes, PathInv, WaysOn, [TurnNext]_turnVars
    PROVE  WaysOn'
<1>1. /\ phase = "asked" /\ trace # <<>> /\ ~endLost => After(workflow, Last(trace)) # NoNode
      /\ phase \in {"looping", "recording"} =>
            at # NoNode /\ (trace # <<>> => at = After(workflow, Last(trace)))
  BY DEF PathInv, WaysOn, NextOf, After
<1>2. /\ phase' = "asked" /\ trace' # <<>> /\ ~endLost' => After(workflow', Last(trace')) # NoNode
      /\ phase' \in {"looping", "recording"} => at' # NoNode
  <2>1. CASE \E kind \in TurnKinds, queued \in BOOLEAN, fresh \in BOOLEAN, set \in Overrides :
                Ask(kind, queued, fresh, set)
    BY <2>1, AskFields
  <2>2. CASE Prepare
    BY <2>2, PreparedFields
  <2>3. CASE StopRun \/ NodeFails \/ NoNextNode
    BY <2>3, StopFields
  <2>4. CASE RunNode
    BY <1>1, <2>4, RunNodeFields
  <2>5. CASE Record
    BY <2>5, RecordCases DEF RecordEnds, RecordSticks, RecordGoesOn
  <2>6. CASE Finalize
    BY <2>6, FinalizeFields
  <2>7. CASE Crash
    BY <1>1, <2>7, CrashFields
  <2>8. CASE DeleteCredential
    BY <1>1, <2>8, DeleteFields
  <2>9. CASE UNCHANGED turnVars
    BY <1>1, <2>9 DEF turnVars
  <2> QED BY <2>1, <2>2, <2>3, <2>4, <2>5, <2>6, <2>7, <2>8, <2>9 DEF TurnNext
<1> QED BY <1>2 DEF WaysOn, NextOf, After

-----------------------------------------------------------------------------
(* What a run answers. *)

\* END with "last agent" puts out what the newest agent of the trace put out.
LEMMA EndSaysTheLastAgent ==
    ASSUME NEW node, NEW c, NEW data, NEW steps, IsSequence(steps), Numbered(steps),
           \A i \in AgentsOf(steps) : DOMAIN steps[i].output # {},
           NEW o \in EndOutcomes(node, c, data, steps),
           node.mode = "last_agent", AgentsOf(steps) # {}
    PROVE  o.data = Newest(AgentsOf(steps), steps).output
<1>1. o = Passing(NewestOutput(AgentsOf(steps), steps, data))
  BY DEF EndOutcomes, AgentsOf
<1>2. AgentsOf(steps) \in SUBSET DOMAIN steps
  BY DEF AgentsOf
<1>3. PICK m \in AgentsOf(steps) : Newest(AgentsOf(steps), steps) = steps[m]
  BY <1>2, NewestIsLast
<1>4. NewestOutput(AgentsOf(steps), steps, data) = Newest(AgentsOf(steps), steps).output
  BY <1>3 DEF NewestOutput
<1> QED BY <1>1, <1>4, PassingFields

\* A step that is no agent's leaves the newest agent step what it was.
LEMMA NewestAgentStays ==
    ASSUME NEW steps, NEW s, IsSequence(steps), Numbered(steps), Numbered(Append(steps, s)),
           s.type # "agent"
    PROVE  /\ AgentsOf(Append(steps, s)) = AgentsOf(steps)
           /\ AgentsOf(steps) # {} =>
                 Newest(AgentsOf(steps), Append(steps, s)) = Newest(AgentsOf(steps), steps)
<1> DEFINE more == Append(steps, s)
<1>1. /\ Len(steps) \in Nat /\ DOMAIN steps = 1..Len(steps) /\ IsSequence(more)
      /\ DOMAIN more = 1..(Len(steps) + 1) /\ more[Len(steps) + 1] = s
      /\ \A i \in 1..Len(steps) : more[i] = steps[i]
  BY IndicesOf, OneMore
<1>2. Numbered(more)
  OBVIOUS
<1> HIDE DEF more
<1>3. DOMAIN more = DOMAIN steps \cup {Len(steps) + 1}
  BY <1>1
<1>4. AgentsOf(more) = AgentsOf(steps)
  BY <1>1, <1>3 DEF AgentsOf
<1>5. ASSUME AgentsOf(steps) # {}
      PROVE  Newest(AgentsOf(steps), more) = Newest(AgentsOf(steps), steps)
  <2>1. /\ AgentsOf(steps) \in SUBSET DOMAIN steps /\ AgentsOf(steps) \subseteq DOMAIN more
        /\ \A i \in AgentsOf(steps) : more[i] = steps[i]
    BY <1>1, <1>3 DEF AgentsOf
  <2> QED BY <1>1, <1>2, <1>5, <2>1, NewestOfLonger
<1> QED BY <1>4, <1>5 DEF more

\* So does the END that the loop runs.
LEMMA RunNodeAnswers ==
    ASSUME RunShapes, PathInv, AnswerInv, RunNode
    PROVE  /\ Node(at).type = "agent" => DOMAIN out'.data # {}
           /\ Node(at).type = "end" => SaysTheLastAgent(at, out'.data, trace)
<1>1. /\ IsSequence(trace) /\ Numbered(trace) /\ phase = "looping"
      /\ \A i \in AgentsOf(trace) : DOMAIN trace[i].output # {}
  BY RunNodeFields, PathOfTheTrace DEF RunShapes, PathInv, AnswerInv, Follows, Numbered
<1>2. /\ Node(at).type = "agent" => out' = Failing \/ "message" \in DOMAIN out'.data
      /\ Node(at).type = "end" => out' \in EndOutcomes(Node(at), ctx, previous, trace)
  BY RunNodeFields, OutcomesAccounted
<1>3. out' # Failing
  BY RunNodeFields DEF Failing, Passing
<1>4. ASSUME Node(at).type = "end" PROVE SaysTheLastAgent(at, out'.data, trace)
  BY <1>1, <1>2, <1>4, EndSaysTheLastAgent DEF SaysTheLastAgent
<1> QED BY <1>2, <1>3, <1>4

\* It is still the newest agent once END itself is in the trace.
LEMMA RecordAnswers ==
    ASSUME RunShapes, PathInv, WaysOn, AnswerInv, Record
    PROVE  /\ phase' # "idle" => \A i \in AgentsOf(trace') : DOMAIN trace'[i].output # {}
           /\ RecordEnds => SaysTheLastAgent(at, out.data, trace')
<1>1. /\ phase = "recording" /\ IsSequence(trace) /\ Follows(workflow, trace)
      /\ \A i \in AgentsOf(trace) : DOMAIN trace[i].output # {}
      /\ Node(at).type = "agent" => DOMAIN out.data # {}
      /\ Node(at).type = "end" => SaysTheLastAgent(at, out.data, trace)
  BY RecordCases, PathOfTheTrace DEF RunShapes, PathInv, AnswerInv
<1>2. trace' = Append(trace, Recorded) /\ Follows(workflow, trace')
  BY RecordedTrace
<1>3. Numbered(trace) /\ Numbered(trace')
  BY <1>1, <1>2 DEF Follows, Numbered
<1>4. \A i \in AgentsOf(trace') : DOMAIN trace'[i].output # {}
  <2>1. /\ Len(trace) \in Nat /\ DOMAIN trace = 1..Len(trace)
        /\ DOMAIN trace' = 1..(Len(trace) + 1) /\ trace'[Len(trace) + 1] = Recorded
        /\ \A i \in 1..Len(trace) : trace'[i] = trace[i]
    BY <1>1, <1>2, IndicesOf, OneMore
  <2>2. ASSUME NEW i \in AgentsOf(trace') PROVE DOMAIN trace'[i].output # {}
    <3>1. CASE i \in 1..Len(trace)
      BY <1>1, <2>1, <3>1 DEF AgentsOf
    <3>2. CASE i = Len(trace) + 1
      BY <1>1, <2>1, <3>2, RecordedFields DEF AgentsOf
    <3> QED BY <2>1, <3>1, <3>2 DEF AgentsOf
  <2> QED BY <2>2
<1>5. ASSUME RecordEnds PROVE SaysTheLastAgent(at, out.data, trace')
  <2>1. Recorded.type # "agent" /\ Node(at).type = "end"
    BY <1>5, RecordedFields DEF RecordEnds
  <2>2. /\ AgentsOf(trace') = AgentsOf(trace)
        /\ AgentsOf(trace) # {} => Newest(AgentsOf(trace), trace') = Newest(AgentsOf(trace), trace)
    BY <1>1, <1>2, <1>3, <2>1, NewestAgentStays
  <2> QED BY <1>1, <2>1, <2>2 DEF SaysTheLastAgent
<1> QED BY <1>4, <1>5

\* Every step keeps what is known of the answer.
LEMMA AnswersKept ==
    ASSUME RunShapes, PathInv, WaysOn, AnswerInv, [TurnNext]_turnVars
    PROVE  AnswerInv'
<1> DEFINE Full(steps) == \A i \in AgentsOf(steps) : DOMAIN steps[i].output # {}
           Says(w, end, data, steps) ==
              w.node[end].mode = "last_agent" /\ AgentsOf(steps) # {} =>
                 data = Newest(AgentsOf(steps), steps).output
           Answers(w, n, data, steps) ==
              /\ w.node[n].type = "agent" => DOMAIN data # {}
              /\ w.node[n].type = "end" => Says(w, n, data, steps)
           Ended(w, n, data, steps) ==
              /\ steps # <<>> /\ n # NoNode
              /\ Last(steps).type = "end" /\ Last(steps).node = n /\ Last(steps).output = data
              /\ Says(w, n, data, steps)
<1>1. /\ phase # "idle" => Full(trace)
      /\ phase = "recording" => Answers(workflow, at, out.data, trace)
      /\ phase = "finalizing" /\ ~endLost => Ended(workflow, at, out.data, trace)
      /\ AnswersForTheLastAgent
      /\ phase # "idle" => Completed(trace) = DOMAIN trace
  BY DEF AnswerInv, PathInv, SaysTheLastAgent, Node
<1>2. /\ phase' # "idle" => Full(trace')
      /\ phase' = "recording" => Answers(workflow', at', out'.data, trace')
      /\ phase' = "finalizing" /\ ~endLost' => Ended(workflow', at', out'.data, trace')
      /\ AnswersForTheLastAgent'
  <2>1. CASE \E kind \in TurnKinds, queued \in BOOLEAN, fresh \in BOOLEAN, set \in Overrides :
                Ask(kind, queued, fresh, set)
    <3>1. Full(<<>>)
      BY EmptySequence DEF AgentsOf
    <3> HIDE DEF Full, Answers, Ended
    <3> QED BY <2>1, <3>1, AskFields DEF AnswersForTheLastAgent, Settled
  <2>2. CASE Prepare
    <3>1. /\ phase = "asked" /\ trace' = trace /\ endLost' = endLost /\ workflow' = workflow
          /\ phase' \in {"finalizing", "looping"}
          /\ phase' = "finalizing" => at' = NoNode
          /\ trace = <<>> => at' = FindStartNode(workflow)
          /\ trace # <<>> => at' = NextOf(Last(trace))
      BY <2>2, PreparedFields DEF pastVars
    <3>2. phase' = "finalizing" => endLost'
      <4>1. trace = <<>> => at' # NoNode
        BY <3>1, StartsSomewhere DEF RunShapes
      <4> QED BY <3>1, <4>1 DEF WaysOn
    <3> HIDE DEF Full, Answers, Ended
    <3> QED BY <1>1, <3>1, <3>2 DEF AnswersForTheLastAgent, Settled
  <2>3. CASE StopRun \/ NodeFails \/ NoNextNode
    <3> HIDE DEF Full, Answers, Ended
    <3> QED BY <2>3, StopFields DEF AnswersForTheLastAgent, Settled
  <2>4. CASE RunNode
    <3>1. Answers(workflow', at', out'.data, trace')
      BY <2>4, RunNodeAnswers, RunNodeFields DEF SaysTheLastAgent, Node
    <3> HIDE DEF Full, Answers, Ended
    <3> QED BY <1>1, <2>4, <3>1, RunNodeFields DEF AnswersForTheLastAgent, Settled
  <2>5. CASE Record
    <3>1. /\ phase = "recording" /\ workflow' = workflow /\ out' = out
          /\ trace' # <<>> /\ Last(trace') = Recorded
          /\ RecordEnds \/ RecordSticks \/ RecordGoesOn
      BY <2>5, RecordCases, RecordedTrace
    <3>2. /\ phase' # "idle" => Full(trace')
          /\ RecordEnds => Says(workflow, at, out.data, trace')
      BY <2>5, RecordAnswers DEF SaysTheLastAgent, Node
    <3>3. CASE RecordEnds
      <4>1. at # NoNode /\ at' = at /\ phase' = "finalizing" /\ Node(at).type = "end"
        BY <3>1, <3>3 DEF WaysOn, RecordEnds
      <4>2. Ended(workflow', at', out'.data, trace')
        BY <3>1, <3>2, <3>3, <4>1, RecordedFields
      <4> HIDE DEF Full, Answers, Ended
      <4> QED BY <3>2, <4>1, <4>2 DEF AnswersForTheLastAgent, Settled
    <3>4. CASE RecordSticks
      <4> HIDE DEF Full, Answers, Ended
      <4> QED BY <3>2, <3>4 DEF RecordSticks, AnswersForTheLastAgent, Settled
    <3>5. CASE RecordGoesOn
      <4> HIDE DEF Full, Answers, Ended
      <4> QED BY <3>2, <3>5 DEF RecordGoesOn, AnswersForTheLastAgent, Settled
    <3> QED BY <3>1, <3>3, <3>4, <3>5
  <2>6. CASE Finalize
    <3>1. /\ phase = "finalizing" /\ phase' = "idle"
          /\ row'.output = out.data /\ row'.closed = (at # NoNode /\ Node(at).ends)
          /\ UNCHANGED <<workflow, trace, endLost>>
      BY <2>6, FinalizeFields
    <3>2. AnswersForTheLastAgent'
      <4>1. ASSUME ~endLost'
            PROVE  /\ Last(trace').type = "end" /\ row'.output = Last(trace').output
                   /\ row'.closed <=> workflow'.node[Last(trace').node].ends
                   /\ Says(workflow', Last(trace').node, row'.output, trace')
        <5>1. Ended(workflow, at, out.data, trace)
          BY <1>1, <3>1, <4>1
        <5> QED BY <3>1, <5>1 DEF Node
      <4>2. {i \in Completed(trace') : trace'[i].type = "agent"} = AgentsOf(trace')
        BY <1>1, <3>1 DEF AgentsOf
      <4> QED BY <4>1, <4>2 DEF AnswersForTheLastAgent, Node
    <3> HIDE DEF Full, Answers, Ended
    <3> QED BY <3>1, <3>2
  <2>7. CASE Crash
    <3> HIDE DEF Full, Answers, Ended
    <3> QED BY <1>1, <2>7, CrashFields DEF AnswersForTheLastAgent, Settled
  <2>8. CASE DeleteCredential \/ UNCHANGED turnVars
    <3>1. UNCHANGED <<workflow, phase, at, out, trace, row, endLost>>
      BY <2>8, DeleteFields DEF turnVars
    <3>2. AnswersForTheLastAgent'
      BY <1>1, <3>1 DEF AnswersForTheLastAgent, Settled, Completed, Node
    <3> HIDE DEF Full, Answers, Ended
    <3> QED BY <1>1, <3>1, <3>2
  <2> QED BY <2>1, <2>2, <2>3, <2>4, <2>5, <2>6, <2>7, <2>8 DEF TurnNext
<1> QED BY <1>2 DEF AnswerInv, SaysTheLastAgent, Node

-----------------------------------------------------------------------------
(* What it is billed. *)

\* Every step keeps what is known of the bill.
LEMMA BillsKept ==
    ASSUME RunShapes, PathInv, BillInv, [TurnNext]_turnVars
    PROVE  BillInv'
<1> USE DEF BillInv
<1>1. CASE \E kind \in TurnKinds, queued \in BOOLEAN, fresh \in BOOLEAN, set \in Overrides :
              Ask(kind, queued, fresh, set)
  BY <1>1, AskFields DEF BilledWhatItUsed, Settled
<1>2. CASE Prepare
  BY <1>2, PreparedFields, AmountsAgree, AgreeAlone DEF pastVars, BilledWhatItUsed, Settled
<1>3. CASE StopRun \/ NodeFails \/ NoNextNode
  BY <1>3, StopFields DEF BilledWhatItUsed, Settled
<1>4. CASE RunNode
  <2>1. Accounted(out')
    BY <1>4, RunNodeFields, OutcomesAccounted
  <2>2. /\ phase = "looping" /\ phase' = "recording" /\ row' = row /\ ctx' = ctx
        /\ spent' = Adding(spent, out'.spent) /\ mixed' = (mixed \/ out'.mixed)
    BY <1>4, RunNodeFields
  <2>3. Agree(ctx.cost, spent, mixed) /\ Agree(out'.bill, out'.spent, out'.mixed)
    BY <2>1, <2>2 DEF Accounted
  <2>5. mixed' \in BOOLEAN /\ (~mixed' => ~mixed /\ ~out'.mixed)
    BY <2>2, <2>3 DEF Agree
  <2>4. Agree(Adding(ctx.cost, out'.bill), Adding(spent, out'.spent), mixed')
    BY <2>3, <2>5, AgreeTogether
  <2> QED BY <2>2, <2>4 DEF BilledWhatItUsed, Settled
<1>5. CASE Record
  <2>1. /\ phase = "recording" /\ UNCHANGED <<row, spent, mixed>>
        /\ RecordEnds \/ RecordSticks \/ RecordGoesOn
    BY <1>5, RecordCases
  <2> QED BY <2>1 DEF RecordEnds, RecordSticks, RecordGoesOn, BilledWhatItUsed, Settled
<1>6. CASE Finalize
  BY <1>6, FinalizeFields DEF Agree, BilledWhatItUsed, Settled
<1>7. CASE Crash
  BY <1>7, CrashFields DEF BilledWhatItUsed, Settled
<1>8. CASE DeleteCredential
  BY <1>8, DeleteFields DEF BilledWhatItUsed, Settled
<1>9. CASE UNCHANGED turnVars
  BY <1>9 DEF turnVars, BilledWhatItUsed, Settled
<1> QED BY <1>1, <1>2, <1>3, <1>4, <1>5, <1>6, <1>7, <1>8, <1>9 DEF TurnNext

-----------------------------------------------------------------------------
(* What a turn leaves in the conversation before it is finalized. *)

\* One chat replaced by another.
LEMMA OneChat ==
    ASSUME NEW cs, Well(cs), NEW k, NEW r,
           DOMAIN r = {"state", "messages", "active"}, IsSequence(r.messages)
    PROVE  Well([cs EXCEPT ![k] = r])
<1>1. PICK S : cs \in Seq(S)
  BY DEF Well, IsSequence
<1>2. Len(cs) \in Nat /\ DOMAIN cs = 1..Len(cs)
  BY DEF Well, IndicesOf
<1>3. /\ DOMAIN [cs EXCEPT ![k] = r] = DOMAIN cs
      /\ \A i \in DOMAIN cs : [cs EXCEPT ![k] = r][i] = IF i = k THEN r ELSE cs[i]
  BY <1>1, <1>2
<1>4. [cs EXCEPT ![k] = r] \in Seq(S \cup {r})
  <2>1. cs \in Seq(S \cup {r})
    BY <1>1
  <2>2. CASE k \in 1..Len(cs)
    BY <2>1, <2>2, ExceptSeq
  <2>3. CASE k \notin 1..Len(cs)
    <3>1. [cs EXCEPT ![k] = r] = cs
      BY <1>1, <1>2, <2>3
    <3> QED BY <2>1, <3>1
  <2> QED BY <2>2, <2>3
<1> HIDE DEF Well
<1>5. IsSequence([cs EXCEPT ![k] = r])
  BY <1>4 DEF IsSequence
<1> QED BY <1>3, <1>5 DEF Well

\* A chat more leaves the others what they were.
LEMMA OneChatMore ==
    ASSUME NEW cs, Well(cs), NEW r,
           DOMAIN r = {"state", "messages", "active"}, IsSequence(r.messages)
    PROVE  /\ Well(Append(cs, r))
           /\ DOMAIN cs \subseteq DOMAIN Append(cs, r)
           /\ \A i \in DOMAIN cs : Append(cs, r)[i] = cs[i]
<1>1. /\ Len(cs) \in Nat /\ DOMAIN cs = 1..Len(cs) /\ IsSequence(Append(cs, r))
      /\ DOMAIN Append(cs, r) = 1..(Len(cs) + 1) /\ Append(cs, r)[Len(cs) + 1] = r
      /\ \A i \in 1..Len(cs) : Append(cs, r)[i] = cs[i]
  BY IndicesOf, OneMore DEF Well
<1>2. DOMAIN Append(cs, r) = DOMAIN cs \cup {Len(cs) + 1}
  BY <1>1
<1> HIDE DEF Well
<1>3. ASSUME NEW i \in DOMAIN Append(cs, r)
      PROVE  /\ DOMAIN Append(cs, r)[i] = {"state", "messages", "active"}
             /\ IsSequence(Append(cs, r)[i].messages)
  BY <1>1, <1>2 DEF Well
<1> QED BY <1>1, <1>2, <1>3 DEF Well

\* What a transcription node heard.
Transcribed == From("user", Text("transcript"))

\* A transcript put into the chat of the run.
LEMMA TranscriptIsNoSign ==
    ASSUME NEW old, NEW cs, Well(old), Well(cs), Unchanged(old, cs), NEW k
    PROVE  /\ Well([cs EXCEPT ![k].messages = Append(@, Transcribed)])
           /\ Unchanged(old, [cs EXCEPT ![k].messages = Append(@, Transcribed)])
<1> DEFINE new == [cs EXCEPT ![k].messages = Append(@, Transcribed)]
           r == [cs[k] EXCEPT !.messages = Append(@, Transcribed)]
<1>1. CASE k \notin DOMAIN cs
  <2>1. new = cs
    <3>1. PICK S : cs \in Seq(S)
      BY DEF Well, IsSequence
    <3> QED BY <1>1, <3>1
  <2> QED BY <2>1
<1>2. CASE k \in DOMAIN cs
  <2>1. DOMAIN cs[k] = {"state", "messages", "active"} /\ IsSequence(cs[k].messages)
    BY <1>2 DEF Well
  <2>2. /\ DOMAIN r = {"state", "messages", "active"} /\ r.messages = Append(cs[k].messages, Transcribed)
        /\ r.state = cs[k].state /\ r.active = cs[k].active
    BY <2>1
  <2>3. new = [cs EXCEPT ![k] = r]
    OBVIOUS
  <2> HIDE DEF r, new
  <2>4. Well(new)
    <3>1. IsSequence(r.messages)
      BY <2>1, <2>2, OneMore
    <3> QED BY <2>2, <2>3, <3>1, OneChat
  <2>5. /\ DOMAIN new = DOMAIN cs
        /\ \A i \in DOMAIN cs : new[i] = IF i = k THEN r ELSE cs[i]
    BY <2>3
  <2>6. ASSUME NEW i \in DOMAIN old
        PROVE  /\ new[i].state = old[i].state /\ new[i].active = old[i].active
               /\ OnlyTranscripts(old[i].messages, new[i].messages)
    <3>1. /\ i \in DOMAIN cs /\ cs[i].state = old[i].state /\ cs[i].active = old[i].active
          /\ OnlyTranscripts(old[i].messages, cs[i].messages)
      BY DEF Unchanged
    <3>2. CASE i # k
      BY <2>5, <3>1, <3>2
    <3>3. CASE i = k
      <4> DEFINE m == old[i].messages
                 n == cs[k].messages
                 t == Append(n, Transcribed)
      <4>1. new[i] = r /\ r.messages = t
        BY <2>2, <2>5, <3>1, <3>3
      <4>2. OnlyTranscripts(m, n) /\ IsSequence(m) /\ IsSequence(n)
        BY <2>1, <3>1, <3>3 DEF Well
      <4> HIDE DEF m, n
      <4>3. /\ Len(m) \in Nat /\ Len(n) \in Nat /\ DOMAIN n = 1..Len(n)
            /\ Len(t) = Len(n) + 1 /\ DOMAIN t = 1..(Len(n) + 1) /\ t[Len(n) + 1] = Transcribed
            /\ \A j \in 1..Len(n) : t[j] = n[j]
        BY <4>2, IndicesOf, OneMore
      <4> HIDE DEF t
      <4>4. Len(m) <= Len(n) /\ \A j \in DOMAIN n : n[j] = IF j <= Len(m) THEN m[j] ELSE Transcribed
        BY <4>2 DEF OnlyTranscripts, Transcribed
      <4>5. OnlyTranscripts(m, t)
        BY <4>3, <4>4 DEF OnlyTranscripts, Transcribed
      <4> QED BY <2>2, <3>1, <3>3, <4>1, <4>5 DEF m
    <3> QED BY <3>2, <3>3
  <2>7. Unchanged(old, new)
    BY <2>5, <2>6 DEF Unchanged
  <2> QED BY <2>4, <2>7 DEF new
<1> QED BY <1>1, <1>2

\* Nothing has changed yet when a turn is asked.
LEMMA UnchangedFromItself ==
    ASSUME NEW cs, Well(cs)
    PROVE  Unchanged(cs, cs)
<1>1. ASSUME NEW i \in DOMAIN cs PROVE OnlyTranscripts(cs[i].messages, cs[i].messages)
  <2>1. Len(cs[i].messages) \in Nat /\ DOMAIN cs[i].messages = 1..Len(cs[i].messages)
    BY IndicesOf DEF Well
  <2> QED BY <2>1 DEF OnlyTranscripts
<1> QED BY <1>1 DEF Unchanged

\* A session of its own is opened beside the others.
LEMMA OpenedIsNoSign ==
    ASSUME NEW old, Well(old), Well(chats), Unchanged(old, chats)
    PROVE  Well(Opened) /\ Unchanged(old, Opened)
<1>1. CASE ~turn.fresh
  BY <1>1 DEF Opened
<1>2. CASE turn.fresh
  <2>1. PICK m : /\ Opened = Append(chats, [Chat EXCEPT !.messages = m])
                 /\ IsSequence(m)
    BY <1>2, EmptySequence, SingleSequence DEF Opened
  <2> DEFINE r == [Chat EXCEPT !.messages = m]
  <2>2. DOMAIN r = {"state", "messages", "active"} /\ r.messages = m
    BY DEF Chat
  <2> HIDE DEF r
  <2>3. /\ Well(Opened) /\ DOMAIN chats \subseteq DOMAIN Opened
        /\ \A i \in DOMAIN chats : Opened[i] = chats[i]
    BY <2>1, <2>2, OneChatMore DEF r
  <2> QED BY <2>3 DEF Unchanged
<1> QED BY <1>1, <1>2

\* The defaults of new variables are added once.
LEMMA SyncedOnce ==
    ASSUME NEW state
    PROVE  /\ Synced(Synced(state)) = Synced(state)
           /\ \A k \in DOMAIN Synced(state) :
                 Synced(state)[k] = IF k \in DOMAIN state THEN state[k]
                                    ELSE TypedDefault(ProjectSchema[k])
<1>1. DOMAIN Synced(state) = DOMAIN state \cup DOMAIN ProjectSchema
  BY DEF Synced
<1>2. Synced(Synced(state)) = [v \in DOMAIN state \cup DOMAIN ProjectSchema |-> Synced(state)[v]]
  BY <1>1 DEF Synced
<1> QED BY <1>1, <1>2 DEF Synced

\* Finalization keeps the chats well formed.
LEMMA FinalizedChats ==
    ASSUME RunShapes, Well(chats), Finalize
    PROVE  Well(chats')
<1> DEFINE k == ctx.chat
           r == [chats[k] EXCEPT !.state = ctx.state @@ @, !.messages = @ \o Stored,
                                 !.active = @ /\ ~(at # NoNode /\ Node(at).ends)]
<1>1. chats' = [chats EXCEPT ![k] = r]
  BY FinalizeFields
<1>2. IsSequence(Stored)
  <2> DEFINE Kept(m) == IF Truthy(m.content) THEN <<m>> ELSE <<>>
  <2>1. \A m : IsSequence(Kept(m))
    BY ONLY EmptySequence, SingleSequence
  <2>2. \E m, w : Stored = Kept(m) \o Kept(w)
    BY ONLY DEF Stored
  <2> HIDE DEF Kept
  <2>3. PICK s, t : Stored = s \o t /\ IsSequence(s) /\ IsSequence(t)
    BY ONLY <2>1, <2>2
  <2> QED BY <2>3, BothSequences
<1>3. CASE k \in DOMAIN chats
  <2>1. DOMAIN chats[k] = {"state", "messages", "active"} /\ IsSequence(chats[k].messages)
    BY <1>3 DEF Well
  <2>2. DOMAIN r = {"state", "messages", "active"} /\ r.messages = chats[k].messages \o Stored
    BY <2>1
  <2>3. IsSequence(r.messages)
    BY <1>2, <2>1, <2>2, BothSequences
  <2> HIDE DEF r, k
  <2> QED BY <1>1, <2>2, <2>3, OneChat
<1>4. CASE k \notin DOMAIN chats
  <2>1. PICK S : chats \in Seq(S)
    BY DEF Well, IsSequence
  <2> HIDE DEF r, k
  <2>2. chats' = chats
    BY <1>1, <1>4, <2>1
  <2> QED BY <2>2
<1> QED BY <1>3, <1>4

\* A turn that ends before it is finalized has left no sign.
LEMMA NoSign ==
    ASSUME NEW cs, NEW kept, NEW bill, Unchanged(before.chats, cs),
           kept \in {before.client, Synced(before.client)}, bill = NoCost
    PROVE  /\ \A k \in DOMAIN kept :
                 kept[k] = IF k \in DOMAIN before.client THEN before.client[k]
                           ELSE TypedDefault(ProjectSchema[k])
           /\ bill = NoCost
           /\ \A i \in DOMAIN before.chats :
                 /\ cs[i].state = before.chats[i].state
                 /\ cs[i].active = before.chats[i].active
                 /\ OnlyTranscripts(before.chats[i].messages, cs[i].messages)
<1>1. \A k \in DOMAIN kept : kept[k] = IF k \in DOMAIN before.client THEN before.client[k]
                                         ELSE TypedDefault(ProjectSchema[k])
  BY SyncedOnce
<1> QED BY <1>1 DEF Unchanged

\* Every step keeps what is known of the conversation.
LEMMA TalkKept ==
    ASSUME RunShapes, PathInv, BillInv, TalkInv, [TurnNext]_turnVars
    PROVE  TalkInv'
<1>1. /\ Well(before.chats) /\ Well(chats) /\ Well(stored.chats)
      /\ phase = "idle" => stored.chats = chats /\ stored.client = client
      /\ phase # "idle" => /\ Unchanged(before.chats, chats) /\ Unchanged(before.chats, stored.chats)
                           /\ client \in {before.client, Synced(before.client)}
                           /\ stored.client \in {before.client, Synced(before.client)}
                           /\ row.bill = NoCost
      /\ FailedTurnLeavesNothing
  BY DEF TalkInv, BillInv
<1> DEFINE Between == phase' = "idle" => stored'.chats = chats' /\ stored'.client = client'
           Meanwhile == phase' # "idle" =>
                          /\ Unchanged(before'.chats, chats')
                          /\ Unchanged(before'.chats, stored'.chats)
                          /\ client' \in {before'.client, Synced(before'.client)}
                          /\ stored'.client \in {before'.client, Synced(before'.client)}
           Talks == /\ Well(before'.chats) /\ Well(chats') /\ Well(stored'.chats)
                    /\ Between /\ Meanwhile /\ FailedTurnLeavesNothing'
<1>2. Talks
  <2>1. CASE \E kind \in TurnKinds, queued \in BOOLEAN, fresh \in BOOLEAN, set \in Overrides :
                Ask(kind, queued, fresh, set)
    BY <1>1, <2>1, AskFields, UnchangedFromItself DEF FailedTurnLeavesNothing
  <2>2. CASE Prepare
    <3>1. /\ phase = "asked" /\ phase' # "idle" /\ chats' = Opened /\ client' = Synced(client)
          /\ UNCHANGED <<stored, before>>
      BY <2>2, PreparedFields DEF pastVars
    <3>2. Well(Opened) /\ Unchanged(before.chats, Opened)
      BY <1>1, <3>1, OpenedIsNoSign
    <3>3. Synced(client) \in {before.client, Synced(before.client)}
      BY <1>1, <3>1, SyncedOnce
    <3> QED BY <1>1, <3>1, <3>2, <3>3 DEF FailedTurnLeavesNothing
  <2>3. CASE StopRun \/ NodeFails \/ NoNextNode
    <3>1. /\ phase # "idle" /\ phase' = "idle" /\ row'.bill = row.bill
          /\ chats' = chats /\ client' = client /\ before' = before
          /\ stored'.chats = chats /\ stored'.client = client
      BY <2>3, StopFields
    <3>2. FailedTurnLeavesNothing'
      BY <1>1, <3>1, NoSign DEF FailedTurnLeavesNothing
    <3> QED BY <1>1, <3>1, <3>2
  <2>4. CASE RunNode
    <3>1. /\ phase = "looping" /\ phase' = "recording" /\ UNCHANGED <<client, before>>
          /\ stored' = IF Node(at).type = "agent" THEN Now ELSE stored
          /\ chats' = IF out'.saves = Null THEN chats
                      ELSE [chats EXCEPT ![ctx.chat].messages = Append(@, From("user", out'.saves))]
      BY <2>4, RunNodeFields
    <3>2. out'.saves \in {Null, Text("transcript")}
      BY <2>4, RunNodeFields, OutcomesAccounted DEF Accounted
    <3>3. Well(chats') /\ Unchanged(before.chats, chats')
      <4>1. CASE out'.saves = Null
        BY <1>1, <3>1, <4>1
      <4>2. CASE out'.saves = Text("transcript") /\ out'.saves # Null
        <5>1. chats' = [chats EXCEPT ![ctx.chat].messages = Append(@, Transcribed)]
          BY <3>1, <4>2 DEF Transcribed
        <5>2. Well(before.chats) /\ Well(chats) /\ Unchanged(before.chats, chats)
          BY <1>1, <3>1
        <5>3. /\ Well([chats EXCEPT ![ctx.chat].messages = Append(@, Transcribed)])
              /\ Unchanged(before.chats, [chats EXCEPT ![ctx.chat].messages = Append(@, Transcribed)])
          BY <5>2, TranscriptIsNoSign
        <5> QED BY <5>1, <5>3
      <4> QED BY <3>2, <4>1, <4>2
    <3>4. /\ stored'.chats \in {chats, stored.chats} /\ stored'.client \in {client, stored.client}
      BY <3>1 DEF Now
    <3> QED BY <1>1, <3>1, <3>3, <3>4 DEF FailedTurnLeavesNothing
  <2>5. CASE Record
    <3>1. /\ phase = "recording" /\ phase' # "idle" /\ UNCHANGED <<chats, client, before>>
          /\ stored'.chats = chats /\ stored'.client = client
      BY <2>5, RecordCases DEF RecordEnds, RecordSticks, RecordGoesOn
    <3> QED BY <1>1, <3>1 DEF FailedTurnLeavesNothing
  <2>6. CASE Finalize
    <3>1. /\ phase' = "idle" /\ before' = before /\ row'.status # "FAILED"
          /\ stored'.chats = chats' /\ stored'.client = client'
      BY <2>6, FinalizeFields
    <3>2. Well(chats')
      BY <1>1, <2>6, FinalizedChats
    <3> QED BY <1>1, <3>1, <3>2 DEF FailedTurnLeavesNothing
  <2>7. CASE Crash
    BY <1>1, <2>7, CrashFields DEF FailedTurnLeavesNothing
  <2>8. CASE DeleteCredential \/ UNCHANGED turnVars
    <3>1. UNCHANGED <<phase, row, chats, stored, client, before>>
      BY <2>8, DeleteFields DEF turnVars
    <3>2. FailedTurnLeavesNothing'
      BY <1>1, <3>1 DEF FailedTurnLeavesNothing
    <3> QED BY <1>1, <3>1, <3>2
  <2> QED BY <2>1, <2>2, <2>3, <2>4, <2>5, <2>6, <2>7, <2>8 DEF TurnNext
<1> QED BY <1>2 DEF TalkInv

-----------------------------------------------------------------------------
TurnInv == RunShapes /\ PathInv /\ WaysOn /\ AnswerInv /\ BillInv /\ TalkInv

\* Before the first turn all of it holds.
LEMMA TurnInit_Inv ==
    ASSUME TurnInit
    PROVE  TurnInv
<1>1. /\ phase = "idle" /\ trace = <<>> /\ row = NoRow /\ workflow \in Workflows
      /\ chats = <<Chat>> /\ client = ClientState
      /\ before.chats = chats /\ stored.chats = chats /\ stored.client = client
  BY DEF TurnInit
<1>2. row.status = "none" /\ DOMAIN row = RowFields
  BY <1>1 DEF NoRow, RowFields
<1>3. RunShapes
  BY <1>1, <1>2, EmptySequence DEF RunShapes
<1>4. PathInv /\ WaysOn
  BY <1>1, EmptySequence DEF PathInv, WaysOn, TraceFollowsTheGraph
<1>5. AnswerInv /\ BillInv
  BY <1>1, <1>2 DEF AnswerInv, BillInv, AnswersForTheLastAgent, BilledWhatItUsed, Settled
<1>6. TalkInv
  <2>1. Well(<<Chat>>)
    <3>1. IsSequence(<<Chat>>) /\ Len(<<Chat>>) = 1 /\ <<Chat>>[1] = Chat
      BY SingleSequence
    <3>2. DOMAIN <<Chat>> = 1..1
      BY <3>1, IndicesOf
    <3>3. DOMAIN Chat = {"state", "messages", "active"} /\ IsSequence(Chat.messages)
      BY EmptySequence DEF Chat
    <3>4. \A i \in DOMAIN <<Chat>> : <<Chat>>[i] = Chat
      BY <3>1, <3>2
    <3> QED BY <3>1, <3>3, <3>4 DEF Well
  <2> QED BY <1>1, <1>2, <2>1 DEF TalkInv, FailedTurnLeavesNothing
<1> QED BY <1>3, <1>4, <1>5, <1>6 DEF TurnInv

\* The inductive invariant of the sequential engine and its phases.
THEOREM TurnInvHolds == TurnSpec => []TurnInv
<1>1. TurnInit => TurnInv
  BY TurnInit_Inv
<1>2. TurnInv /\ [TurnNext]_turnVars => TurnInv'
  BY PathKept, WaysOnKept, AnswersKept, BillsKept, TalkKept DEF TurnInv
<1> QED BY <1>1, <1>2, PTL DEF TurnSpec

\* The trace that execution_steps holds is one way through the graph, from the start
\* node, each step the successor of the one before along its branch, whatever crashes and
\* resumptions the run went through: for any workflows without a fork or a join.
THEOREM PathOfEveryRun == TurnSpec => []TraceFollowsTheGraph
<1>1. TurnInv => TraceFollowsTheGraph
  BY DEF TurnInv, PathInv
<1> QED BY <1>1, TurnInvHolds, PTL

\* _handle_error: a failed turn changes no variable of the chat or the client beyond
\* defaults of new ones, bills nothing, and adds transcripts at most.
THEOREM FailuresLeaveNothing == TurnSpec => []FailedTurnLeavesNothing
<1>1. TurnInv => FailedTurnLeavesNothing
  BY DEF TurnInv, TalkInv
<1> QED BY <1>1, TurnInvHolds, PTL

\* CostAccumulator: a run is billed what its nodes used since it was last taken up,
\* bucket by bucket, or in the same amounts when a fallback answered on another kind
\* of key, for any outcomes of any nodes.
THEOREM RunsAreBilledTheirUse == TurnSpec => []BilledWhatItUsed
<1>1. TurnInv => BilledWhatItUsed
  BY DEF TurnInv, BillInv
<1> QED BY <1>1, TurnInvHolds, PTL

\* get_last_agent_output: a settled run reports what END put out, with "last agent"
\* the newest agent of the trace, also when it was resumed behind it: for any workflows
\* without a fork or a join, and a worker not lost behind the run's last node.
THEOREM RunsAnswerForTheLastAgent == TurnSpec => []AnswersForTheLastAgent
<1>1. TurnInv => AnswersForTheLastAgent
  BY DEF TurnInv, AnswerInv
<1> QED BY <1>1, TurnInvHolds, PTL

-----------------------------------------------------------------------------
(* CreditLedger. *)


\* A session holds a row only between the UPDATE that took it and its end, and a
\* payment's row only on behalf of a notification for that payment.
LocksHeldInWork ==
    /\ \A s \in Sessions :
          /\ pc[s] \in {"read", "status", "topup", "activate"} => work[s].payment \in Payments
          /\ accountLock = s => pc[s] \in {"deduct", "commit"}
    /\ \A s \in Sessions, p \in Payments :
          paymentLock[p] = s => /\ work[s].payment = p
                                /\ pc[s] \in {"topup", "activate", "commit"}

TypeInv == TypeOK /\ LocksHeldInWork

Conserved(a) == Balance(a) + a.spent + a.expired = a.issued + a.bought

\* The effect a confirmed payment has to have.
Delivered(a, p) == IF p \in Packs THEN a.topups[p] > 0 ELSE a.plan = PaidPlan

\* Nothing that was delivered is taken back.
Keeps(old, new) == \A p \in Payments : Delivered(old, p) => Delivered(new, p)

\* What an uncommitted account says next to the committed one. Only a grant
\* precedes the deduction of a session, and it leaves the purchased part alone.
DraftInv ==
    /\ Conserved(account)
    /\ \A s \in Sessions :
          accountLock = s =>
              /\ Conserved(draft)
              /\ Keeps(account, draft)
              /\ pc[s] = "deduct" => draft.purchased = account.purchased
              /\ draft.purchased < account.purchased => draft.granted = 0

\* A notification that is about to commit "confirmed" has delivered.
ConfirmationInv ==
    /\ \A p \in Payments : status[p] = "confirmed" => Delivered(account, p)
    /\ \A s \in Sessions, p \in Payments :
          paymentLock[p] = s /\ work[s].status = "confirmed" =>
              /\ pc[s] = "topup" => p \in Packs
              /\ pc[s] = "activate" => p \notin Packs
              /\ pc[s] = "commit" => Delivered(View(s), p)

Inv == TypeInv /\ DraftInv /\ ConfirmationInv

-----------------------------------------------------------------------------
(* The operators on accounts. *)

\* What each of them promises of the account it returns.
Sound(old, new) == new \in Account /\ (Conserved(old) => Conserved(new)) /\ Keeps(old, new)

\* A new account is sound.
LEMMA OpeningSound == Opening \in Account /\ Conserved(Opening)
<1>1. Opening \in Account
  BY LedgerAssumption DEF Opening, Account, Months
<1>2. Conserved(Opening)
  BY DEF Opening, Conserved, Balance
<1> QED BY <1>1, <1>2

\* A deduction the balance covers: granted part first, and nothing goes negative.
LEMMA SpendSound ==
    ASSUME NEW a \in Account, NEW amount \in Nat, amount <= Balance(a)
    PROVE  /\ Sound(a, Spend(a, amount))
           /\ Spend(a, amount).purchased <= a.purchased
           /\ Spend(a, amount).purchased < a.purchased => Spend(a, amount).granted = 0
<1> DEFINE g == Least(a.granted, amount)
           b == Spend(a, amount)
<1>1. /\ a.granted \in Nat /\ a.purchased \in Nat /\ a.spent \in Nat /\ a.expired \in Nat
      /\ a.issued \in Nat /\ a.bought \in Nat
  BY DEF Account
<1>2. /\ g \in Nat /\ g <= a.granted /\ g <= amount /\ amount - g <= a.purchased
      /\ g < amount => g = a.granted
  BY <1>1 DEF Least, Balance
<1>3. b = [a EXCEPT !.granted = a.granted - g, !.purchased = a.purchased - (amount - g),
                    !.spent = a.spent + amount]
  BY DEF Spend
<1> HIDE DEF g, b
<1>4. /\ a.granted - g \in Nat /\ a.purchased - (amount - g) \in Nat
      /\ a.spent + amount \in Nat
  BY <1>1, <1>2
<1>5. b \in Account
  BY <1>3, <1>4 DEF Account
<1>6. /\ b.granted = a.granted - g /\ b.purchased = a.purchased - (amount - g)
      /\ b.spent = a.spent + amount /\ b.expired = a.expired
      /\ b.issued = a.issued /\ b.bought = a.bought
      /\ b.topups = a.topups /\ b.plan = a.plan
  BY <1>3 DEF Account
<1>7. Conserved(a) => Conserved(b)
  BY <1>1, <1>2, <1>6 DEF Conserved, Balance
<1>8. Keeps(a, b)
  BY <1>6 DEF Keeps, Delivered
<1>9. b.purchased <= a.purchased /\ (b.purchased < a.purchased => b.granted = 0)
  BY <1>1, <1>2, <1>6
<1> QED BY <1>5, <1>7, <1>8, <1>9 DEF Sound, b

\* A grant overwrites the granted part and leaves the purchased one alone.
LEMMA ReissueSound ==
    ASSUME NEW a \in Account, NEW plan \in Plans, NEW period \in Months
    PROVE  /\ Sound(a, Reissue(a, plan, period))
           /\ Reissue(a, plan, period).purchased = a.purchased
           /\ Reissue(a, plan, period).grants = a.grants
<1> DEFINE b == Reissue(a, plan, period)
<1>1. /\ a.granted \in Nat /\ a.purchased \in Nat /\ a.spent \in Nat /\ a.expired \in Nat
      /\ a.issued \in Nat /\ a.bought \in Nat /\ Allowance[plan] \in Nat
  BY LedgerAssumption DEF Account
<1>2. b = [a EXCEPT !.granted = Allowance[plan], !.period = period,
                    !.issued = a.issued + Allowance[plan],
                    !.expired = a.expired + a.granted]
  BY DEF Reissue
<1> HIDE DEF b
<1>3. a.issued + Allowance[plan] \in Nat /\ a.expired + a.granted \in Nat
  BY <1>1
<1>4. b \in Account
  BY <1>1, <1>2, <1>3 DEF Account
<1>5. /\ b.granted = Allowance[plan] /\ b.issued = a.issued + Allowance[plan]
      /\ b.expired = a.expired + a.granted /\ b.purchased = a.purchased
      /\ b.spent = a.spent /\ b.bought = a.bought /\ b.topups = a.topups
      /\ b.plan = a.plan /\ b.grants = a.grants
  BY <1>2 DEF Account
<1>6. Conserved(a) => Conserved(b)
  BY <1>1, <1>5 DEF Conserved, Balance
<1>7. Keeps(a, b)
  BY <1>5 DEF Keeps, Delivered
<1> QED BY <1>4, <1>5, <1>6, <1>7 DEF Sound, b

\* A pack's credits are added to the purchased part.
LEMMA TopUpSound ==
    ASSUME NEW a \in Account, NEW p \in Payments
    PROVE  /\ Sound(a, TopUp(a, p))
           /\ TopUp(a, p).purchased >= a.purchased
           /\ TopUp(a, p).topups[p] > 0
<1> DEFINE b == TopUp(a, p)
<1>1. /\ a.granted \in Nat /\ a.purchased \in Nat /\ a.spent \in Nat /\ a.expired \in Nat
      /\ a.issued \in Nat /\ a.bought \in Nat /\ PackCredits \in Nat
      /\ a.topups \in [Payments -> Nat]
  BY LedgerAssumption DEF Account
<1>2. b = [a EXCEPT !.purchased = a.purchased + PackCredits,
                    !.topups = [a.topups EXCEPT ![p] = a.topups[p] + 1],
                    !.bought = a.bought + PackCredits]
  BY DEF TopUp
<1> HIDE DEF b
<1>3. /\ a.purchased + PackCredits \in Nat /\ a.bought + PackCredits \in Nat
      /\ [a.topups EXCEPT ![p] = a.topups[p] + 1] \in [Payments -> Nat]
  BY <1>1
<1>4. b \in Account
  BY <1>2, <1>3 DEF Account
<1>5. /\ b.granted = a.granted /\ b.issued = a.issued /\ b.expired = a.expired
      /\ b.purchased = a.purchased + PackCredits /\ b.spent = a.spent
      /\ b.bought = a.bought + PackCredits /\ b.plan = a.plan
      /\ b.topups = [a.topups EXCEPT ![p] = a.topups[p] + 1]
  BY <1>2 DEF Account
<1>6. Conserved(a) => Conserved(b)
  BY <1>1, <1>5 DEF Conserved, Balance
<1>7. Keeps(a, b)
  BY <1>1, <1>5 DEF Keeps, Delivered
<1>8. b.purchased >= a.purchased /\ b.topups[p] > 0
  BY <1>1, <1>5
<1> QED BY <1>4, <1>6, <1>7, <1>8 DEF Sound, b

-----------------------------------------------------------------------------
(* The steps, by what they touch. *)

\* The initial state.
LEMMA InitInv == Init => Inv
<1> SUFFICES ASSUME Init PROVE Inv
  OBVIOUS
<1>1. TypeOK
  <2>1. NoWork \in [kind: KindsOfWork \union {"none"}, amount: Nat,
                    payment: Payments \union {NoPayment}, status: PaymentStatus]
    BY DEF NoWork, KindsOfWork, PaymentStatus
  <2>2. Unseen \in [plan: Plans, status: PaymentStatus \union {"none"}]
    BY LedgerAssumption DEF Unseen, PaymentStatus
  <2>3. 0 \in Months /\ started \in 0..MaxStarted
    BY LedgerAssumption DEF Init, Months
  <2> QED
    BY <2>1, <2>2, <2>3, OpeningSound DEF Init, TypeOK, Places
<1>2. LocksHeldInWork
  BY LedgerAssumption DEF Init, LocksHeldInWork
<1>3. DraftInv
  BY LedgerAssumption, OpeningSound DEF Init, DraftInv
<1>4. ConfirmationInv
  BY LedgerAssumption DEF Init, ConfirmationInv
<1> QED BY <1>1, <1>2, <1>3, <1>4 DEF Inv, TypeInv

\* A session sees an account of the right type that its ledger explains.
LEMMA ViewSound ==
    ASSUME Inv, NEW s \in Sessions
    PROVE  /\ View(s) \in Account /\ Conserved(View(s)) /\ Keeps(account, View(s))
           /\ pc[s] # "commit" => View(s).purchased = account.purchased
BY DEF Inv, TypeInv, TypeOK, LocksHeldInWork, DraftInv, View, Keeps

\* Every UPDATE of the organization row, from what it makes of the account.
LEMMA UpdateKeepsInv ==
    ASSUME Inv, NEW s \in Sessions, NEW new, NEW where \in {"deduct", "commit"},
           pc[s] \in {"grant", "deduct", "drain", "topup", "activate"},
           UpdateAccount(s, new), Goto(s, where),
           UNCHANGED <<committed, paymentLock, work, seen, started>>,
           Sound(View(s), new),
           where = "deduct" => pc[s] = "grant" /\ new.purchased = View(s).purchased,
           new.purchased < View(s).purchased => new.granted = 0,
           pc[s] = "topup" /\ work[s].payment \in Packs => Delivered(new, work[s].payment),
           pc[s] = "activate" /\ work[s].payment \notin Packs => Delivered(new, work[s].payment)
    PROVE  Inv'
<1>1. /\ accountLock \in {NoSession, s} /\ accountLock' = s /\ draft' = new
      /\ pc' = [pc EXCEPT ![s] = where]
      /\ UNCHANGED <<account, status, month, paymentLock, work, seen, started>>
  BY DEF UpdateAccount, Goto, committed
<1>2. new \in Account /\ Conserved(new) /\ Keeps(account, new)
  BY ViewSound DEF Sound, Keeps
<1>3. View(s).purchased = account.purchased
  BY ViewSound
<1>4. pc' \in [Sessions -> Places] /\ pc'[s] = where
      /\ \A t \in Sessions : t # s => pc'[t] = pc[t]
  BY <1>1 DEF Inv, TypeInv, TypeOK, Places
<1>5. TypeOK'
  BY <1>1, <1>2, <1>4 DEF Inv, TypeInv, TypeOK
<1>6. LocksHeldInWork'
  <2>1. \A t \in Sessions :
           /\ pc'[t] \in {"read", "status", "topup", "activate"} => work'[t].payment \in Payments
           /\ accountLock' = t => pc'[t] \in {"deduct", "commit"}
    BY <1>1, <1>4 DEF Inv, TypeInv, LocksHeldInWork
  <2>2. \A t \in Sessions, p \in Payments :
           paymentLock'[p] = t => work'[t].payment = p
                                  /\ pc'[t] \in {"topup", "activate", "commit"}
    BY <1>1, <1>4 DEF Inv, TypeInv, LocksHeldInWork
  <2> QED BY <2>1, <2>2 DEF LocksHeldInWork
<1>7. DraftInv'
  <2>1. Conserved(account)' /\ Conserved(draft)' /\ Keeps(account, draft)'
    BY <1>1, <1>2 DEF Inv, DraftInv, Conserved, Balance, Keeps, Delivered
  <2>2. pc'[s] = "deduct" => draft'.purchased = account'.purchased
    BY <1>1, <1>3, <1>4
  <2>3. draft'.purchased < account'.purchased => draft'.granted = 0
    BY <1>1, <1>3
  <2> QED BY <1>1, <2>1, <2>2, <2>3 DEF DraftInv
<1>8. ConfirmationInv'
  <2>1. ASSUME NEW p \in Payments, status'[p] = "confirmed"
        PROVE  Delivered(account, p)'
    BY <1>1, <2>1 DEF Inv, ConfirmationInv, Delivered
  <2>2. ASSUME NEW t \in Sessions, NEW p \in Payments,
               paymentLock'[p] = t, work'[t].status = "confirmed"
        PROVE  /\ pc'[t] = "topup" => p \in Packs
               /\ pc'[t] = "activate" => p \notin Packs
               /\ pc'[t] = "commit" => Delivered(View(t), p)'
    <3>1. CASE t = s
      <4>1. work[s].payment = p /\ pc[s] \in {"topup", "activate"}
        BY <1>1, <2>2, <3>1 DEF Inv, TypeInv, LocksHeldInWork
      <4>2. (pc[s] = "topup" => p \in Packs) /\ (pc[s] = "activate" => p \notin Packs)
        BY <1>1, <2>2, <3>1 DEF Inv, ConfirmationInv
      <4>3. Delivered(new, p)
        BY <4>1, <4>2
      <4>4. View(s)' = new
        BY <1>1 DEF View
      <4> QED BY <1>4, <3>1, <4>3, <4>4 DEF Delivered
    <3>2. CASE t # s
      <4>1. View(t)' = account /\ View(t) = account
        BY <1>1, <3>2, LedgerAssumption DEF View
      <4>2. /\ pc[t] = "topup" => p \in Packs
            /\ pc[t] = "activate" => p \notin Packs
            /\ pc[t] = "commit" => Delivered(account, p)
        BY <1>1, <2>2, <4>1 DEF Inv, ConfirmationInv
      <4> QED BY <1>4, <3>2, <4>1, <4>2 DEF Delivered
    <3> QED BY <3>1, <3>2
  <2> QED BY <2>1, <2>2 DEF ConfirmationInv
<1> QED BY <1>5, <1>6, <1>7, <1>8 DEF Inv, TypeInv

-----------------------------------------------------------------------------
(* Steps that leave the account and its draft alone. *)

\* NextMonth: time passes.
LEMMA NextMonthStep == Inv /\ NextMonth => Inv'
<1> SUFFICES ASSUME Inv, NextMonth PROVE Inv'
  OBVIOUS
<1>1. /\ month' \in Months
      /\ UNCHANGED <<account, status, accountLock, paymentLock, draft, pc, work, seen, started>>
  BY LedgerAssumption DEF NextMonth, locks, Months, Inv, TypeInv, TypeOK
<1>2. TypeOK'
  BY <1>1 DEF Inv, TypeInv, TypeOK
<1> QED BY <1>1, <1>2 DEF Inv, TypeInv, LocksHeldInWork, DraftInv, ConfirmationInv,
                          Conserved, Balance, Keeps, Delivered, View

\* Checkout: a row whose status is not "confirmed".
LEMMA CheckoutStep == ASSUME Inv, NEW p \in Payments, Checkout(p) PROVE Inv'
<1>1. /\ status' = [status EXCEPT ![p] = "init"]
      /\ UNCHANGED <<account, month, accountLock, paymentLock, draft, pc, work, seen, started>>
  BY DEF Checkout, locks
<1>2. TypeOK'
  BY <1>1 DEF Inv, TypeInv, TypeOK, PaymentStatus
<1>3. \A q \in Payments : status'[q] = "confirmed" => Delivered(account, q)
  BY <1>1 DEF Inv, TypeInv, TypeOK, ConfirmationInv
<1> QED BY <1>1, <1>2, <1>3 DEF Inv, TypeInv, LocksHeldInWork, DraftInv, ConfirmationInv,
                                Conserved, Balance, Keeps, Delivered, View

\* A step of one session that holds nothing and touches nothing committed.
LEMMA QuietKeepsInv ==
    ASSUME Inv, NEW s \in Sessions, NEW where \in Places,
           Goto(s, where), UNCHANGED <<committed, locks, draft>>,
           work' \in [Sessions -> [kind: KindsOfWork \union {"none"}, amount: Nat,
                                   payment: Payments \union {NoPayment}, status: PaymentStatus]],
           seen' \in [Sessions -> [plan: Plans, status: PaymentStatus \union {"none"}]],
           started' \in 0..MaxStarted,
           \A t \in Sessions : t # s => work'[t] = work[t],
           where \in {"read", "status"} => work'[s].payment \in Payments,
           where \notin {"topup", "activate"},
           accountLock = s => pc[s] = "deduct" /\ where = "commit",
           \A p \in Payments : paymentLock[p] # s
    PROVE  Inv'
<1>1. /\ pc' = [pc EXCEPT ![s] = where]
      /\ UNCHANGED <<account, status, month, accountLock, paymentLock, draft>>
  BY DEF Goto, committed, locks
<1>2. pc' \in [Sessions -> Places] /\ pc'[s] = where
      /\ \A t \in Sessions : t # s => pc'[t] = pc[t]
  BY <1>1 DEF Inv, TypeInv, TypeOK
<1>3. TypeOK'
  BY <1>1, <1>2 DEF Inv, TypeInv, TypeOK
<1>4. LocksHeldInWork'
  BY <1>1, <1>2 DEF Inv, TypeInv, LocksHeldInWork
<1>5. DraftInv'
  <2>1. Conserved(account)'
    BY <1>1 DEF Inv, DraftInv, Conserved, Balance
  <2>2. ASSUME NEW t \in Sessions, accountLock' = t
        PROVE  /\ Conserved(draft)' /\ Keeps(account, draft)'
               /\ pc'[t] = "deduct" => draft'.purchased = account'.purchased
               /\ draft'.purchased < account'.purchased => draft'.granted = 0
    <3>1. /\ Conserved(draft) /\ Keeps(account, draft)
          /\ pc[t] = "deduct" => draft.purchased = account.purchased
          /\ draft.purchased < account.purchased => draft.granted = 0
      BY <1>1, <2>2 DEF Inv, DraftInv
    <3>2. pc'[t] = "deduct" => pc[t] = "deduct"
      BY <1>1, <1>2, <2>2
    <3> QED BY <1>1, <3>1, <3>2 DEF Conserved, Balance, Keeps, Delivered
  <2> QED BY <2>1, <2>2 DEF DraftInv
<1>6. ConfirmationInv'
  <2>1. \A t \in Sessions : View(t)' = View(t)
    BY <1>1 DEF View
  <2> QED BY <1>1, <1>2, <2>1 DEF Inv, ConfirmationInv, Delivered
<1> QED BY <1>3, <1>4, <1>5, <1>6 DEF Inv, TypeInv

\* A session that starts holds nothing.
LEMMA StartStep ==
    ASSUME Inv, NEW s \in Sessions, NEW where \in {"period", "drain", "read"},
           NEW todo \in [kind: KindsOfWork, amount: Nat,
                         payment: Payments \union {NoPayment}, status: PaymentStatus],
           Start(s, todo, where),
           where = "read" => todo.payment \in Payments
    PROVE  Inv'
<1>1. /\ pc[s] = "idle" /\ Goto(s, where) /\ UNCHANGED <<committed, locks, draft>>
      /\ work' = [work EXCEPT ![s] = todo] /\ seen' = seen
      /\ started < MaxStarted /\ started' = started + 1
  BY DEF Start
<1>2. started' \in 0..MaxStarted
  BY <1>1, LedgerAssumption DEF Inv, TypeInv, TypeOK
<1>3. todo \in [kind: KindsOfWork \union {"none"}, amount: Nat,
                payment: Payments \union {NoPayment}, status: PaymentStatus]
  OBVIOUS
<1>4. work' \in [Sessions -> [kind: KindsOfWork \union {"none"}, amount: Nat,
                              payment: Payments \union {NoPayment}, status: PaymentStatus]]
      /\ work'[s] = todo /\ \A t \in Sessions : t # s => work'[t] = work[t]
  BY <1>1, <1>3 DEF Inv, TypeInv, TypeOK
<1>5. accountLock # s /\ \A p \in Payments : paymentLock[p] # s
  BY <1>1 DEF Inv, TypeInv, LocksHeldInWork
<1>6. seen' \in [Sessions -> [plan: Plans, status: PaymentStatus \union {"none"}]]
  BY <1>1 DEF Inv, TypeInv, TypeOK
<1>7. where \in Places
  BY DEF Places
<1> QED BY <1>1, <1>2, <1>4, <1>5, <1>6, <1>7, QuietKeepsInv

\* Check, Charge, Voice and Notify.
LEMMA BeginStep == ASSUME Inv, NEW s \in Sessions, Begin(s) PROVE Inv'
<1> DEFINE Todo == [kind: KindsOfWork, amount: Nat,
                   payment: Payments \union {NoPayment}, status: PaymentStatus]
<1>1. CASE Check(s)
  <2>1. PICK todo : todo = [NoWork EXCEPT !.kind = "check"]
    OBVIOUS
  <2>2. todo \in Todo
    BY <2>1 DEF NoWork, KindsOfWork, PaymentStatus
  <2>3. Start(s, todo, "period")
    BY <1>1, <2>1 DEF Check
  <2> QED BY <2>2, <2>3, StartStep
<1>2. CASE Charge(s)
  <2>1. PICK a \in Amounts : Start(s, [NoWork EXCEPT !.kind = "charge", !.amount = a], "period")
    BY <1>2 DEF Charge
  <2>2. PICK todo : todo = [NoWork EXCEPT !.kind = "charge", !.amount = a]
    OBVIOUS
  <2>3. todo \in Todo
    BY <2>2, LedgerAssumption DEF NoWork, KindsOfWork, PaymentStatus
  <2>4. Start(s, todo, "period")
    BY <2>1, <2>2
  <2> QED BY <2>3, <2>4, StartStep
<1>3. CASE Voice(s)
  <2>1. PICK a \in Amounts : Start(s, [NoWork EXCEPT !.kind = "voice", !.amount = a], "drain")
    BY <1>3 DEF Voice
  <2>2. PICK todo : todo = [NoWork EXCEPT !.kind = "voice", !.amount = a]
    OBVIOUS
  <2>3. todo \in Todo
    BY <2>2, LedgerAssumption DEF NoWork, KindsOfWork, PaymentStatus
  <2>4. Start(s, todo, "drain")
    BY <2>1, <2>2
  <2> QED BY <2>3, <2>4, StartStep
<1>4. CASE Notify(s)
  <2>1. PICK p \in Payments, new \in Statuses :
           Start(s, [NoWork EXCEPT !.kind = "notification", !.payment = p, !.status = new], "read")
    BY <1>4 DEF Notify
  <2>2. PICK todo : todo = [NoWork EXCEPT !.kind = "notification", !.payment = p, !.status = new]
    OBVIOUS
  <2>3. todo \in Todo /\ todo.payment \in Payments
    BY <2>2, LedgerAssumption DEF NoWork, KindsOfWork, PaymentStatus
  <2>4. Start(s, todo, "read")
    BY <2>1, <2>2
  <2> QED BY <2>3, <2>4, StartStep
<1> QED BY <1>1, <1>2, <1>3, <1>4 DEF Begin

\* ReadPeriod: only what the session has seen changes.
LEMMA ReadPeriodStep == ASSUME Inv, NEW s \in Sessions, ReadPeriod(s) PROVE Inv'
<1>1. View(s).plan \in Plans
  BY ViewSound DEF Account
<1>2. PICK plan \in Plans : plan = View(s).plan
  BY <1>1
<1>3. PICK where : where = (IF View(s).period < month THEN "grant"
                            ELSE IF work[s].kind = "charge" THEN "deduct" ELSE "commit")
  OBVIOUS
<1>4. where \in {"grant", "deduct", "commit"}
  BY <1>3
<1>5. /\ pc[s] = "period" /\ Goto(s, where) /\ seen' = [seen EXCEPT ![s].plan = plan]
      /\ UNCHANGED <<committed, locks, draft, work, started>>
  BY <1>2, <1>3 DEF ReadPeriod
<1>6. seen' \in [Sessions -> [plan: Plans, status: PaymentStatus \union {"none"}]]
  BY <1>5 DEF Inv, TypeInv, TypeOK
<1>7. accountLock # s /\ \A p \in Payments : paymentLock[p] # s
  BY <1>5 DEF Inv, TypeInv, LocksHeldInWork
<1>8. where \in Places /\ work' = work /\ started' = started
      /\ UNCHANGED <<committed, locks, draft>>
  BY <1>4, <1>5 DEF Places
<1>9. /\ work' \in [Sessions -> [kind: KindsOfWork \union {"none"}, amount: Nat,
                                 payment: Payments \union {NoPayment}, status: PaymentStatus]]
      /\ started' \in 0..MaxStarted
  BY <1>8 DEF Inv, TypeInv, TypeOK
<1> QED BY <1>4, <1>5, <1>6, <1>7, <1>8, <1>9, QuietKeepsInv

\* DeductShort: the refused deduction changes nothing.
LEMMA DeductShortStep == ASSUME Inv, NEW s \in Sessions, DeductShort(s) PROVE Inv'
<1>1. /\ pc[s] = "deduct" /\ Goto(s, "commit") /\ work' = work /\ started' = started
      /\ UNCHANGED <<committed, locks, draft>> /\ seen' = seen
  BY DEF DeductShort
<1>2. \A p \in Payments : paymentLock[p] # s
  BY <1>1 DEF Inv, TypeInv, LocksHeldInWork
<1>3. /\ work' \in [Sessions -> [kind: KindsOfWork \union {"none"}, amount: Nat,
                                 payment: Payments \union {NoPayment}, status: PaymentStatus]]
      /\ seen' \in [Sessions -> [plan: Plans, status: PaymentStatus \union {"none"}]]
      /\ started' \in 0..MaxStarted
  BY <1>1 DEF Inv, TypeInv, TypeOK
<1>4. "commit" \in Places
  BY DEF Places
<1> QED BY <1>1, <1>2, <1>3, <1>4, QuietKeepsInv

\* ReadPayment: only what the session has seen changes.
LEMMA ReadPaymentStep == ASSUME Inv, NEW s \in Sessions, ReadPayment(s) PROVE Inv'
<1>1. /\ pc[s] = "read" /\ Goto(s, "status") /\ work' = work /\ started' = started
      /\ UNCHANGED <<committed, locks, draft>>
      /\ seen' = [seen EXCEPT ![s].status = status[work[s].payment]]
  BY DEF ReadPayment
<1>2. /\ work[s].payment \in Payments /\ accountLock # s
      /\ \A p \in Payments : paymentLock[p] # s
  BY <1>1 DEF Inv, TypeInv, LocksHeldInWork
<1>3. PICK was \in PaymentStatus \union {"none"} : was = status[work[s].payment]
  BY <1>2 DEF Inv, TypeInv, TypeOK
<1>4. seen' = [seen EXCEPT ![s].status = was]
  BY <1>1, <1>3
<1>5. /\ work' \in [Sessions -> [kind: KindsOfWork \union {"none"}, amount: Nat,
                                 payment: Payments \union {NoPayment}, status: PaymentStatus]]
      /\ seen' \in [Sessions -> [plan: Plans, status: PaymentStatus \union {"none"}]]
      /\ started' \in 0..MaxStarted
  BY <1>1, <1>4 DEF Inv, TypeInv, TypeOK
<1>6. "status" \in Places
  BY DEF Places
<1> QED BY <1>1, <1>2, <1>5, <1>6, QuietKeepsInv

\* UpdateStatus: takes the payment's row. A confirmation goes on to its effect.
LEMMA UpdateStatusStep == ASSUME Inv, NEW s \in Sessions, UpdateStatus(s) PROVE Inv'
<1>1. PICK p \in Payments : p = work[s].payment
  BY DEF UpdateStatus, Inv, TypeInv, LocksHeldInWork
<1>2. PICK where : where = (IF work[s].status = "confirmed" /\ seen[s].status # work[s].status
                            THEN IF p \in Packs THEN "topup" ELSE "activate" ELSE "commit")
  OBVIOUS
<1>3. /\ pc[s] = "status" /\ pc' = [pc EXCEPT ![s] = where]
      /\ paymentLock' = IF seen[s].status # work[s].status
                        THEN [paymentLock EXCEPT ![p] = s] ELSE paymentLock
      /\ UNCHANGED <<account, status, month, accountLock, draft, work, seen, started>>
  BY <1>1, <1>2 DEF UpdateStatus, Goto, committed
<1>4. where \in {"topup", "activate", "commit"}
  BY <1>2
<1>5. pc' \in [Sessions -> Places] /\ pc'[s] = where
      /\ \A t \in Sessions : t # s => pc'[t] = pc[t]
  BY <1>3, <1>4 DEF Inv, TypeInv, TypeOK, Places
<1>6. /\ paymentLock' \in [Payments -> Sessions \union {NoSession}]
      /\ \A t \in Sessions, q \in Payments :
            t # s /\ paymentLock'[q] = t => paymentLock[q] = t
      /\ \A q \in Payments : paymentLock'[q] = s => q = p /\ seen[s].status # work[s].status
  <2>1. \A q \in Payments : paymentLock[q] # s
    BY <1>3 DEF Inv, TypeInv, LocksHeldInWork
  <2> QED BY <1>3, <2>1 DEF Inv, TypeInv, TypeOK
<1>7. accountLock # s
  BY <1>3 DEF Inv, TypeInv, LocksHeldInWork
<1>8. TypeOK'
  BY <1>3, <1>5, <1>6 DEF Inv, TypeInv, TypeOK
<1>9. LocksHeldInWork'
  <2>1. \A t \in Sessions :
           /\ pc'[t] \in {"read", "status", "topup", "activate"} => work'[t].payment \in Payments
           /\ accountLock' = t => pc'[t] \in {"deduct", "commit"}
    BY <1>1, <1>3, <1>5, <1>7 DEF Inv, TypeInv, LocksHeldInWork
  <2>2. \A t \in Sessions, q \in Payments :
           paymentLock'[q] = t => work'[t].payment = q
                                  /\ pc'[t] \in {"topup", "activate", "commit"}
    BY <1>1, <1>3, <1>4, <1>5, <1>6 DEF Inv, TypeInv, LocksHeldInWork
  <2> QED BY <2>1, <2>2 DEF LocksHeldInWork
<1>10. DraftInv'
  <2>1. Conserved(account)'
    BY <1>3 DEF Inv, DraftInv, Conserved, Balance
  <2>2. ASSUME NEW t \in Sessions, accountLock' = t
        PROVE  /\ Conserved(draft)' /\ Keeps(account, draft)'
               /\ pc'[t] = "deduct" => draft'.purchased = account'.purchased
               /\ draft'.purchased < account'.purchased => draft'.granted = 0
    <3>1. t # s /\ accountLock = t
      BY <1>3, <1>7, <2>2
    <3>2. /\ Conserved(draft) /\ Keeps(account, draft)
          /\ pc[t] = "deduct" => draft.purchased = account.purchased
          /\ draft.purchased < account.purchased => draft.granted = 0
      BY <3>1 DEF Inv, DraftInv
    <3> QED BY <1>3, <1>5, <3>1, <3>2 DEF Conserved, Balance, Keeps, Delivered
  <2> QED BY <2>1, <2>2 DEF DraftInv
<1>11. ConfirmationInv'
  <2>1. \A t \in Sessions : View(t)' = View(t)
    BY <1>3 DEF View
  <2>2. \A q \in Payments : status'[q] = "confirmed" => Delivered(account, q)'
    BY <1>3 DEF Inv, ConfirmationInv, Delivered
  <2>3. ASSUME NEW t \in Sessions, NEW q \in Payments,
               paymentLock'[q] = t, work'[t].status = "confirmed"
        PROVE  /\ pc'[t] = "topup" => q \in Packs
               /\ pc'[t] = "activate" => q \notin Packs
               /\ pc'[t] = "commit" => Delivered(View(t), q)'
    <3>1. CASE t = s
      BY <1>2, <1>3, <1>5, <1>6, <2>3, <3>1
    <3>2. CASE t # s
      BY <1>3, <1>5, <1>6, <2>1, <2>3, <3>2 DEF Inv, ConfirmationInv, Delivered
    <3> QED BY <3>1, <3>2
  <2> QED BY <2>2, <2>3 DEF ConfirmationInv
<1> QED BY <1>8, <1>9, <1>10, <1>11 DEF Inv, TypeInv

-----------------------------------------------------------------------------
(* Steps that update the organization row. *)

\* Grant: the purchased part is as committed, so a deduction may follow.
LEMMA GrantStep == ASSUME Inv, NEW s \in Sessions, Grant(s) PROVE Inv'
<1>1. PICK where : where = (IF work[s].kind = "charge" THEN "deduct" ELSE "commit")
  OBVIOUS
<1>2. PICK a \in Account : a = View(s)
  BY ViewSound
<1>3. PICK b : b = Reissue(a, seen[s].plan, month)
  OBVIOUS
<1>4. Sound(a, b) /\ b.purchased = a.purchased /\ b.grants = a.grants
  BY <1>3, ReissueSound DEF Inv, TypeInv, TypeOK
<1>5. PICK new : new = [b EXCEPT !.grants[month] = @ + 1]
  OBVIOUS
<1>6. Sound(a, new) /\ new.purchased = a.purchased
  <2>1. b \in Account /\ month \in Months
    BY <1>4 DEF Sound, Inv, TypeInv, TypeOK
  <2>2. new = [b EXCEPT !.grants = [b.grants EXCEPT ![month] = b.grants[month] + 1]]
    BY <1>5
  <2>3. [b.grants EXCEPT ![month] = b.grants[month] + 1] \in [Months -> Nat]
    BY <2>1 DEF Account
  <2>4. new \in Account
    BY <2>1, <2>2, <2>3 DEF Account
  <2>5. /\ new.granted = b.granted /\ new.purchased = b.purchased /\ new.spent = b.spent
        /\ new.expired = b.expired /\ new.issued = b.issued /\ new.bought = b.bought
        /\ new.topups = b.topups /\ new.plan = b.plan
    BY <2>1, <2>2 DEF Account
  <2> QED BY <1>4, <2>4, <2>5 DEF Sound, Conserved, Balance, Keeps, Delivered
<1>7. /\ pc[s] = "grant" /\ UpdateAccount(s, new) /\ Goto(s, where)
      /\ UNCHANGED <<committed, paymentLock, work, seen, started>>
  BY <1>1, <1>2, <1>3, <1>5 DEF Grant
<1>8. new.purchased \in Nat /\ View(s).purchased \in Nat
  BY <1>2, <1>6 DEF Sound, Account
<1> QED BY <1>1, <1>2, <1>6, <1>7, <1>8, UpdateKeepsInv

\* Deduct: covered by the balance, the purchased part only when the granted is gone.
LEMMA DeductStep == ASSUME Inv, NEW s \in Sessions, Deduct(s) PROVE Inv'
<1>1. PICK a \in Account : a = View(s)
  BY ViewSound
<1>2. PICK new : new = Spend(a, work[s].amount)
  OBVIOUS
<1>3. /\ pc[s] = "deduct" /\ UpdateAccount(s, new) /\ Goto(s, "commit")
      /\ UNCHANGED <<committed, paymentLock, work, seen, started>>
      /\ Balance(a) >= work[s].amount
  BY <1>1, <1>2 DEF Deduct
<1>4. work[s].amount \in Nat /\ Balance(a) \in Nat
  BY DEF Inv, TypeInv, TypeOK, Balance, Account
<1>5. Sound(a, new) /\ (new.purchased < a.purchased => new.granted = 0)
  BY <1>2, <1>3, <1>4, SpendSound
<1> QED BY <1>1, <1>3, <1>5, UpdateKeepsInv

\* Drain: what the balance covers.
LEMMA DrainStep == ASSUME Inv, NEW s \in Sessions, Drain(s) PROVE Inv'
<1>1. PICK a \in Account : a = View(s)
  BY ViewSound
<1>2. PICK amount : amount = Least(Balance(a), work[s].amount)
  OBVIOUS
<1>3. work[s].amount \in Nat /\ Balance(a) \in Nat
  BY DEF Inv, TypeInv, TypeOK, Balance, Account
<1>4. amount \in Nat /\ amount <= Balance(a)
  BY <1>2, <1>3 DEF Least
<1>5. PICK new : new = Spend(a, amount)
  OBVIOUS
<1>6. /\ pc[s] = "drain" /\ UpdateAccount(s, new) /\ Goto(s, "commit")
      /\ UNCHANGED <<committed, paymentLock, work, seen, started>>
  BY <1>1, <1>2, <1>5 DEF Drain
<1>7. Sound(a, new) /\ (new.purchased < a.purchased => new.granted = 0)
  BY <1>4, <1>5, SpendSound
<1> QED BY <1>1, <1>6, <1>7, UpdateKeepsInv

\* CreditPack: delivers the pack it was started for.
LEMMA CreditPackStep == ASSUME Inv, NEW s \in Sessions, CreditPack(s) PROVE Inv'
<1>1. PICK a \in Account : a = View(s)
  BY ViewSound
<1>2. PICK p \in Payments : p = work[s].payment
  BY DEF CreditPack, Inv, TypeInv, LocksHeldInWork
<1>3. PICK new : new = TopUp(a, p)
  OBVIOUS
<1>4. /\ pc[s] = "topup" /\ UpdateAccount(s, new) /\ Goto(s, "commit")
      /\ UNCHANGED <<committed, paymentLock, work, seen, started>>
  BY <1>1, <1>2, <1>3 DEF CreditPack
<1>5. Sound(a, new) /\ new.purchased >= a.purchased /\ new.topups[p] > 0
  BY <1>3, TopUpSound
<1>6. new.purchased \in Nat /\ a.purchased \in Nat
  BY <1>5 DEF Sound, Account
<1>7. p \in Packs => Delivered(new, p)
  BY <1>5 DEF Delivered
<1> QED BY <1>1, <1>2, <1>4, <1>5, <1>6, <1>7, UpdateKeepsInv

\* Activate: the plan is the paid one when its allowance is granted.
LEMMA ActivateStep == ASSUME Inv, NEW s \in Sessions, Activate(s) PROVE Inv'
<1>1. PICK a \in Account : a = View(s)
  BY ViewSound
<1>2. PICK b : b = Reissue(a, PaidPlan, month)
  OBVIOUS
<1>3. Sound(a, b) /\ b.purchased = a.purchased
  BY <1>2, ReissueSound, LedgerAssumption DEF Inv, TypeInv, TypeOK
<1>4. PICK new : new = [b EXCEPT !.plan = PaidPlan]
  OBVIOUS
<1>5. Sound(a, new) /\ new.purchased = a.purchased /\ new.plan = PaidPlan
  <2>1. b \in Account
    BY <1>3 DEF Sound
  <2>2. new \in Account
    BY <1>4, <2>1, LedgerAssumption DEF Account
  <2>3. /\ new.granted = b.granted /\ new.purchased = b.purchased /\ new.spent = b.spent
        /\ new.expired = b.expired /\ new.issued = b.issued /\ new.bought = b.bought
        /\ new.topups = b.topups /\ new.plan = PaidPlan
    BY <1>4, <2>1 DEF Account
  <2> QED BY <1>3, <2>2, <2>3 DEF Sound, Conserved, Balance, Keeps, Delivered
<1>6. /\ pc[s] = "activate" /\ UpdateAccount(s, new) /\ Goto(s, "commit")
      /\ UNCHANGED <<committed, paymentLock, work, seen, started>>
  BY <1>1, <1>2, <1>4 DEF Activate
<1>7. new.purchased \in Nat /\ a.purchased \in Nat
  BY <1>5 DEF Sound, Account
<1>8. work[s].payment \notin Packs => Delivered(new, work[s].payment)
  BY <1>5 DEF Delivered
<1> QED BY <1>1, <1>5, <1>6, <1>7, <1>8, UpdateKeepsInv

-----------------------------------------------------------------------------
(* The end of a session. *)

\* Commit and Rollback: the locks go, and the account, if it changes, becomes what
\* the session saw.
LEMMA FinishKeepsInv ==
    ASSUME Inv, NEW s \in Sessions, NEW new \in {account, View(s)}, Finish(s),
           account' = new, draft' = IF accountLock = s THEN Opening ELSE draft,
           status' \in [Payments -> PaymentStatus \union {"none"}],
           \A p \in Payments : status'[p] = "confirmed" => Delivered(new, p)
    PROVE  Inv'
<1>1. /\ accountLock' = IF accountLock = s THEN NoSession ELSE accountLock
      /\ paymentLock' = [p \in Payments |-> IF paymentLock[p] = s THEN NoSession
                                            ELSE paymentLock[p]]
      /\ work' = [work EXCEPT ![s] = NoWork] /\ seen' = [seen EXCEPT ![s] = Unseen]
      /\ pc' = [pc EXCEPT ![s] = "idle"] /\ month' = month /\ started' = started
  BY DEF Finish, Goto, Locked
<1>2. new \in Account /\ Conserved(new) /\ Keeps(account, new)
  BY ViewSound DEF Keeps, Inv, TypeInv, TypeOK, DraftInv
<1>3. draft' \in Account
  BY OpeningSound DEF Inv, TypeInv, TypeOK
<1>4. /\ NoWork \in [kind: KindsOfWork \union {"none"}, amount: Nat,
                     payment: Payments \union {NoPayment}, status: PaymentStatus]
      /\ Unseen \in [plan: Plans, status: PaymentStatus \union {"none"}]
  BY LedgerAssumption DEF NoWork, Unseen, KindsOfWork, PaymentStatus
<1>5. /\ work' \in [Sessions -> [kind: KindsOfWork \union {"none"}, amount: Nat,
                                 payment: Payments \union {NoPayment}, status: PaymentStatus]]
      /\ \A t \in Sessions : t # s => work'[t] = work[t]
  BY <1>1, <1>4 DEF Inv, TypeInv, TypeOK
<1>6. seen' \in [Sessions -> [plan: Plans, status: PaymentStatus \union {"none"}]]
  BY <1>1, <1>4 DEF Inv, TypeInv, TypeOK
<1>7. /\ pc' \in [Sessions -> Places] /\ pc'[s] = "idle"
      /\ \A t \in Sessions : t # s => pc'[t] = pc[t]
  BY <1>1 DEF Inv, TypeInv, TypeOK, Places
<1>8. /\ paymentLock' \in [Payments -> Sessions \union {NoSession}]
      /\ \A t \in Sessions, p \in Payments :
            paymentLock'[p] = t => t # s /\ paymentLock[p] = t
  BY <1>1, LedgerAssumption DEF Inv, TypeInv, TypeOK
<1>9. /\ accountLock' \in Sessions \union {NoSession}
      /\ \A t \in Sessions : accountLock' = t => t # s /\ accountLock = t
  BY <1>1, LedgerAssumption DEF Inv, TypeInv, TypeOK
<1>10. TypeOK'
  BY <1>1, <1>2, <1>3, <1>5, <1>6, <1>7, <1>8, <1>9 DEF Inv, TypeInv, TypeOK
<1>11. LocksHeldInWork'
  BY <1>5, <1>7, <1>8, <1>9 DEF Inv, TypeInv, LocksHeldInWork
<1>12. DraftInv'
  <2>1. Conserved(account)'
    BY <1>2 DEF Conserved, Balance
  <2>2. ASSUME NEW t \in Sessions, accountLock' = t
        PROVE  /\ Conserved(draft)' /\ Keeps(account, draft)'
               /\ pc'[t] = "deduct" => draft'.purchased = account'.purchased
               /\ draft'.purchased < account'.purchased => draft'.granted = 0
    <3>1. t # s /\ accountLock = t /\ draft' = draft /\ account' = account
      BY <1>9, <2>2 DEF View
    <3>2. /\ Conserved(draft) /\ Keeps(account, draft)
          /\ pc[t] = "deduct" => draft.purchased = account.purchased
          /\ draft.purchased < account.purchased => draft.granted = 0
      BY <3>1 DEF Inv, DraftInv
    <3> QED BY <1>7, <3>1, <3>2 DEF Conserved, Balance, Keeps, Delivered
  <2> QED BY <2>1, <2>2 DEF DraftInv
<1>13. ConfirmationInv'
  <2>1. \A p \in Payments : status'[p] = "confirmed" => Delivered(account, p)'
    BY DEF Delivered
  <2>2. ASSUME NEW t \in Sessions, NEW p \in Payments,
               paymentLock'[p] = t, work'[t].status = "confirmed"
        PROVE  /\ pc'[t] = "topup" => p \in Packs
               /\ pc'[t] = "activate" => p \notin Packs
               /\ pc'[t] = "commit" => Delivered(View(t), p)'
    <3>1. t # s /\ paymentLock[p] = t /\ pc'[t] = pc[t] /\ work[t].status = "confirmed"
      BY <1>5, <1>7, <1>8, <2>2
    <3>2. /\ pc[t] = "topup" => p \in Packs
          /\ pc[t] = "activate" => p \notin Packs
          /\ pc[t] = "commit" => Delivered(View(t), p)
      BY <3>1 DEF Inv, ConfirmationInv
    <3>3. CASE accountLock = t
      <4>1. View(t) = draft /\ View(t)' = draft
        BY <1>1, <3>1, <3>3 DEF View
      <4> QED BY <3>1, <3>2, <4>1 DEF Delivered
    <3>4. CASE accountLock # t
      <4>1. View(t) = account /\ View(t)' = new
        BY <1>9, <3>4 DEF View
      <4>2. Delivered(account, p) => Delivered(new, p)
        BY <1>2 DEF Keeps
      <4> QED BY <3>1, <3>2, <4>1, <4>2 DEF Delivered
    <3> QED BY <3>3, <3>4
  <2> QED BY <2>1, <2>2 DEF ConfirmationInv
<1> QED BY <1>10, <1>11, <1>12, <1>13 DEF Inv, TypeInv

\* Commit: a status is published with the account that delivers it.
LEMMA CommitStep == ASSUME Inv, NEW s \in Sessions, Commit(s) PROVE Inv'
<1>1. PICK new \in {account, View(s)} : new = View(s)
  OBVIOUS
<1>2. /\ pc[s] = "commit" /\ account' = new /\ Finish(s)
      /\ draft' = IF accountLock = s THEN Opening ELSE draft
      /\ status' = [p \in Payments |-> IF paymentLock[p] = s THEN work[s].status ELSE status[p]]
  BY <1>1 DEF Commit, Locked
<1>3. status' \in [Payments -> PaymentStatus \union {"none"}]
  BY <1>2 DEF Inv, TypeInv, TypeOK
<1>4. ASSUME NEW p \in Payments, status'[p] = "confirmed" PROVE Delivered(new, p)
  <2>1. CASE paymentLock[p] = s
    BY <1>1, <1>2, <1>4, <2>1 DEF Inv, ConfirmationInv
  <2>2. CASE paymentLock[p] # s
    <3>1. Delivered(account, p)
      BY <1>2, <1>4, <2>2 DEF Inv, ConfirmationInv
    <3> QED BY <1>1, <3>1, ViewSound DEF Keeps
  <2> QED BY <2>1, <2>2
<1> QED BY <1>2, <1>3, <1>4, FinishKeepsInv

\* Rollback: nothing was published.
LEMMA RollbackStep == ASSUME Inv, NEW s \in Sessions, Rollback(s) PROVE Inv'
<1>1. PICK new \in {account, View(s)} : new = account
  OBVIOUS
<1>2. /\ account' = new /\ Finish(s) /\ status' = status
      /\ draft' = IF accountLock = s THEN Opening ELSE draft
  BY <1>1 DEF Rollback
<1>3. status' \in [Payments -> PaymentStatus \union {"none"}]
  BY <1>2 DEF Inv, TypeInv, TypeOK
<1>4. \A p \in Payments : status'[p] = "confirmed" => Delivered(new, p)
  BY <1>1, <1>2 DEF Inv, ConfirmationInv
<1> QED BY <1>2, <1>3, <1>4, FinishKeepsInv

-----------------------------------------------------------------------------
(* The theorems. *)

\* Every step preserves the invariant.
LEMMA NextKeepsInv == Inv /\ [Next]_vars => Inv'
<1> SUFFICES ASSUME Inv, [Next]_vars PROVE Inv'
  OBVIOUS
<1>1. CASE UNCHANGED vars
  BY <1>1 DEF vars, committed, locks, Inv, TypeInv, TypeOK, LocksHeldInWork, DraftInv,
              ConfirmationInv, Conserved, Balance, Keeps, Delivered, View
<1>2. CASE NextMonth
  BY <1>2, NextMonthStep
<1>3. ASSUME NEW p \in Payments, Checkout(p) PROVE Inv'
  BY <1>3, CheckoutStep
<1>4. ASSUME NEW s \in Sessions, Begin(s) PROVE Inv'
  BY <1>4, BeginStep
<1>5. ASSUME NEW s \in Sessions, Step(s) PROVE Inv'
  BY <1>5, ReadPeriodStep, GrantStep, DeductStep, DeductShortStep, DrainStep,
     ReadPaymentStep, UpdateStatusStep, CreditPackStep, ActivateStep, CommitStep DEF Step
<1>6. ASSUME NEW s \in Sessions, Rollback(s) PROVE Inv'
  BY <1>6, RollbackStep
<1> QED BY <1>1, <1>2, <1>3, <1>4, <1>5, <1>6 DEF Next, Subscribe, BuyCredits

\* The invariant holds of every reachable state, whatever sessions overlap.
THEOREM InvariantHolds == Spec => []Inv
BY InitInv, NextKeepsInv, PTL DEF Spec

\* Every variable has its type; no deduction, however it overlaps with others, makes
\* a balance negative (deduct_credits, deduct_credits_up_to).
THEOREM TypeCorrect == Spec => []TypeOK
<1>1. Inv => TypeOK
  BY DEF Inv, TypeInv
<1> QED BY InvariantHolds, <1>1, PTL

\* No grant, deduction or top-up is lost to a concurrent one.
THEOREM Conservation == Spec => []CreditsConserved
<1>1. Inv => CreditsConserved
  BY DEF Inv, DraftInv, Conserved, CreditsConserved
<1> QED BY InvariantHolds, <1>1, PTL

\* A confirmed payment is a delivered one (process_notification in one transaction).
THEOREM ConfirmedIsDelivered == Spec => []PaidIsDelivered
<1>1. Inv => PaidIsDelivered
  BY DEF Inv, ConfirmationInv, Delivered, PaidIsDelivered
<1> QED BY InvariantHolds, <1>1, PTL

\* Purchased credits are the last to go, in every committed transaction.
THEOREM GrantedSpentFirst == Spec => PurchasedSpentLast
<1>1. Inv /\ [Next]_vars => [account'.purchased < account.purchased => account'.granted = 0]_vars
  <2> SUFFICES ASSUME Inv, Next, account'.purchased < account.purchased
               PROVE  account'.granted = 0
    BY DEF vars
  <2>1. account.purchased \in Nat
    BY DEF Inv, TypeInv, TypeOK, Account
  <2>2. account' # account
    BY <2>1
  <2>3. PICK s \in Sessions : Commit(s)
    BY <2>2 DEF Next, NextMonth, Subscribe, BuyCredits, Checkout, Begin, Check, Charge, Voice, Notify, Start, Step,
                ReadPeriod, Grant, Deduct, DeductShort, Drain, ReadPayment, UpdateStatus,
                CreditPack, Activate, Rollback, committed
  <2>4. account' = draft /\ accountLock = s
    BY <2>2, <2>3 DEF Commit, View
  <2> QED BY <2>4 DEF Inv, DraftInv
<1> QED BY InvariantHolds, <1>1, PTL DEF Spec, PurchasedSpentLast
=============================================================================
