----------------------------- MODULE NodeBehaviour -----------------------------
(***************************************************************************)
(* What the node types of a workflow do with the context of a run: what    *)
(* they hand to the next node, the variables they set, what they say in    *)
(* the dialogue, the keys they spend money on. Every node is an operator   *)
(* that gives the set of its possible outcomes; what a provider answers is *)
(* the choice.                                                             *)
(*                                                                         *)
(* A value is a record with one field, named for its kind. The data that   *)
(* one node hands to the next is a function from keys to values.           *)
(***************************************************************************)
EXTENDS Integers, Sequences, FiniteSets, SequencesExt, TLC

CONSTANTS
    Credentials,  \* stored provider keys
    ProviderOf,   \* the provider each of them is for
    SystemKeys    \* providers the installation has a key of its own for

ASSUME BehaviourAssumption == Credentials \subseteq DOMAIN ProviderOf

Null   == [null |-> TRUE]
Broken == [broken |-> TRUE]
Num(n)  == [num |-> n]
Text(w) == [text |-> w]
Dict(f) == [dict |-> f]
Bool(b) == [bool |-> b]

IsNum(v)    == "num" \in DOMAIN v
IsDict(v)   == "dict" \in DOMAIN v
IsBroken(v) == "broken" \in DOMAIN v

\* str(): what a value looks like in a text.
Str(v) == IF "text" \in DOMAIN v THEN v ELSE Text(ToString(v))

\* Python's truth of a value, which is what a condition's result is used for.
Truthy(v) ==
    CASE IsNum(v)              -> v.num # 0
      [] "bool" \in DOMAIN v   -> v.bool
      [] "text" \in DOMAIN v   -> v.text # ""
      [] IsDict(v)             -> DOMAIN v.dict # {}
      [] OTHER                 -> FALSE

Get(data, key) == IF key \in DOMAIN data THEN data[key] ELSE Null

\* A CEL expression reads state, project, input or workflow (the run's own
\* input); a missing key or a comparison of the wrong kind raises.
Evaluate(e, ctx, data) ==
    IF e.op = "lit" THEN e.value
    ELSE LET scope == CASE e.scope = "state"    -> ctx.state
                        [] e.scope = "project"  -> ctx.project
                        [] e.scope = "input"    -> data
                        [] e.scope = "workflow" -> ctx.input
             value == IF e.key \in DOMAIN scope THEN scope[e.key] ELSE Broken
         IN IF e.op = "get" THEN value
            ELSE IF ~IsNum(value) THEN Broken
            ELSE CASE e.op = "below" -> Bool(value.num < e.than)
                   [] e.op = "plus"  -> Num(value.num + e.more)

-----------------------------------------------------------------------------
(* What a saved node's configuration is: the schema of its type, which a      *)
(* workflow with a built-in node must satisfy to be saved.                    *)

TranscribeFits(c) == c.provider # "" /\ c.save \in BOOLEAN

AgentFits(c) ==
    /\ c.audio \in {"auto", "audio", "text"}
    /\ {c.json, c.save, c.hears} \subseteq BOOLEAN
    /\ \A i \in DOMAIN c.fallbacks : {"provider", "credential"} \subseteq DOMAIN c.fallbacks[i]
    /\ c.voice # "" => "voiceCredential" \in DOMAIN c

SetVariableFits(c) ==
    /\ \A i \in DOMAIN c.updates : c.updates[i].path # <<>>
    /\ \A i \in DOMAIN c.merges : /\ c.merges[i].target \in {"state", "project"}
                                  /\ c.merges[i].operation \in {"add", "subtract", "overwrite"}

EndFits(c) ==
    /\ c.mode \in {"last_agent", "specific_agent", "custom"}
    /\ {c.filter, c.projectFilter} \subseteq {"all", "none", "selected"}
    /\ {c.ends, c.error} \subseteq BOOLEAN

Fits(node) ==
    CASE node.type = "transcribe"   -> TranscribeFits(node)
      [] node.type = "agent"        -> AgentFits(node)
      [] node.type = "set_variable" -> SetVariableFits(node)
      [] node.type = "end"          -> EndFits(node)
      [] OTHER                      -> TRUE

-----------------------------------------------------------------------------
(* Outcomes. `bill` is what the step's metadata tells the accountant,      *)
(* `spent` what was really used and on whose key; `mixed` when a fallback  *)
(* answered on another kind of key than the first model has.               *)

Buckets == {"systemLlm", "ownLlm", "systemVoice", "ownVoice"}
NoCost  == [b \in Buckets |-> 0]
Adding(cost, more) == [b \in Buckets |-> cost[b] + more[b]]

One(bucket) == [NoCost EXCEPT ![bucket] = 1]
LlmUse(key)   == One(IF key = "system" THEN "systemLlm" ELSE "ownLlm")
VoiceUse(key) == One(IF key = "system" THEN "systemVoice" ELSE "ownVoice")

Passing(data) ==
    [fails |-> FALSE, data |-> data, state |-> <<>>, project |-> <<>>,
     says |-> Null, hears |-> Null, saves |-> Null,
     bill |-> NoCost, spent |-> NoCost, mixed |-> FALSE]

Failing == [Passing(<<>>) EXCEPT !.fails = TRUE]

Compatible(credential, provider) == ProviderOf[credential] = provider
HasSystemKey(provider) == provider \in SystemKeys

\* get_api_key_with_fallback, and its twin for voices: a stored key that is
\* still there and fits the provider, else the installation's.
KeyKind(credential, provider, live) ==
    IF credential \in live /\ Compatible(credential, provider) THEN "own"
    ELSE IF HasSystemKey(provider) THEN "system"
    ELSE "none"

-----------------------------------------------------------------------------
StartOutcomes(ctx) == {Passing(ctx.input)}

DelayOutcomes(data) == {Passing(data)}

\* The first condition that is true; the one after the last when none is. One
\* that raises before that fails the node.
ConditionOutcomes(config, ctx, data) ==
    LET Result(i) == Evaluate(config.conditions[i], ctx, data)
        stops == {i \in DOMAIN config.conditions : IsBroken(Result(i)) \/ Truthy(Result(i))}
        first == CHOOSE i \in stops : \A j \in stops : i <= j
        Routed(index) == Passing("condition_index" :> Num(index) @@ data)
    IN IF stops = {} THEN {Routed(Len(config.conditions))}
       ELSE IF IsBroken(Result(first)) THEN {Failing}
       ELSE {Routed(first - 1)}

\* get_branch_index, and what find_resume_point reads from a stored step.
BranchIndex(type, data) ==
    IF type = "condition" /\ "condition_index" \in DOMAIN data
    THEN data["condition_index"].num ELSE -1

\* _set_nested: the value placed under a path of keys, dicts made on the way.
\* node[i] is the container that the first i keys lead to, with[i] what is in its
\* place afterwards.
Placed(at, path, value) ==
    LET Container(v) == IF v = Null THEN Dict(<<>>) ELSE v
        node[i \in 0..Len(path)] ==
            IF i = 0 THEN Container(at)
            ELSE IF IsDict(node[i - 1]) THEN Container(Get(node[i - 1].dict, path[i]))
            ELSE Broken
        with[i \in 0..Len(path)] ==
            IF i = Len(path) THEN value
            ELSE IF ~IsDict(node[i]) \/ IsBroken(with[i + 1]) THEN Broken
            ELSE Dict(path[i + 1] :> with[i + 1] @@ node[i].dict)
    IN with[0]

\* One row of the updates. A key set earlier in the node is the container of a
\* deeper path, also when it was set to null.
Updated(out, update, ctx, data) ==
    LET value  == Evaluate(update.value, ctx, data)
        top    == Head(update.path)
        sofar  == out[update.target]
        base   == IF top \in DOMAIN sofar
                  THEN IF sofar[top] = Null THEN Broken ELSE sofar[top]
                  ELSE Get(ctx[update.target], top)
        placed == Placed(base, Tail(update.path), value)
    IN IF out.fails \/ IsBroken(value) \/ IsBroken(placed) THEN Failing
       ELSE [out EXCEPT ![update.target] = top :> placed @@ sofar]

\* _compute_merge: only keys of both, only numbers, null counting as zero.
Merge(source, target, operation) ==
    LET keys == {k \in DOMAIN source \cap DOMAIN target :
                    IsNum(source[k]) /\ (IsNum(target[k]) \/ target[k] = Null)}
        Old(k) == IF target[k] = Null THEN 0 ELSE target[k].num
    IN [k \in keys |-> Num(CASE operation = "add"       -> Old(k) + source[k].num
                             [] operation = "subtract"  -> Old(k) - source[k].num
                             [] operation = "overwrite" -> source[k].num)]

\* A smart merge sees what the node has set so far.
Merged(out, merge, ctx, data) ==
    LET source == Evaluate(merge.source, ctx, data)
        whole  == out[merge.target] @@ ctx[merge.target]
        target == IF merge.key = "" THEN Dict(whole)
                  ELSE IF merge.key \in DOMAIN whole THEN whole[merge.key] ELSE Dict(<<>>)
    IN IF out.fails \/ ~IsDict(target) \/ ~IsDict(source) THEN Failing
       ELSE LET result == Merge(source.dict, target.dict, merge.operation)
                final  == IF merge.key = "" THEN result
                          ELSE merge.key :> Dict(result @@ target.dict)
            IN [out EXCEPT ![merge.target] = final @@ @]

SetVariableOutcomes(config, ctx, data) ==
    LET set == FoldLeft(LAMBDA out, u : Updated(out, u, ctx, data),
                        Passing(data), config.updates)
        all == FoldLeft(LAMBDA out, m : Merged(out, m, ctx, data), set, config.merges)
    IN {IF all.fails THEN Failing
        ELSE [Passing(data) EXCEPT !.state = all.state, !.project = all.project]}

\* An address that resolves to the installation's own network is refused.
Blocked(config) == config.internal

\* The answer, whatever its status; a body that is no JSON is its text.
Received(reply) ==
    [status_code |-> Num(reply.status), body |-> reply.body, ok |-> Bool(reply.status < 400)]

\* After the retries: an answer, whatever its status, replaces the data; a
\* connection that keeps dropping, a blocked address or a template that does
\* not render fails the node.
HttpOutcomes(config, ctx, data) ==
    IF IsBroken(Evaluate(config.url, ctx, data)) \/ Blocked(config) THEN {Failing}
    ELSE {Failing} \cup
         {Passing(Received(reply)) : reply \in config.replies}

\* An audio turn becomes text; the transcript is the user's turn from here on
\* and, where the node says so, a message of the chat at once.
TranscribeOutcomes(config, ctx, data, live) ==
    IF Get(data, "input_type") # Text("audio") \/ ~ctx.audio THEN {Passing(data)}
    ELSE IF KeyKind(config.credential, config.provider, live) = "none" THEN {Failing}
    ELSE {Failing,
          [Passing(("message" :> Text("transcript") @@ "input_type" :> Text("text")) @@ data)
             EXCEPT !.hears = Text("transcript"),
                    !.saves = IF config.save /\ ctx.chat # 0 THEN Text("transcript") ELSE Null]}

\* Jev has no key of the installation to fall back to.
JevOutcomes(config, ctx, data, live) ==
    IF \/ config.credential \notin live
       \/ ProviderOf[config.credential] # "typesafe"
       \/ IsBroken(Evaluate(config.about, ctx, data))
    THEN {Failing}
    ELSE {Failing} \cup
         {[Passing(config.key :> Dict(answers) @@ data)
             EXCEPT !.bill = LlmUse("own"), !.spent = LlmUse("own")] : answers \in config.answers}

-----------------------------------------------------------------------------
(* The agent. *)

\* An audio turn reaches the model as audio unless the node says text; a node
\* that insists on audio, or a model without ears, is an error.
AudioRefused(config, ctx, data) ==
    LET audio == Get(data, "input_type") = Text("audio") /\ ctx.audio
    IN config.audio # "text" /\ (IF audio THEN ~config.hears ELSE config.audio = "audio")

\* What a call to a model comes to once its retries are used up.
CallResults == {"ok", "transient", "fatal"}

\* FallbackModel: the next one only on a transient error; 0 when nobody answers.
Answering(calls) ==
    LET tried == {i \in DOMAIN calls : \A j \in 1..(i - 1) : calls[j] = "transient"}
        good  == {i \in tried : calls[i] = "ok"}
    IN IF good = {} THEN 0 ELSE CHOOSE i \in good : TRUE

\* _build_history_append.
Said(config, reply) ==
    IF ~config.save THEN Null
    ELSE IF config.json /\ IsDict(reply.parsed) /\ config.field \in DOMAIN reply.parsed.dict
         THEN Str(reply.parsed.dict[config.field])
         ELSE Text(reply.text)

\* Mutant: the cost of the voice replaces that of the reply.
VoicedAlone(out, kind) == [out EXCEPT !.bill = VoiceUse(kind),
                                      !.spent = Adding(@, VoiceUse(kind))]

\* The voice has keys of its own: without one the run fails after the reply.
Voiced(out, kind) == [out EXCEPT !.bill  = Adding(@, VoiceUse(kind)),
                                 !.spent = Adding(@, VoiceUse(kind))]

\* The answer of the model at place i of the chain. Its cost goes to the bucket
\* of the first model's key, whichever model answered.
Replied(config, kinds, i, reply) ==
    [Passing([message |-> Text(reply.text),
              parsed_message |-> IF config.json THEN reply.parsed ELSE Null])
       EXCEPT !.says = Said(config, reply),
              !.bill = LlmUse(kinds[1]), !.spent = LlmUse(kinds[i]),
              !.mixed = kinds[i] # kinds[1]]

\* The reply of the model at place i, spoken with the key found for the voice: an
\* empty reply is not synthesised.
Spoken(config, kinds, voice, i, reply) ==
    IF voice = "silent" \/ reply.text = "" THEN Replied(config, kinds, i, reply)
    ELSE IF voice = "none" THEN Failing
    ELSE Voiced(Replied(config, kinds, i, reply), voice)

\* What the chain of models may answer, with keys of these kinds.
Replies(config, kinds, voice) ==
    LET answered == {Answering(calls) : calls \in [DOMAIN kinds -> CallResults]}
    IN {Spoken(config, kinds, voice, i, reply) : i \in answered \ {0}, reply \in config.replies}

\* All keys are resolved before the first call.
AgentOutcomes(config, ctx, data, live) ==
    LET chain  == <<[provider |-> config.provider, credential |-> config.credential]>>
                  \o config.fallbacks
        kinds  == [i \in DOMAIN chain |-> KeyKind(chain[i].credential, chain[i].provider, live)]
        voice  == IF config.voice = "" THEN "silent"
                  ELSE KeyKind(config.voiceCredential, config.voice, live)
    IN IF \/ \E i \in DOMAIN kinds : kinds[i] = "none"
          \/ IsBroken(Evaluate(config.instructions, ctx, data))
          \/ AudioRefused(config, ctx, data)
       THEN {Failing}
       ELSE {Failing} \cup Replies(config, kinds, voice)

-----------------------------------------------------------------------------
(* END: what the run answers, and the variables it lets out. *)

\* Of the steps at the places found, the one with the highest number.
Newest(found, steps) ==
    steps[CHOOSE i \in found : \A j \in found : steps[j].number <= steps[i].number]

\* Mutant: the oldest matching step.
EldestOutput(found, steps, default) ==
    LET eldest == steps[CHOOSE i \in found : \A j \in found : steps[i].number <= steps[j].number]
    IN IF found = {} \/ DOMAIN eldest.output = {} THEN default ELSE eldest.output

\* get_last_agent_output, get_node_output: the newest of the matching steps,
\* unless it put out nothing.
NewestOutput(found, steps, default) ==
    IF found = {} \/ DOMAIN Newest(found, steps).output = {} THEN default
    ELSE Newest(found, steps).output

EndOutcomes(config, ctx, data, trace) ==
    {Passing(CASE config.mode = "last_agent" ->
                    NewestOutput({i \in DOMAIN trace : trace[i].type = "agent"}, trace, data)
               [] config.mode = "specific_agent" ->
                    NewestOutput({i \in DOMAIN trace : trace[i].node = config.source}, trace, data)
               [] config.mode = "custom" ->
                    [message |-> LET e == Evaluate(config.message, ctx, data)
                                 IN IF IsBroken(e) THEN Text("template") ELSE Str(e)])}

Filtered(state, filter, variables) ==
    CASE filter = "all"      -> state
      [] filter = "none"     -> <<>>
      [] filter = "selected" -> [k \in variables \cap DOMAIN state |-> state[k]]

-----------------------------------------------------------------------------
\* What the node may do; the class is taken from the registry by its type.
OutcomesOf(node, ctx, data, trace, live) ==
    CASE node.type = "start"        -> StartOutcomes(ctx)
      [] node.type = "delay"        -> DelayOutcomes(data)
      [] node.type = "condition"    -> ConditionOutcomes(node, ctx, data)
      [] node.type = "set_variable" -> SetVariableOutcomes(node, ctx, data)
      [] node.type = "http_request" -> HttpOutcomes(node, ctx, data)
      [] node.type = "transcribe"   -> TranscribeOutcomes(node, ctx, data, live)
      [] node.type = "jev"          -> JevOutcomes(node, ctx, data, live)
      [] node.type = "agent"        -> AgentOutcomes(node, ctx, data, live)
      [] node.type = "end"          -> EndOutcomes(node, ctx, data, trace)
      [] OTHER                      -> {Failing}
=============================================================================
