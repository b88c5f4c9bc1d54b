----------------------------- MODULE MCWorkflowRun -----------------------------
\* A small instance of WorkflowRun: two workflows that together use every
\* node type, branches and a loop; an own key for each kind of provider.
EXTENDS WorkflowRun

MCCredentials == {"own openai", "own jev"}
MCProviderOf  == "own openai" :> "openai" @@ "own jev" :> "typesafe"

MCStateSchema   == [n    |-> [type |-> "number", default |-> Num(0)],
                    user |-> [type |-> "object", default |-> Null]]
MCProjectSchema == [seen |-> [type |-> "number", default |-> Null]]
MCClient        == <<>>
MCReadAs        == "1" :> Num(1)
MCOverrides     == {<<>>, [n |-> Text("1"), extra |-> Bool(TRUE)]}

Lit(v)          == [op |-> "lit", value |-> v]
Of(scope, key)  == [op |-> "get", scope |-> scope, key |-> key]
Below(scope, key, n) == [op |-> "below", scope |-> scope, key |-> key, than |-> n]
Plus(scope, key, n)  == [op |-> "plus", scope |-> scope, key |-> key, more |-> n]
Set(target, path, value) == [target |-> target, path |-> path, value |-> value]
Add(source, target, key) ==
    [source |-> source, target |-> target, key |-> key, operation |-> "add"]

Start == [type |-> "start"]
End   == [type |-> "end", mode |-> "last_agent", filter |-> "all", variables |-> {},
          projectFilter |-> "all", ends |-> FALSE, error |-> FALSE]
Agent == [type |-> "agent", provider |-> "openai", credential |-> "own openai",
          fallbacks |-> <<>>, instructions |-> Lit(Text("be kind")), audio |-> "auto",
          hears |-> FALSE, json |-> FALSE, save |-> TRUE, field |-> "", voice |-> "",
          replies |-> {[text |-> "answer", parsed |-> Null]}]

\* An agent that answers in JSON and falls back to another provider, a loop
\* back to START while its count is low, and a second agent that speaks its
\* answer and keeps it out of the history.
Dialogue ==
    [node |-> [start |-> Start,
               ears  |-> [type |-> "transcribe", provider |-> "openai",
                          credential |-> "own openai", save |-> TRUE],
               ask   |-> [Agent EXCEPT !.json = TRUE, !.field = "say",
                            !.fallbacks = <<[provider |-> "gemini", credential |-> "none"]>>,
                            !.replies = {[text   |-> "{json}",
                                          parsed |-> Dict([say |-> Text("hello"), n |-> Num(1)])],
                                         [text |-> "no json", parsed |-> Null]}],
               route |-> [type |-> "condition",
                          conditions |-> <<Below("state", "n", 1), Of("state", "user")>>],
               put   |-> [type |-> "set_variable",
                          updates |-> <<Set("state", <<"user", "name">>, Lit(Text("ada"))),
                                        Set("project", <<"seen">>, Plus("project", "seen", 1))>>,
                          merges  |-> <<Add(Of("input", "parsed_message"), "state", "")>>],
               leave |-> [type |-> "set_variable",
                          updates |-> <<Set("state", <<"user">>, Lit(Null))>>, merges |-> <<>>],
               reply |-> [Agent EXCEPT !.save = FALSE, !.voice = "elevenlabs",
                            !.replies = {[text |-> "spoken", parsed |-> Null]}]
                         @@ [voiceCredential |-> "none"],
               end   |-> End, stop |-> End],
     edges  |-> <<<<"start", -1, "ears">>, <<"ears", -1, "ask">>, <<"ask", -1, "route">>,
                  <<"route", 0, "put">>, <<"route", 1, "leave">>, <<"route", 2, "stop">>,
                  <<"put", -1, "put">>, <<"put", -1, "gone">>, <<"put", -1, "start">>,
                  <<"leave", -1, "reply">>, <<"reply", -1, "end">>>>,
     greets |-> TRUE, hears |-> TRUE]

\* An outside service, then Jev, then a branch to an error that ends the chat;
\* the last branch of the condition leads nowhere.
Service ==
    [node |-> [start |-> Start,
               call  |-> [type |-> "http_request", url |-> Lit(Text("https")), internal |-> FALSE,
                          replies |-> {[status |-> 200, body |-> Dict([seen |-> Num(2)])],
                                       [status |-> 503, body |-> Text("busy")]}],
               add   |-> [type |-> "set_variable", updates |-> <<>>,
                          merges |-> <<Add(Of("input", "body"), "project", "")>>],
               judge |-> [type |-> "jev", credential |-> "own jev", key |-> "jev",
                          about |-> Of("workflow", "message"),
                          answers |-> {[relevant |-> Num(1)]}],
               wait  |-> [type |-> "delay"],
               route |-> [type |-> "condition", 
                          conditions |-> <<Below("project", "seen", 2),
                                           Below("project", "seen", 3)>>],
               fail  |-> [End EXCEPT !.mode = "custom", !.ends = TRUE, !.error = TRUE,
                                     !.filter = "none"]
                         @@ [message |-> Of("input", "absent")],
               end   |-> [End EXCEPT !.mode = "specific_agent", !.filter = "selected",
                                     !.variables = {"n", "gone"}]
                         @@ [source |-> "judge"]],
     edges  |-> <<<<"start", -1, "call">>, <<"call", -1, "add">>, <<"add", -1, "judge">>,
                  <<"judge", -1, "wait">>, <<"wait", -1, "route">>, <<"route", 0, "fail">>,
                  <<"route", 1, "end">>>>,
     greets |-> FALSE, hears |-> FALSE]

MCWorkflows == {Dialogue, Service}
=============================================================================
