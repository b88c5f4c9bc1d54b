---- MODULE MCChatRuns ----
EXTENDS ChatRuns
CONSTANTS r1, r2, x, y

MCOutcomes ==
    {[sets |-> {x}, error |-> FALSE, ends |-> FALSE],
     [sets |-> {y}, error |-> TRUE, ends |-> TRUE]}

MCCaps == <<1, 1>>
====
