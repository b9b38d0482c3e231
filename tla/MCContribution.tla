--------------------------- MODULE MCContribution ---------------------------
EXTENDS Contribution, TLC
CONSTANTS agent, m1, m2, code, wall
MCMissions == {<<agent, m1>>, <<agent, m2>>}
MCFiles == MCMissions \cup {<<code>>, <<wall>>}
MCSubstrate == <<agent>>
MCEnforced == {<<agent>>, <<code>>}
MCProtected == {<<wall>>}
MCRules == {[actors |-> {"bot"}, paths |-> {<<code>>}, kind |-> "bounded_content", max |-> 1, registries |-> {}]}
MCIdentities == <<{}, {"planner"}, {"someone"}, {}>>
MCInitialTree == [f \in MCFiles |-> IF f \in {<<agent, m2>>} THEN 0 ELSE 1]
Edit(changes, author, msn, signed) == [changes |-> changes, author |-> author, msn |-> msn, signed |-> signed, note |-> FALSE]
MCEdits == {Edit(<<code>> :> 2, "bot", None, FALSE),
            Edit((<<agent, m1>> :> 2) @@ (<<wall>> :> 2), "someone", <<agent, m1>>, FALSE),
            Edit((<<agent, m2>> :> 1) @@ (<<wall>> :> 0), "planner", <<agent, m2>>, TRUE)}
\* The bound: a history of MaxCommits with a commit of the bot is checked, and not continued.
MCBound == Len(commits) < MaxCommits \/ \A c \in Ids : commits[c].author # "bot"
=============================================================================
