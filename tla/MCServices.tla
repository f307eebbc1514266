----------------------------- MODULE MCServices -----------------------------
(* Services with the values TLC checks it with. *)
EXTENDS Services

\* One server with one tool: its process, its lists and the calls to it.
MCMcpOrder == <<"s1">>
MCLists == [s \in {"s1"} |-> {"t"}]
MCDisabled == [s \in {"s1"} |-> {}]

Message(role, ids) == [role |-> role, ids |-> ids]
Round(ids) == <<Message("assistant", ids)>> \o [i \in DOMAIN ids |-> Message("tool", <<ids[i]>>)]
UserAsks == <<Message("user", <<>>)>>
Replies == <<Message("assistant", <<>>)>>

\* Up to two rounds of tool calls, before the answer to them or after it, and none.
MCHistories ==
    {<<Message("system", <<>>)>> \o UserAsks \o turn :
        turn \in {<<>>, Round(<<"a">>), Round(<<"a", "b">>) \o Round(<<"c">>),
                  Round(<<"a", "b">>) \o Replies \o UserAsks}}

Of(a) == [m \in ModelNames |-> a]
MCDefaultModels == Of("d1")
Written(settings, models, split) == File([settings |-> settings, models |-> models, split |-> split])

\* No file; one that does not parse; models inline and a models file, with models or empty.
MCUserFiles ==
    {<<Absent, Absent>>, <<Broken, Absent>>}
        \cup {<<Written({"mine"}, Of("d2"), TRUE), Written({}, Of(d), FALSE)>> : d \in {"d1", NoModel}}

MCProjects == {Absent, Written({"bypass"}, Of("d2"), FALSE)}
=============================================================================
