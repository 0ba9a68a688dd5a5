------------------------------ MODULE MCAuthority ------------------------------
(* Two agents, a data object, a mailbox and a gateway tool; each scenario asks  *)
(* one kind of thing of the policy.                                             *)
EXTENDS Authority, TLC

MCObjects == {"data", "box", "tool-1", "tool-2"}
MCKindOf == [o \in MCObjects |-> IF o \in {"tool-1", "tool-2"} THEN "tool:search" ELSE o]
MCKinds == {"data", "box", "tool:search"}
MCPrefix == [k \in MCKinds |-> IF k = "tool:search" THEN {"tool"} ELSE {}]

Office(rules, labels, objs, grants, masks) ==
    [rules |-> rules, labels |-> labels, objects |-> objs, grants |-> grants, masks |-> masks,
     edits |-> {}, listings |-> {}, signed |-> FALSE, broken |-> FALSE, ops |-> {},
     commands |-> 4, calls |-> 2]

Add(r) == [op |-> "add rule", what |-> r]
Del(r) == [op |-> "del rule", what |-> r]
Label(sel, l) == [op |-> "label", what |-> <<sel, l>>]
Unlabel(sel, l) == [op |-> "unlabel", what |-> <<sel, l>>]
Listing(flags) == ("tool:search" :> flags)

\* A tool with more labels than are kept: the operator's is the one dropped.
Crowded == [Office({Deny("secret")}, << <<"tool:search", "secret">> >>, {}, {<<"tool-1", {"execute"}>>}, {})
              EXCEPT !.listings = {Listing({"credential", "remote"})}]

MCOffices == {
    \* Handles are derived and used under an approval rule.
    [Office({Approval("private")}, << <<"box", "private">> >>, {"box"},
            {<<"box", {"send", "receive", "approval"}>>, <<"box", {"receive"}>>},
            {{"send"}, {"receive", "approval"}}) EXCEPT !.calls = 4, !.commands = 3],
    \* Two requests wait for signatures at once.
    [Office({}, <<>>, {"box", "data"}, {<<"box", {"send", "approval"}>>}, {})
        EXCEPT !.signed = TRUE, !.calls = 3, !.commands = 3],
    \* A batch, under rules that forbid one object and keep two apart.
    [Office({Separate("customer", "outside"), Deny("secret")},
            << <<"data", "customer">>, <<"box", "outside">> >>, {"box", "data"},
            {<<"data", {"read"}>>, <<"box", {"send"}>>}, {})
        EXCEPT !.ops = {"batch", "delete"}, !.commands = 6, !.calls = 0],
    \* The same permissions again, with and without the gate.
    [Office({}, <<>>, {"box"}, {<<"box", {"send", "approval"}>>, <<"box", {"send"}>>, <<"box", {"write"}>>}, {{"send"}})
        EXCEPT !.ops = {"reap", "review"}, !.commands = 4, !.calls = 1],
    \* The policy is edited under handles that are held.
    [Office({Deny("secret")}, <<>>, {"box", "data"}, {<<"box", {"send"}>>, <<"box", {"read", "approval"}>>}, {{}})
        EXCEPT !.edits = {Label("box", "secret"), Unlabel("box", "secret"),
                          Add(Approval("secret")), Del(Deny("secret"))},
               !.commands = 5, !.calls = 1],
    \* A tool gains a credential while agents hold it.
    [Office({Approval("credential")}, <<>>, {},
            {<<"tool-1", {"execute"}>>, <<"tool-1", {"execute", "approval"}>>}, {})
        EXCEPT !.listings = {Listing({}), Listing({"credential"})}, !.ops = {"delete"},
               !.commands = 5, !.calls = 2],
    Crowded,
    \* The boot policy is malformed.
    [Office({}, <<>>, {"box"}, {<<"box", {"send"}>>}, {})
        EXCEPT !.edits = {Add(Deny("secret"))}, !.listings = {Listing({})}, !.broken = TRUE]}

\* One agent, and grants on one object with and without the gate.
DiffOffices == {
    [Office({}, <<>>, {"box"}, {<<"box", {"send", "approval"}>>, <<"box", {"send"}>>, <<"box", {"write"}>>}, {})
        EXCEPT !.calls = 0]}

CrowdedOffices == {Crowded}
=============================================================================
