---------------------------- MODULE MCMacDaemon ----------------------------
(* MacDaemon with the requirements of the daemon's tests: each text has a   *)
(* meaning, the clause it compiles to, which CodeRequirement reads and      *)
(* judges as the daemon does.                                               *)
EXTENDS MacDaemon, CodeRequirement

And(l, r) == <<"and", l, r>>
Or(l, r) == <<"or", l, r>>
Exists == <<"exists", EmptyData>>
Equals(value) == <<"equals", value>>
AppName == Data + 5
TeamName == Data + 6
Hash == Data + 7

Pin == <<"cdhash", Hash>>
Anchor == <<"generic_anchor">>
Named == <<"identifier", AppName>>
Team == <<"leaf_field", TeamField, Equals(TeamName)>>
Ca == <<"intermediate_extension", DeveloperIdCaOid, Exists>>
Leaf == <<"leaf_extension", DeveloperIdLeafOid, Exists>>
Store == <<"leaf_extension", AppStoreOid, Exists>>

DevWith(anchor, name, team, ca, leaf) ==
    And(anchor, And(name, And(team, And(ca, leaf))))
Dev == DevWith(Anchor, Named, Team, Ca, Leaf)
\* The requirement codesign designates for an application.
Designated == And(Or(And(Anchor, Store), And(And(Anchor, Ca), And(Leaf, Team))), Named)
\* A pin under n conjunctions.
Nested[n \in Nat] == IF n = 0 THEN Pin ELSE And(Nested[n - 1], Anchor)

MCMeaning == [
    pin |-> Pin, dev |-> Dev, designated |-> Designated,
    store |-> And(And(Anchor, Named), Store),
    pin_or_dev |-> Or(Pin, Dev),
    pin_or_anchor |-> Or(Pin, Anchor),
    dev_or_named |-> Or(Dev, Named),
    pin_or_always |-> Or(Pin, <<"true">>),
    not_pin |-> <<"not", Pin>>,
    no_anchor |-> DevWith(Named, Named, Team, Ca, Leaf),
    no_name |-> DevWith(Anchor, <<"identifier", EmptyData>>, Team, Ca, Leaf),
    any_team |-> DevWith(Anchor, Named, <<"leaf_field", TeamField, Exists>>, Ca, Leaf),
    empty_team |-> DevWith(Anchor, Named, <<"leaf_field", TeamField, Equals(EmptyData)>>, Ca, Leaf),
    other_field |-> DevWith(Anchor, Named, <<"leaf_field", AppName, Equals(TeamName)>>, Ca, Leaf),
    no_ca |-> DevWith(Anchor, Named, Team, Leaf, Leaf),
    no_leaf |-> DevWith(Anchor, Named, Team, Ca, Ca),
    swapped |-> DevWith(Anchor, Named, Team, Leaf,
                        <<"leaf_extension", DeveloperIdCaOid, Exists>>),
    \* clauses that are read over: a date, a path, a notarisation, a root field
    pin_and_others |-> And(Pin, And(<<"raw", <<16, AppName, 9, 0, 0>>>>,
                       And(<<"raw", <<12, 1>>>>, <<"raw", <<11, 2, TeamField, 0>>>>))),
    unknown |-> And(Pin, <<"raw", <<24>>>>),
    deepest |-> Nested[MaxDepth - 1],
    too_deep |-> Nested[MaxDepth],
    broken |-> NoCompile,
    foreign |-> <<"cdhash", Hash + 1>>]

\* What the daemon lets pass, what only the product meets, and what the README
\* allows; each is a constant TLC computes once.
StrongTexts == {t \in DOMAIN MCMeaning : EnsureStrong(MCMeaning[t])}
SoundTexts == {t \in DOMAIN MCMeaning : IsSound(MCMeaning[t])}
AcceptableTexts == {t \in DOMAIN MCMeaning : IsAcceptable(MCMeaning[t])}

\* Whatever ensure_strong lets pass, only the product's code meets.
ASSUME StrongIsSound == StrongTexts \subseteq SoundTexts

MCStrong == StrongTexts
MCSound == SoundTexts
MCAcceptable == AcceptableTexts

\* Every requirement once as the policy's and once as the plist's; a plist
\* without the flag, one without its value, and a product with neither.
MCSources ==
    {<<NoText, t>> : t \in (DOMAIN MCMeaning) \ {"foreign"}}
      \cup {<<t, "pin">> : t \in (DOMAIN MCMeaning) \ {"foreign", "pin"}}
      \cup {<<NoText, NoText>>, <<NoValue, "pin">>, <<"dev", NoText>>}
=============================================================================
