-------------------------- MODULE MCMessageRoutes --------------------------
EXTENDS MessageRoutes, TLC

CONSTANTS r1, r2, t1, t2, dm, dmLegacy, group

MCCanon == (dm :> dm) @@ (dmLegacy :> dm) @@ (group :> group)

Text(m, t, c) == [kind |-> "text", method |-> m, temp |-> t, chat |-> c]
Other(k)      == [kind |-> k, method |-> "private-api", temp |-> None, chat |-> group]

Pairs(A, B) == {(r1 :> a) @@ (r2 :> b) : a \in A, b \in B}

\* Sends that share a tempGuid or a chat, by either way; a reaction; edits that meet.
MixedLoads ==
    Pairs({Text("private-api", t1, dmLegacy), Text("apple-script", t1, dm)},
          {Text("private-api", t1, dm)})
    \cup Pairs({Text("apple-script", t1, group)},
               {Text("apple-script", t2, group), Other("react")})
    \cup Pairs({Other("edit")}, {Other("edit")})
    \cup Pairs({Other("add")}, {Other("remove")})

ScriptLoads == Pairs({Text("apple-script", t1, dm)}, {Text("apple-script", None, dm)})
EditLoads   == Pairs({Other("edit")}, {Other("edit")})
=============================================================================
