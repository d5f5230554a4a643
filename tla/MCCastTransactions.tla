------------------------- MODULE MCCastTransactions -------------------------
(* CastTransactions on small instances. *)
EXTENDS CastTransactions

CONSTANTS u1, u2

List(l, m) == [p \in Positions |-> IF p = 1 THEN l ELSE m]

Save(l, m) == [kind |-> "save", lists |-> List(l, m), rejected |-> Users \ (Members(l) \cup Members(m))]

Saves == {Save(<<u1, u2>>, <<>>), Save(<<u2>>, <<u1>>), Save(<<>>, <<u1>>)}

Toggles == {[kind |-> "toggle", user |-> u] : u \in Users}

Updates == {[kind |-> "update", setup |-> s] : s \in {{1}, {1, 2}}}

Deletion == {[kind |-> "delete"]}

\* Any two requests, one setup change at most.
AnyTwo ==
  {w \in [Tx -> Saves \cup Toggles \cup Updates \cup Deletion] :
     \A s, t \in Tx : w[s].kind = "update" /\ w[t].kind = "update" => s = t}

\* Two users withdraw at once; a save runs into a setup change.
TwoToggles == {w \in [Tx -> Toggles] : \A s, t \in Tx : s # t => w[s] # w[t]}

SaveAndUpdate ==
  {w \in [Tx -> Saves \cup Updates] : {w[t].kind : t \in Tx} = {"save", "update"}}
=============================================================================
