------------------------------- MODULE MCWriter -------------------------------
EXTENDS JsonWriter

MCWidth == [s |-> 1, l |-> 5]

Kids(values) == UNION {{v.kids[k] : k \in 1 .. size(v)} : v \in values}

Bare == {Scalar("s"), Scalar("l"), Compound("array", <<>>), Compound("object", <<>>)}

\* v without comments, or with one comment at some of its placements.
Commented(v) ==
  {[v EXCEPT !.before = b, !.same = s, !.after = a] :
     b \in Placed \cup {None}, s \in Placed \cup {None}, a \in Placed \cup {None}}

SeqUpTo(S, n) == UNION {[1 .. k -> S] : k \in 1 .. n}

Flat(S, n) == {Compound(t, kids) : t \in {"array", "object"}, kids \in SeqUpTo(S, n)}

\* Values of one line and of several.
Few == {Compound(t, <<Scalar("s"), Scalar("s")>>) : t \in {"array", "object"}}
         \cup {Compound("array", [k \in 1 .. 4 |-> Scalar("s")]), Scalar("s")}

Trees ==
  LET one   == Commented(Scalar("s"))
      level == UNION {Commented(v) : v \in Few}
      inner == Flat(Bare, 2) \cup level
  IN  Bare \cup level \cup Flat(one, 2) \cup Flat({Scalar("s"), Scalar("l")}, 4)
      \cup Flat(inner, 1)
      \cup {Compound(t, <<x, y>>) : t \in {"array", "object"},
                                    x \in Flat(Bare, 2), y \in Few \cup one}

\* An array of one line with a comment inside, and behind it one that ends in a
\* space.
Disputed ==
  {Compound("object", <<[Compound("array", <<[Scalar("s") EXCEPT !.before = "/*c*/"]>>)
                           EXCEPT !.same = "//c "], Scalar("s")>>)}

MCValue ==
  LET all == Trees \cup Disputed
  IN  all \cup Kids(all) \cup Kids(Kids(all))

MCLevel[v \in MCValue] ==
  1 + Max({0} \cup {MCLevel[v.kids[k]] : k \in 1 .. size(v)})

=============================================================================
