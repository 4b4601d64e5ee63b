---------------------------- MODULE MC_Requests -----------------------------
(* A small instance of the request hand-off, of the access policy and of the *)
(* cron calendar.                                                            *)
EXTENDS Requests, TLC

\* No property names a canvas call.
CallSymmetry == Permutations(Call)

\* The expressions of the cron instance, as lists of items per field.
Star == [lo |-> 0, hi |-> 0, star |-> TRUE, step |-> 1]
Span(a, b) == [lo |-> a, hi |-> b, star |-> FALSE, step |-> 1]
Every(item, n) == [item EXCEPT !.step = n]
X(mi, h, d, mo, w) == [minute |-> mi, hour |-> h, dom |-> d, month |-> mo, dow |-> w]
V(n) == <<Span(n, n)>>
Expressions == {
  X(V(0), V(0), <<Star>>, <<Star>>, <<Star>>),
  X(V(0), V(0), V(1), <<Star>>, V(1)),
  X(V(59), V(23), V(29), V(2), <<Star>>),
  X(V(0), V(0), V(30), V(2), <<Star>>),
  X(V(0), V(0), V(30), V(2), V(0)),
  X(V(0), V(6), <<Span(31, 31), Span(30, 30)>>, <<Span(2, 4)>>, <<Star>>),
  X(<<Every(Span(5, 50), 20), Span(59, 59)>>, <<Every(Star, 11)>>, <<Star>>, <<Star>>, <<Star>>),
  X(V(0), V(0), <<Every(Star, 15)>>, <<Star>>, <<Star>>),
  X(V(0), V(0), <<Every(Star, 2), Span(7, 7)>>, <<Star>>, V(6)),
  X(V(0), <<Span(5, 2)>>, <<Star>>, <<Star>>, <<Star>>),
  X(V(0), V(0), <<Star>>, <<Star>>, V(7))}

\* 2001-01-01, 2096-02-28, 2096-12-31, 2104-02-29, 2100-02-28
StartDays == {306, 35062, 35369, 37984, 36523}

\* The names a and b, as numbers; a login that looks like the id of user 1, and
\* an entry that names nobody.
Name(l) == [digits |-> FALSE, value |-> l]
UserId(n) == [digits |-> TRUE, value |-> n]
Blank == [digits |-> FALSE, value |-> 0]
NameLists == {Unset, {}, {Blank}, {Name(10)}, {UserId(1)}}
Deployments ==
  {d \in [entries : NameLists, blocked : NameLists, mode : {"none", "all", "allowlist", "denylist"},
          admins : {{}, {Name(11)}, {UserId(2)}}, legacy : {{}, {UserId(2)}}] :
     d.admins = {} \/ d.legacy = {}}
Sessions ==
  {s \in [creator : {[id |-> 1, login |-> Name(10)], [id |-> 0, login |-> Name(10)]},
          collaborators : {{}, {UserId(2)}}, log_access : {{}, {Name(11)}}] :
     s.collaborators = {} \/ s.log_access = {}}
Texts == {Name(10), Name(11), UserId(1), Blank}
=============================================================================
