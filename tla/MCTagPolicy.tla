------------------------------- MODULE MCTagPolicy -------------------------------
(* Model values for TagPolicy: ten tags as registries hold them, and the        *)
(* pattern ^main-\w+(?:-(?P<n>\d+))?$ with its group n.                          *)
EXTENDS TagPolicy

T(order, digits, version, release, number) ==
  [order |-> order, digits |-> digits, version |-> version, release |-> release,
   number |-> number]

\* Versions 1.9 = 1.9.0 < 1.10.0 < 2.0.0-rc.1 < 9 < 10 < 20240101, numbers
\* 1.9 < 9 < 10 < 20240101.
MCText ==
  [t \in {"1.10.0", "1.9", "1.9.0", "2.0.0-rc.1", "20240101", "latest",
          "main-a1-9", "main-b2-10", "main-c3", "nan"} |->
     CASE t = "1.10.0"     -> T(2, FALSE, 2, TRUE, 0)
       [] t = "1.9"        -> T(3, FALSE, 1, TRUE, 1)
       [] t = "1.9.0"      -> T(4, FALSE, 1, TRUE, 0)
       [] t = "2.0.0-rc.1" -> T(6, FALSE, 3, FALSE, 0)
       [] t = "20240101"   -> T(7, TRUE, 6, TRUE, 4)
       [] t = "latest"     -> T(9, FALSE, 0, FALSE, 0)
       [] t = "main-a1-9"  -> T(10, FALSE, 0, FALSE, 0)
       [] t = "main-b2-10" -> T(11, FALSE, 0, FALSE, 0)
       [] t = "main-c3"    -> T(12, FALSE, 0, FALSE, 0)
       [] t = "nan"        -> T(13, FALSE, 0, FALSE, NaN)]

MCTagNames == DOMAIN MCText

MCGroup ==
  [t \in {"main-a1-9", "main-b2-10", "main-c3"} |->
     CASE t = "main-a1-9"  -> T(8, TRUE, 4, TRUE, 2)
       [] t = "main-b2-10" -> T(5, TRUE, 5, TRUE, 3)
       [] t = "main-c3"    -> T(1, FALSE, 0, FALSE, 0)]

MCMatches == DOMAIN MCGroup

\* A range of >= 1.9.0 and < 2.
Versions1 == {1, 2}

All(kinds, orders, ranges) ==
  [kind: kinds, order: orders, range: ranges,
   filter: [pattern: {"none", "valid", "invalid"}, extract: {"none", "known", "unknown"}]]

MCPolicies ==
  All({"nil", "unset"}, {"desc"}, {"none"})
    \union All({"semver"}, {"desc"}, {"none", "valid", "invalid"})
    \union All({"numerical", "alphabetical"}, {"asc", "desc"}, {"none"})
================================================================================
