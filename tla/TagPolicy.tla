-------------------------------- MODULE TagPolicy --------------------------------
(***************************************************************************)
(* SelectTagByImagePolicy (internal/syncer) on the tags a registry lists,   *)
(* in the order in which it lists them, while tags are published.           *)
(*                                                                         *)
(* A text, which is a tag or what the capture group of the filter finds in  *)
(* it, is a record of all that is ever asked of it:                         *)
(*   order    its place in the order of strings                             *)
(*   digits   whether it is not empty and all digits                        *)
(*   version  its place among versions, 0 when semver cannot parse it       *)
(*   release  whether it is a version without pre-release part              *)
(*   number   its place among numbers, 0 when it is none, NaN when it is     *)
(*            parsed as a number that compares with none                    *)
(***************************************************************************)
EXTENDS Integers, Sequences, Functions, FiniteSetsExt

CONSTANTS
  TagNames,   \* the tags there may be
  Text,       \* of each tag
  Matches,    \* the tags the pattern matches
  Group,      \* what its capture group finds in each of them
  InRange,    \* the versions the semver range allows
  Policies,
  MaxTags     \* bound: tags a list has

NaN   == -1
Texts == [order: Nat, digits: BOOLEAN, version: Nat, release: BOOLEAN,
          number: Nat \union {NaN}]
Filters == [pattern: {"none", "valid", "invalid"}, extract: {"none", "known", "unknown"}]

ASSUME TextsAssumption ==
  /\ Text \in [TagNames -> Texts] /\ Matches \subseteq TagNames /\ Group \in [Matches -> Texts]
  /\ \A s, t \in TagNames : Text[s].order = Text[t].order => s = t
ASSUME PoliciesAssumption ==
  /\ Policies \subseteq [kind: {"nil", "semver", "numerical", "alphabetical", "unset"},
                         order: {"asc", "desc"}, range: {"none", "valid", "invalid"},
                         filter: Filters]
  /\ InRange \subseteq Nat /\ MaxTags \in Nat

VARIABLES
  policy,
  tags,      \* as the registry lists them
  selected   \* the answer for them

policyVars == <<policy, tags, selected>>

Empty   == "no tag"
Invalid == "error"

-----------------------------------------------------------------------------
(***************************************************************************)
(* The lists the code makes of the list of tags are parts of it in the same *)
(* order: a set of its positions stands for each of them.                   *)
(***************************************************************************)
\* Slip: every tag is compared with the first.
LastAboveFirst(list, measure) ==
  IF DOMAIN measure = {} THEN Empty
  ELSE LET first == Min(DOMAIN measure)
           above == {k \in DOMAIN measure : measure[k] > measure[first]}
       IN  list[IF above = {} THEN first ELSE Max(above)]

\* The loop of each policy: the first of those with the highest measure, a function
\* of their positions.
FirstHighest(list, measure) ==
  IF DOMAIN measure = {} THEN Empty
  ELSE list[CHOOSE k \in DOMAIN measure : \A j \in DOMAIN measure :
              /\ measure[j] <= measure[k]
              /\ j < k => measure[j] < measure[k]]

\* policy.Policy = nil: the highest release, else the highest tag.
WithoutPolicy(list) ==
  LET releases == {k \in DOMAIN list : Text[list[k]].release}
  IN  FirstHighest(list, [k \in IF releases = {} THEN DOMAIN list ELSE releases |->
                            Text[list[k]].order])

\* Step 1: the tags the pattern matches, if there is one.
Filtered(p, list) ==
  {k \in DOMAIN list : p.filter.pattern = "none" \/ list[k] \in Matches}

\* Step 2: what is compared is what the group finds, or the tag itself.
Extracts(p) == p.filter.pattern = "valid" /\ p.filter.extract # "none"

Value(p, t) == IF Extracts(p) THEN Group[t] ELSE Text[t]

\* A group the pattern does not have leaves no values.
TagValues(p, list) ==
  IF Extracts(p) /\ p.filter.extract = "unknown" THEN {} ELSE Filtered(p, list)

\* Step 3.  With semver, a first value of digits stands for a list that has no
\* versions.
ApplySemver(p, list, values) ==
  LET versions == {k \in values : Value(p, list[k]).version # 0}
      allowed  == {k \in versions :
                     p.range = "none" \/ Value(p, list[k]).version \in InRange}
  IN  IF Value(p, list[Min(values)]).digits \/ versions = {} THEN Empty
      ELSE IF p.range = "invalid" THEN Invalid
      ELSE FirstHighest(list, [k \in allowed |-> Value(p, list[k]).version])

\* Order "asc" takes the lowest.
Ordered(p, n) == IF p.order = "asc" THEN 0 - n ELSE n

\* Slip: numbers are compared as strings.
NumberAsText(p, t) == Value(p, t).order

Number(p, t) == Value(p, t).number

\* Nothing is above or below NaN: it stays when the loop begins with it, and is
\* passed over elsewhere.
ApplyNumerical(p, list, values) ==
  LET parsed  == {k \in values : Value(p, list[k]).number # 0}
      numbers == {k \in parsed : Value(p, list[k]).number # NaN}
  IN  IF parsed # {} /\ Min(parsed) \notin numbers THEN list[Min(parsed)]
      ELSE FirstHighest(list, [k \in numbers |-> Ordered(p, Number(p, list[k]))])

ApplyAlphabetical(p, list, values) ==
  FirstHighest(list, [k \in values |-> Ordered(p, Value(p, list[k]).order)])

\* No kind of policy: the values are extracted, but the tags compared.
ApplyUnset(list, values) == FirstHighest(list, [k \in values |-> Text[list[k]].order])

SelectTag(p, list) ==
  LET values == TagValues(p, list)
  IN  IF list = <<>> THEN Empty
      ELSE IF p.kind = "nil" THEN WithoutPolicy(list)
      ELSE IF p.filter.pattern = "invalid" THEN Invalid
      ELSE IF values = {} THEN Empty
      ELSE CASE p.kind = "semver"       -> ApplySemver(p, list, values)
             [] p.kind = "numerical"    -> ApplyNumerical(p, list, values)
             [] p.kind = "alphabetical" -> ApplyAlphabetical(p, list, values)
             [] p.kind = "unset"        -> ApplyUnset(list, values)

PolicyInit == policy \in Policies /\ tags = <<>> /\ selected = SelectTag(policy, <<>>)

\* A push to the registry; where its list has the new tag is the registry's.
PublishTag ==
  /\ Len(tags) < MaxTags
  /\ \E t \in TagNames \ Range(tags), k \in 0 .. Len(tags) :
       tags' = SubSeq(tags, 1, k) \o <<t>> \o SubSeq(tags, k + 1, Len(tags))
  /\ selected' = SelectTag(policy, tags')
  /\ UNCHANGED policy

Full == Len(tags) = MaxTags /\ UNCHANGED policyVars

PolicyNext == PublishTag \/ Full
PolicySpec == PolicyInit /\ [][PolicyNext]_policyVars

-----------------------------------------------------------------------------
(***************************************************************************)
(* Properties                                                              *)
(***************************************************************************)
\* The policies as the configuration describes them, over the set of tags: who
\* may be selected, and what they are compared by.
Offered == IF policy.kind = "nil" THEN Range(tags)
           ELSE {tags[k] : k \in TagValues(policy, tags)}

Eligible ==
  CASE policy.kind = "semver" ->
         {t \in Offered : /\ Value(policy, t).version # 0
                          /\ policy.range = "none" \/ Value(policy, t).version \in InRange}
    [] policy.kind = "numerical" -> {t \in Offered : Value(policy, t).number \notin {0, NaN}}
    [] policy.kind = "nil" ->
         IF \E t \in Offered : Text[t].release THEN {t \in Offered : Text[t].release}
         ELSE Offered
    [] OTHER -> Offered

Measure(t) ==
  CASE policy.kind = "semver"       -> Value(policy, t).version
    [] policy.kind = "numerical"    -> Value(policy, t).number
    [] policy.kind = "alphabetical" -> Value(policy, t).order
    [] OTHER -> Text[t].order

Best ==
  LET rising == policy.order = "asc" /\ policy.kind \in {"numerical", "alphabetical"}
  IN  {t \in Eligible : \A s \in Eligible :
         IF rising THEN Measure(t) <= Measure(s) ELSE Measure(s) <= Measure(t)}

\* A list for the semver policy that begins with a number is taken for one that
\* has no versions.
BeginsWithNumber(p, list) ==
  p.kind = "semver" /\ TagValues(p, list) # {} /\
    Value(p, list[Min(TagValues(p, list))]).digits

\* A list for the numerical policy whose first number is NaN is decided by it.
BeginsWithNaN(p, list) ==
  p.kind = "numerical" /\
    LET parsed == {k \in TagValues(p, list) : Value(p, list[k]).number # 0}
    IN  parsed # {} /\ Value(p, list[Min(parsed)]).number = NaN

\* Where the first of the list decides what becomes of the others.
Misled(p, list) == BeginsWithNumber(p, list) \/ BeginsWithNaN(p, list)

\* "Returns the selected tag, or "" if no match is found": the answer is one of
\* the best of the eligible tags, in whatever order the registry lists them, and
\* none exactly when there are none, unless the first of the list misleads.
SelectsTheBest ==
  selected # Invalid /\ ~Misled(policy, tags) =>
    IF Eligible = {} THEN selected = Empty ELSE selected \in Best

\* A tag that is published is selected, or leaves the selection as it is: the
\* loop never goes to a third tag for it, neither between tags that compare
\* equal nor because of its place in the list.
NewTagOrSame ==
  [][ ~Misled(policy, tags) /\ ~Misled(policy, tags') =>
        selected' \in {selected} \union (Range(tags') \ Range(tags)) \union {Invalid} ]_policyVars
================================================================================
