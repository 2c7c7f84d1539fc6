---------------------------- MODULE MCAccessRules ----------------------------
(* Small instances of the rule generation for TLC. *)
EXTENDS AccessRules

\* Host 1 is a wildcard, hosts 2 and 3 are exact, and 2 with a dot is how 3
\* begins.  The lists repeat a host, leave one empty, or are empty.
Unmixed == {<<1>>, <<2>>, <<3, 2, 3>>, <<0, 2>>, <<0>>}
Mixed == {<<1>>, <<2, 1>>}

Value(p, policy, r) == [parses |-> p, policy |-> policy, resources |-> r]
SomeValues ==
    {Value(TRUE, "bypass", {}), Value(TRUE, "deny", {1, 4}),
     Value(FALSE, "", {}), Value(TRUE, "allow", {4})}
\* The keys of host 3 come before those of host 2: a dot is less than a slash.
HostPlace == <<1, 3, 2>>
StringOrder ==
    {p \in Keys \X Keys :
        LET Place(k) == 100 * HostPlace[k[1]] + 10 * k[2] + k[3]
        IN  Place(p[1]) < Place(p[2])}
OneValue == {Value(TRUE, "deny", {})}
=============================================================================
