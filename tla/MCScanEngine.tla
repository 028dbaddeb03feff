---------------------------- MODULE MCScanEngine ----------------------------
(***************************************************************************)
(* Small instances of ScanEngine: three modules named 1, 2, 3, registered  *)
(* out of order, as a plugin may be.                                       *)
(***************************************************************************)
EXTENDS ScanEngine

MCRegistry == <<2, 3, 1>>

\* "a" and "A " name module 1, "b" module 2, "zz" none.
MCSpellings == {"a", "A ", "b", "zz"}
MCNormal    == [s \in MCSpellings |-> CASE s \in {"a", "A "} -> 1
                                        [] s = "b" -> 2
                                        [] s = "zz" -> 9]

\* Every request that matters for selection: default, unknown names only, a
\* name twice under two spellings, known and unknown mixed.
RequestsAll == {<<>>, <<"zz">>, <<"a">>, <<"b", "zz", "a">>, <<"a", "b", "A ">>}
RequestsTwo == {<<"b", "a">>, <<"zz">>}

Finding(n, s) == [tag |-> n, severity |-> s]

\* One finding below any threshold above INFO, one above it.
TwoFindings   == {Finding("x", CRITICAL), Finding("y", LOW)}
\* The same with a finding a plugin gave a severity that is none.
MixedFindings == TwoFindings \cup {Finding("z", Unordered)}

AllDeeds  == {"unavailable", "run", "crash", "unprintable", "unspeakable", "quit"}
FewDeeds  == {"run", "unprintable", "unspeakable", "quit"}
QuitDeeds == {"run", "quit"}

\* A result that goes by module 2's name, and one whose name is no string.
TwoLabels == {2, Nameless}
=============================================================================
