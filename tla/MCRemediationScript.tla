------------------------ MODULE MCRemediationScript ------------------------
(***************************************************************************)
(* Small instances of RemediationScript: no text, one line of each form    *)
(* ("chmod 0640 /etc/shadow" is secaudit's), a numbered list without a     *)
(* command as loganalyzer gives it, and a list that ends in a command;     *)
(* titles of one line or, with a newline in a file's name, of two.         *)
(***************************************************************************)
EXTENDS RemediationScript

L(f) == [form |-> f]

MCRemediations ==
    {<<>>, <<L("bare")>>, <<L("other")>>, <<L("other"), L("other")>>,
     <<L("other"), L("sudo")>>, <<L("sudo"), L("bare")>>}

\* The forms of the built-in modules' texts.
BuiltinRemediations == {<<>>, <<L("bare")>>, <<L("other")>>, <<L("other"), L("other")>>}
=============================================================================
