------------------------------ MODULE MCStartup ------------------------------
(***************************************************************************)
(* Every command line of up to four of six tokens or three of eleven, and  *)
(* longer ones with plugins; two built-in files, one of them with two      *)
(* modules, and two plugins, of which one replaces a built-in module and   *)
(* one is named like a module of Python's own.                             *)
(***************************************************************************)
EXTENDS Startup, SequencesExt

Flag(a) == [sort |-> "flag", text |-> a]
Cmd(c)  == [sort |-> "command", text |-> c]

MCTexts     == {"", "A", "a", "b", "P", "p", "typo", "list", "json", "07", "7", "-1", "D", "format=json"}
MCNumerals  == {Word("07"), [sort |-> "dashed", text |-> "-1"]}
MCCanonical == [n \in MCNumerals |-> IF n.sort = "word" THEN "7" ELSE "-1"]

Core  == {Flag("all"), Flag("workers"), Cmd("scan"), Cmd("diff"), Word("json"), Word("07")}
Other == {Flag("modules"), Flag("format"), Flag("help"), Word("list"),
          [sort |-> "dashed", text |-> "-1"]}

\* "--format=json", which is neither a flag nor a command.
KeyValue == [sort |-> "dashed", text |-> "format=json"]

WithPlugins ==
    {<<Cmd("scan")>> \o choice \o <<Flag("custom_modules_dir"), dir>> :
        choice \in {<<Flag("all")>>, <<Flag("modules"), Word("list")>>,
                    <<Flag("modules"), Word("list"), Flag("all")>>},
        dir \in {Word("D"), Word(""), Cmd("list")}}

Further ==
    {<<Cmd("list")>>, <<Cmd("list"), Cmd("scan"), Flag("modules"), Word("")>>,
     <<Cmd("diff"), Word("a"), Cmd("list"), Flag("verbose"), Cmd("diff"), Word("b")>>,
     <<Flag("modules"), Word("json"), Cmd("scan"), Flag("modules"), Word("typo")>>,
     <<Cmd("scan"), Flag("all"), Flag("severity"), Cmd("scan")>>,
     <<Cmd("scan"), Flag("all"), Flag("format"), Word("json")>>,
     <<Cmd("scan"), Flag("all"), Flag("format"), Word("json"), Flag("output"), Word("D")>>,
     <<Cmd("scan"), Flag("all"), KeyValue>>}

MCCommandLines == BoundedSeq(Core, 4) \cup BoundedSeq(Core \cup Other, 3) \cup WithPlugins \cup Further

MCSplit ==
    [v \in Value |->
        IF v = Word("list") THEN <<"A", "typo", "b", "a">>
        ELSE IF v = Word("json") THEN <<"P">>
        ELSE <<v.text>>]
MCNormal == [x \in Typed |-> CASE x = "A" -> "a" [] x = "P" -> "p" [] OTHER -> x]

MCBuiltins == <<"first", "second">>
MCContents == [f \in {"first", "second", "shadowing", "json"} |->
                  CASE f = "first"     -> <<"A1", "B1">>
                    [] f = "second"    -> <<"P1">>
                    [] f = "shadowing" -> <<"A2">>
                    [] f = "json"      -> <<"B2">>]
MCNameOf == [c \in {"A1", "A2", "B1", "B2", "P1"} |->
                CASE c \in {"A1", "A2"} -> "a" [] c \in {"B1", "B2"} -> "b" [] OTHER -> "P"]
MCListings == {<<"shadowing", "json">>, <<"json", "shadowing">>}

=============================================================================
