------------------------------ MODULE ParseArgs ------------------------------
(***************************************************************************)
(* parse_args (xping/cli.py): one pass over the command line, with an      *)
(* inner loop that takes every token after "diff" for a file until one     *)
(* starts with a dash.  Beside it the grammar of a command line, stated    *)
(* without a loop, that the pass has to agree with.                        *)
(*                                                                         *)
(* A token is the spelling of a flag, of which only the attribute it sets  *)
(* matters ("-m" and "--modules" are the same token), a command, or any    *)
(* other text, which either starts with a dash or does not.                *)
(***************************************************************************)
EXTENDS Integers, Sequences, FiniteSets

CONSTANTS
    Texts,        \* the texts that are neither a flag nor a command
    Numerals,     \* the tokens int() accepts
    Canonical,    \* numeral -> the text of its number
    CommandLines  \* the command lines considered

Attribute == {"all", "modules", "target", "format", "output", "severity", "workers",
              "log_file", "verbose", "no_color", "version", "help", "generate_fix",
              "custom_modules_dir"}
Switches  == {"all", "verbose", "no_color", "version", "help"}
Command   == {"scan", "list", "diff"}

Token ==
    [sort : {"flag"}, text : Attribute] \cup [sort : {"command"}, text : Command]
        \cup [sort : {"word", "dashed"}, text : Texts]

ASSUME LineAssumption ==
    /\ CommandLines \subseteq Seq(Token)
    /\ Numerals \subseteq [sort : {"word", "dashed"}, text : Texts]
    /\ Canonical \in [Numerals -> Texts]

TakesValue(t) == t.text \notin Switches
Numeric(t)    == t.text = "workers"
Dashed(t)     == t.sort \in {"flag", "dashed"}

Word(x) == [sort |-> "word", text |-> x]
On      == [sort |-> "bool", text |-> "True"]
Unset   == [sort |-> "none", text |-> "None"]

\* What the flag f sets its attribute to, being followed by v.
Given(f, v) == IF Numeric(f) THEN [sort |-> "int", text |-> Canonical[v]] ELSE v

Default ==
    [a \in Attribute |->
        IF a = "format" THEN Word("terminal")
        ELSE IF a = "severity" THEN Word("info")
        ELSE IF a = "workers" THEN [sort |-> "int", text |-> "4"]
        ELSE Unset]

Allowed(a) ==
    {Word(x) : x \in IF a = "format" THEN {"terminal", "json", "html", "sarif"}
                                     ELSE {"info", "low", "medium", "high", "critical"}}
Validated == {"format", "severity"}

\* What an attribute may hold.
Value == Token \cup [sort : {"int", "word"}, text : Texts \cup {"terminal", "info", "4"}]
               \cup {On, Unset}

VARIABLES
    argv,       \* the command line
    i,          \* the index of the next token, from 1
    args,       \* the attributes of ParsedArgs
    command,    \* args.command
    diff_files, \* args.diff_files
    reading,    \* which loop the pass is in, or its verdict
    role        \* history: what each token so far was taken for

parsed == <<argv, i, args, command, diff_files, reading, role>>

ParseInit ==
    /\ argv \in CommandLines /\ i = 1
    /\ args = Default /\ command = "none" /\ diff_files = <<>>
    /\ reading = "tokens" /\ role = <<>>

-----------------------------------------------------------------------------
More  == i <= Len(argv)
Here  == argv[i]
After == argv[i + 1]

\* A flag without its value, or with one that is no number.
Lacking == TakesValue(Here) /\ (i < Len(argv) => Numeric(Here) /\ After \notin Numerals)

TakeSwitch ==
    /\ reading = "tokens" /\ More /\ Here.sort = "flag" /\ ~TakesValue(Here)
    /\ args' = [args EXCEPT ![Here.text] = On]
    /\ i' = i + 1 /\ role' = Append(role, "flag")
    /\ UNCHANGED <<argv, command, diff_files, reading>>

\* Faulty variant: a value that looks like a flag is left for the next turn.
TakeValue_IfNoFlag ==
    /\ reading = "tokens" /\ More /\ Here.sort = "flag" /\ TakesValue(Here) /\ ~Lacking
    /\ args' = [args EXCEPT ![Here.text] = Given(Here, After)]
    /\ i' = IF Dashed(After) THEN i + 1 ELSE i + 2
    /\ role' = role \o (IF Dashed(After) THEN <<"flag">> ELSE <<"flag", "value">>)
    /\ UNCHANGED <<argv, command, diff_files, reading>>

TakeValue ==
    /\ reading = "tokens" /\ More /\ Here.sort = "flag" /\ TakesValue(Here) /\ ~Lacking
    /\ args' = [args EXCEPT ![Here.text] = Given(Here, After)]
    /\ i' = i + 2 /\ role' = role \o <<"flag", "value">>
    /\ UNCHANGED <<argv, command, diff_files, reading>>

TakeCommand ==
    /\ reading = "tokens" /\ More /\ Here.sort = "command"
    /\ command' = Here.text
    /\ reading' = IF Here.text = "diff" THEN "files" ELSE "tokens"
    /\ i' = i + 1 /\ role' = Append(role, "command")
    /\ UNCHANGED <<argv, args, diff_files>>

TakeFile ==
    /\ reading = "files" /\ More /\ ~Dashed(Here)
    /\ diff_files' = Append(diff_files, Here)
    /\ i' = i + 1 /\ role' = Append(role, "file")
    /\ UNCHANGED <<argv, args, command, reading>>

EndOfFiles ==
    /\ reading = "files" /\ (More => Dashed(Here))
    /\ reading' = "tokens"
    /\ UNCHANGED <<argv, i, args, command, diff_files, role>>

RefuseToken ==
    /\ reading = "tokens" /\ More
    /\ Here.sort \in {"word", "dashed"} \/ (Here.sort = "flag" /\ Lacking)
    /\ reading' = "refused"
    /\ UNCHANGED <<argv, i, args, command, diff_files, role>>

Validate ==
    /\ reading = "tokens" /\ ~More
    /\ reading' = IF \A a \in Validated : args[a] \in Allowed(a)
                  THEN "accepted" ELSE "refused"
    /\ UNCHANGED <<argv, i, args, command, diff_files, role>>

ParseNext ==
    \/ TakeSwitch \/ TakeValue \/ TakeCommand \/ TakeFile \/ EndOfFiles
    \/ RefuseToken \/ Validate

-----------------------------------------------------------------------------
(***************************************************************************)
(* The grammar.  A reading r of a line gives each token a role, decided by *)
(* the role of the token before it: what follows a flag that takes a value *)
(* is its value, whatever it looks like; what follows "diff" or a file and *)
(* has no dash is a file; anything else is a flag or a command.            *)
(***************************************************************************)
Role == {"flag", "value", "command", "file"}

ValueDue(line, r, p) == p > 1 /\ r[p - 1] = "flag" /\ TakesValue(line[p - 1])
FileDue(line, r, p) ==
    p > 1 /\ (r[p - 1] = "file" \/ (r[p - 1] = "command" /\ line[p - 1].text = "diff"))

FitsAt(line, r, p) ==
    IF ValueDue(line, r, p)
    THEN r[p] = "value" /\ (Numeric(line[p - 1]) => line[p] \in Numerals)
    ELSE IF FileDue(line, r, p) /\ ~Dashed(line[p])
    THEN r[p] = "file"
    ELSE r[p] \in {"flag", "command"} /\ line[p].sort = r[p]

Readings(line) ==
    {r \in [1 .. Len(line) -> Role] :
        /\ \A p \in 1 .. Len(line) : FitsAt(line, r, p)
        /\ ~ValueDue(line, r, Len(line) + 1)}

\* Position p is where r gives the attribute a the last time before n.
LastGiven(line, r, n, a, p) ==
    /\ r[p] = "flag" /\ line[p].text = a
    /\ \A q \in p + 1 .. n : ~(r[q] = "flag" /\ line[q].text = a)

\* v is the value the first n tokens give to the attribute a.
Gives(line, r, n, a, v) ==
    \/ v = Default[a] /\ \A p \in 1 .. n : ~(r[p] = "flag" /\ line[p].text = a)
    \/ \E p \in 1 .. n :
          /\ LastGiven(line, r, n, a, p)
          /\ v = IF TakesValue(line[p]) THEN Given(line[p], line[p + 1]) ELSE On

\* The format and the severity the whole line gives are among the allowed.
Acceptable(line, r) ==
    \A a \in Validated : \E v \in Allowed(a) : Gives(line, r, Len(line), a, v)

\* c is the command the first n tokens give.
Names(line, r, n, c) ==
    \/ c = "none" /\ \A p \in 1 .. n : r[p] # "command"
    \/ \E p \in 1 .. n :
          /\ r[p] = "command" /\ c = line[p].text
          /\ \A q \in p + 1 .. n : r[q] # "command"

FilesUpTo(r, n) == {p \in 1 .. n : r[p] = "file"}

\* The files among the first n tokens, in order, are fs.
Collects(line, r, n, fs) ==
    /\ Len(fs) = Cardinality(FilesUpTo(r, n))
    /\ \A p \in FilesUpTo(r, n) : fs[Cardinality(FilesUpTo(r, p))] = line[p]

(***************************************************************************)
(* The command line is read by its grammar (cli.py:192-284).  A line is    *)
(* accepted only with a reading: every token used in exactly one role,     *)
(* each attribute what its last flag gave, the command the last one named, *)
(* the files of the drift comparison in the order given, format and        *)
(* severity allowed.  A line is refused only if it has no such reading.    *)
(*                                                                         *)
(* The grammar is the code's.  Two texts promise another one: the          *)
(* docstring (cli.py:197) "key=value style", yet "--format=json" is an     *)
(* unknown flag here, and README.md:132 has --output "required for         *)
(* json/html/sarif", yet a line without it is accepted.                    *)
(***************************************************************************)
ReadByGrammar ==
    /\ reading = "accepted" =>
           /\ role \in Readings(argv) /\ Acceptable(argv, role)
           /\ \A a \in Attribute : Gives(argv, role, Len(argv), a, args[a])
           /\ Names(argv, role, Len(argv), command)
           /\ Collects(argv, role, Len(argv), diff_files)
    /\ reading = "refused" => \A r \in Readings(argv) : ~Acceptable(argv, r)

(***************************************************************************)
(* The inductive invariant behind it: the tokens before i have the role    *)
(* every reading of the line gives them, and the attributes, the command   *)
(* and the files are what these tokens give.                               *)
(***************************************************************************)
RolesFit ==
    /\ Len(role) = i - 1 /\ i \in 1 .. Len(argv) + 1
    /\ \A p \in 1 .. i - 1 : FitsAt(argv, role, p)
    /\ ~ValueDue(argv, role, i)
    /\ reading = "files" => FileDue(argv, role, i)
    /\ reading = "tokens" /\ FileDue(argv, role, i) /\ More => Dashed(Here)

RolesForced == \A r \in Readings(argv) : \A p \in 1 .. i - 1 : r[p] = role[p]

ReadSoFar ==
    /\ \A a \in Attribute : Gives(argv, role, i - 1, a, args[a])
    /\ Names(argv, role, i - 1, command)
    /\ Collects(argv, role, i - 1, diff_files)

Verdict ==
    /\ reading = "accepted" => i = Len(argv) + 1 /\ \A a \in Validated : args[a] \in Allowed(a)
    /\ reading = "refused" => \A r \in Readings(argv) : ~Acceptable(argv, r)

ParseInv == RolesFit /\ RolesForced /\ ReadSoFar /\ Verdict

ParseTypeOK ==
    /\ argv \in CommandLines /\ i \in Nat \ {0}
    /\ args \in [Attribute -> Value]
    /\ command \in Command \cup {"none"} /\ diff_files \in Seq(Token)
    /\ reading \in {"tokens", "files", "accepted", "refused"}
    /\ role \in Seq(Role)
=============================================================================
