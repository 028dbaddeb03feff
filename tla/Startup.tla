------------------------------- MODULE Startup -------------------------------
(***************************************************************************)
(* From the command line to the modules a scan will run: main() of cli.py  *)
(* reads the arguments (ParseArgs) and dispatches; list, the menu's        *)
(* selection and a scan each make a ScanEngine, whose constructor          *)
(* discovers the modules (ModuleDiscovery); a scan then looks up the names *)
(* it was asked for.  What follows is ScanEngine's, ScanDrift's and        *)
(* XPingCli's; failures of the terminal and Ctrl+C are XPingCli's too.     *)
(***************************************************************************)
EXTENDS ParseArgs, ModuleDiscovery

CONSTANTS
    Split,     \* the value of --modules -> its parts between commas, stripped
    Normal,    \* name -> the name in lower case, stripped
    MaxPicks,  \* bound: the number of modules picked in the menu
    QuitCodes  \* the codes a plugin may give to sys.exit()

Name == {NameOf[c] : c \in Classes}

\* Whatever is typed may end up as the value of --modules.
Typed == {v.text : v \in Value}

ASSUME NameAssumption ==
    /\ Split \in [Value -> Seq(Typed)] /\ \A v \in Value : Split[v] # <<>>
    /\ Name \subseteq Typed /\ Normal \in [Typed -> Typed]
    /\ MaxPicks \in Nat /\ QuitCodes \subseteq Nat

VARIABLES
    phase,    \* where main is
    purpose,  \* what the engine being made is for
    request,  \* its requested_modules, <<>> for None and for []
    available,\* what list_modules returned
    modules,  \* the names of the modules selected to run, so far
    looked,   \* how many of the requested names have been looked up
    exit      \* the exit code, -1 while there is none

dispatch == <<phase, purpose, request, available, modules, looked, exit>>
vars     == <<parsed, discovery, dispatch>>

Init ==
    /\ ParseInit /\ DiscoverInit
    /\ phase = "parse" /\ purpose = "none" /\ request = <<>>
    /\ available = {} /\ modules = <<>> /\ looked = 0 /\ exit = -1

Leave(c) == phase' = "over" /\ exit' = c

Registry    == [k \in 1 .. Len(registry) |-> registry[k].name]
Registrable == {registry[k].name : k \in 1 .. Len(registry)}

\* Python's truth of a text: neither None nor empty.
Truthy(v) == v \notin {Unset, Word("")}

-----------------------------------------------------------------------------
Parse ==
    /\ phase = "parse" /\ ParseNext
    /\ UNCHANGED <<discovery, dispatch>>

MakeEngine(for, names, with) ==
    /\ phase' = "discover" /\ purpose' = for /\ request' = names
    /\ Discover(with)
    /\ UNCHANGED <<available, modules, looked, exit>>

\* Faulty variant: the code argparse uses.
Answer_AsArgparse ==
    /\ phase = "parse"
    /\ \/ reading = "refused" /\ Leave(2)
       \/ reading = "accepted" /\ On \in {args["version"], args["help"]} /\ Leave(0)
    /\ UNCHANGED <<parsed, discovery, purpose, request, available, modules, looked>>

\* parse_args gives up, --version and --help answer before any command.
Answer ==
    /\ phase = "parse"
    /\ \/ reading = "refused" /\ Leave(1)
       \/ reading = "accepted" /\ On \in {args["version"], args["help"]} /\ Leave(0)
    /\ UNCHANGED <<parsed, discovery, purpose, request, available, modules, looked>>

Commanded == phase = "parse" /\ reading = "accepted" /\ On \notin {args["version"], args["help"]}

OpenMenu ==
    /\ Commanded /\ command = "none"
    /\ phase' = "menu"
    /\ UNCHANGED <<parsed, discovery, purpose, request, available, modules, looked, exit>>

List ==
    /\ Commanded /\ command = "list"
    /\ MakeEngine("list", <<>>, FALSE)
    /\ UNCHANGED parsed

Diff ==
    /\ Commanded /\ command = "diff"
    /\ IF Len(diff_files) < 2 THEN Leave(1) ELSE phase' = "compare" /\ UNCHANGED exit
    /\ UNCHANGED <<parsed, discovery, purpose, request, available, modules, looked>>

Asked == args["all"] = On \/ Truthy(args["modules"])

\* Faulty variant: --modules wins over --all.
Requested_Modules == IF Truthy(args["modules"]) THEN Split[args["modules"]] ELSE <<>>

Requested == IF args["all"] = On THEN <<>> ELSE Split[args["modules"]]

\* --custom-modules-dir may name what is no directory.
Scan ==
    /\ Commanded /\ command = "scan" /\ Asked
    /\ \E isdir \in BOOLEAN :
          MakeEngine("scan", Requested, Truthy(args["custom_modules_dir"]) /\ isdir)
    /\ UNCHANGED parsed

ScanOfNothing ==
    /\ Commanded /\ command = "scan" /\ ~Asked /\ Leave(1)
    /\ UNCHANGED <<parsed, discovery, purpose, request, available, modules, looked>>

(***************************************************************************)
(* The menu.  It leaves, scans with every module, lists or lets the user   *)
(* pick the modules, or compares two files; plugins are never discovered.  *)
(***************************************************************************)
MenuLeaves ==
    /\ phase = "menu" /\ \E c \in {0, 1} : Leave(c)
    /\ UNCHANGED <<parsed, discovery, purpose, request, available, modules, looked>>

MenuCompares ==
    /\ phase = "menu" /\ phase' = "compare"
    /\ UNCHANGED <<parsed, discovery, purpose, request, available, modules, looked, exit>>

MenuMakesEngine ==
    /\ phase = "menu"
    /\ \E for \in {"scan", "list", "pick"} : MakeEngine(for, <<>>, FALSE)
    /\ UNCHANGED parsed

-----------------------------------------------------------------------------
Import ==
    /\ phase = "discover" /\ DiscoverNext
    /\ UNCHANGED <<parsed, dispatch>>

\* The constructor raises: what main or the interpreter make of it.
NoEngine ==
    /\ phase = "discover" /\ stage = "over" /\ raised # "none"
    /\ \/ raised = "error" /\ Leave(1)
       \/ raised = "quit" /\ \E c \in QuitCodes : Leave(c)
    /\ UNCHANGED <<parsed, discovery, purpose, request, available, modules, looked>>

Made(for) == phase = "discover" /\ stage = "over" /\ raised = "none" /\ purpose = for

ListModules ==
    /\ Made("list")
    /\ available' = Registrable /\ Leave(0)
    /\ UNCHANGED <<parsed, discovery, purpose, request, modules, looked>>

ShowSelection ==
    /\ Made("pick")
    /\ available' = Registrable /\ phase' = "pick"
    /\ UNCHANGED <<parsed, discovery, purpose, request, modules, looked, exit>>

\* Faulty variant: a wrong answer shows the list again.
Pick_Again ==
    /\ phase = "pick"
    /\ \/ Leave(0) /\ UNCHANGED <<discovery, purpose, request, available, modules, looked>>
       \/ MakeEngine("pick", <<>>, FALSE)
       \/ \E n \in 1 .. MaxPicks : \E picks \in [1 .. n -> available] :
              MakeEngine("scan", picks, FALSE)
    /\ UNCHANGED parsed

\* The user's numbers and names are checked against the list shown; the
\* scan's engine discovers the modules anew.
Pick ==
    /\ phase = "pick"
    /\ \/ /\ \E c \in {0, 1} : Leave(c)
          /\ UNCHANGED <<discovery, purpose, request, available, modules, looked>>
       \/ \E n \in 1 .. MaxPicks : \E picks \in [1 .. n -> available] :
              MakeEngine("scan", picks, FALSE)
    /\ UNCHANGED parsed

Known(s) == Normal[s] \in Registrable

\* _get_modules_to_run, name by name: an unknown one is logged and left out.
LookUp ==
    /\ Made("scan") /\ looked < Len(request)
    /\ looked' = looked + 1
    /\ modules' = IF Known(request[looked']) THEN Append(modules, Normal[request[looked']])
                  ELSE modules
    /\ UNCHANGED <<parsed, discovery, phase, purpose, request, available, exit>>

\* It returns those, or all modules when no names were given.
SelectModules ==
    /\ Made("scan") /\ looked = Len(request)
    /\ modules' = IF request = <<>> THEN Registry ELSE modules
    /\ phase' = "selected"
    /\ UNCHANGED <<parsed, discovery, purpose, request, available, looked, exit>>

\* list_modules and _get_modules_to_run make an instance of every module they
\* return, once more; any of them may raise.
InstanceRaises ==
    /\ Made(purpose) /\ purpose # "none"
    /\ IF purpose = "scan" /\ request # <<>>
       THEN looked < Len(request) /\ Known(request[looked + 1])
       ELSE registry # <<>>
    /\ \E c \in {1} \cup QuitCodes : Leave(c)
    /\ UNCHANGED <<parsed, discovery, purpose, request, available, modules, looked>>

\* Nothing to run: an empty result, whose risk is LOW.
EmptyScan ==
    /\ phase = "selected" /\ modules = <<>> /\ Leave(0)
    /\ UNCHANGED <<parsed, discovery, purpose, request, available, modules, looked>>

StartScan ==
    /\ phase = "selected" /\ modules # <<>> /\ phase' = "scan"
    /\ UNCHANGED <<parsed, discovery, purpose, request, available, modules, looked, exit>>

Step ==
    \/ Parse \/ Answer \/ OpenMenu \/ List \/ Diff \/ Scan \/ ScanOfNothing
    \/ MenuLeaves \/ MenuCompares \/ MenuMakesEngine
    \/ Import \/ NoEngine \/ ListModules \/ ShowSelection \/ Pick
    \/ InstanceRaises \/ LookUp \/ SelectModules \/ EmptyScan \/ StartScan

Ended == phase \in {"over", "scan", "compare"}
Stay  == Ended /\ UNCHANGED vars
Next  == Step \/ Stay

Spec     == Init /\ [][Next]_vars
\* The main thread runs, and the user answers.
FairSpec == Spec /\ WF_vars(Step)

-----------------------------------------------------------------------------
TypeOK ==
    /\ ParseTypeOK /\ DiscoverTypeOK
    /\ phase \in {"parse", "menu", "discover", "pick", "selected", "scan", "compare", "over"}
    /\ purpose \in {"none", "list", "pick", "scan"}
    /\ request \in Seq(Typed) /\ available \subseteq Name /\ modules \in Seq(Typed)
    /\ looked \in 0 .. Len(request)
    /\ exit \in {-1, 0, 1} \cup QuitCodes

(***************************************************************************)
(* From the tokens to the modules: a scan started from the command line    *)
(* runs, in registry order, all that was discovered if some token said     *)
(* --all, whatever --modules says; otherwise exactly the requested names   *)
(* discovered, each as often and in the order the last --modules gave them *)
(* (cli.py:866-873, engine.py:128-140).                                    *)
(***************************************************************************)
RunsWhatWasAsked ==
    phase = "scan" /\ command # "none" =>
        IF \E p \in 1 .. Len(argv) : role[p] = "flag" /\ argv[p].text = "all"
        THEN modules = Registry
        ELSE \E p \in 1 .. Len(argv) :
                /\ LastGiven(argv, role, Len(argv), "modules", p)
                /\ LET names == Split[argv[p + 1]]
                       found == {k \in 1 .. Len(names) : Normal[names[k]] \in Registrable}
                   IN  /\ Len(modules) = Cardinality(found)
                       /\ \A k \in found :
                              modules[Cardinality({m \in found : m <= k})] = Normal[names[k]]

(***************************************************************************)
(* The inductive invariant behind the theorems of Startup_proofs.          *)
(***************************************************************************)
StartupInv == ParseInv /\ PathInv /\ ImportInv

\* Reading the command line and finding the modules come to an end.
StartupEnds == <>Ended
=============================================================================
