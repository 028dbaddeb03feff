--------------------------- MODULE ModuleDiscovery ---------------------------
(***************************************************************************)
(* ScanEngine._discover_modules (xping/core/engine.py): import every file  *)
(* of the package xping.modules, then, if a directory of plugins was       *)
(* given, every file of that directory, and register the scan modules      *)
(* found, class by class, under the name an instance gives.  A file that   *)
(* raises is logged and left where it failed; sys.exit() in a file ends    *)
(* the discovery.  While the plugins are imported their directory is the   *)
(* first on sys.path.                                                      *)
(***************************************************************************)
EXTENDS Integers, Sequences, FiniteSets

CONSTANTS
    Builtins, \* the files of xping/modules, in the order of pkgutil
    Plugins,  \* the files of the plugin directory
    Taken,    \* the plugins named like a module Python has already imported
    Contents, \* file -> its scan modules, in the order of dir()
    NameOf,   \* scan module -> its name
    Listings  \* the orders os.listdir() may give the plugins in

Classes == DOMAIN NameOf
File    == Plugins \cup {Builtins[k] : k \in 1 .. Len(Builtins)}

ASSUME FileAssumption ==
    /\ Builtins \in Seq(File)
    /\ Contents \in [File -> Seq(Classes)]
    /\ Listings \subseteq Seq(Plugins)

\* An item of the registry.
Entry == [name : {NameOf[c] : c \in Classes}, class : Classes]

VARIABLES
    stage,          \* where _discover_modules is
    custom,         \* whether a directory of plugins was given
    order,          \* the files to import, the plugins' after their listing
    next,           \* the index of the file at hand
    at,             \* the index of its next class, 0 before the import
    registry,      \* the dict: entries in the order of their first assignment
    on_path,        \* whether the directory is on sys.path
    sys_path_added, \* the flag of the same name
    raised,         \* the exception in flight
    loaded,         \* history: the classes registered, in order
    failed,         \* history: the indices of the files that raised
    was_on_path     \* history: on_path when the discovery began

discovery == <<stage, custom, order, next, at, registry, on_path, sys_path_added,
               raised, loaded, failed, was_on_path>>

DiscoverInit ==
    /\ stage = "off" /\ custom = FALSE /\ order = Builtins /\ next = 1 /\ at = 0
    /\ registry = <<>> /\ on_path \in BOOLEAN /\ sys_path_added = FALSE
    /\ raised = "none" /\ loaded = <<>> /\ failed = {} /\ was_on_path = on_path

-----------------------------------------------------------------------------
\* A new ScanEngine, with or without a directory of plugins.
Discover(with) ==
    /\ stage' = "builtin" /\ custom' = with /\ order' = Builtins /\ next' = 1 /\ at' = 0
    /\ registry' = <<>> /\ sys_path_added' = FALSE /\ raised' = "none"
    /\ loaded' = <<>> /\ failed' = {} /\ was_on_path' = on_path
    /\ UNCHANGED on_path

IsPlugin(k)  == k > Len(Builtins)

\* The classes of the k-th file: a plugin whose name is taken has none.
ClassesIn(files, k) ==
    IF IsPlugin(k) /\ files[k] \in Taken THEN <<>> ELSE Contents[files[k]]
ClassesOf(k) == ClassesIn(order, k)
Importing    == stage \in {"builtin", "custom"} /\ next <= Len(order)

\* sys.exit() leaves at once, except for the finally clause of the plugins.
Quit ==
    /\ raised' = "quit" /\ stage' = IF stage = "custom" THEN "finally" ELSE "over"
    /\ UNCHANGED <<next, at, failed>>

\* Faulty variant: one handler around all the files.
Fail_Stopping ==
    /\ failed' = failed \cup {next} /\ next' = Len(order) + 1 /\ at' = 0
    /\ UNCHANGED <<raised, stage>>

\* The handler around one file.
Fail ==
    /\ failed' = failed \cup {next} /\ next' = next + 1 /\ at' = 0
    /\ UNCHANGED <<raised, stage>>

ImportFile ==
    /\ Importing /\ at = 0
    /\ \/ at' = 1 /\ UNCHANGED <<next, failed, raised, stage>>
       \/ ~(IsPlugin(next) /\ order[next] \in Taken) /\ (Fail \/ Quit)
    /\ UNCHANGED <<custom, order, registry, on_path, sys_path_added, loaded, was_on_path>>

Positions(n) == {k \in 1 .. Len(registry) : registry[k].name = n}

\* Faulty variant: the first class of a name stays.
Registered_First(c) ==
    IF Positions(NameOf[c]) # {} THEN registry
    ELSE Append(registry, [name |-> NameOf[c], class |-> c])

\* The registry with the class c assigned to its name.
Registered(c) ==
    IF Positions(NameOf[c]) # {}
    THEN [k \in 1 .. Len(registry) |->
             IF k \in Positions(NameOf[c]) THEN [name |-> NameOf[c], class |-> c]
             ELSE registry[k]]
    ELSE Append(registry, [name |-> NameOf[c], class |-> c])

RegisterClass ==
    /\ Importing /\ at \in 1 .. Len(ClassesOf(next))
    /\ LET c == ClassesOf(next)[at] IN
       \/ /\ registry' = Registered(c) /\ loaded' = Append(loaded, c) /\ at' = at + 1
          /\ UNCHANGED <<next, failed, raised, stage>>
       \/ (Fail \/ Quit) /\ UNCHANGED <<registry, loaded>>
    /\ UNCHANGED <<custom, order, on_path, sys_path_added, was_on_path>>

FileDone ==
    /\ Importing /\ at > Len(ClassesOf(next))
    /\ next' = next + 1 /\ at' = 0
    /\ UNCHANGED <<stage, custom, order, registry, on_path, sys_path_added, raised, loaded,
                   failed, was_on_path>>

\* Put the directory first on sys.path, unless it is there, and list it.
ListPlugins ==
    /\ stage = "builtin" /\ next > Len(order) /\ custom
    /\ on_path' = TRUE /\ sys_path_added' = ~on_path
    /\ \/ /\ stage' = "custom" /\ UNCHANGED raised
          /\ \E listing \in Listings : order' = order \o listing
       \/ stage' = "finally" /\ raised' = "error" /\ UNCHANGED order
    /\ UNCHANGED <<custom, next, at, registry, loaded, failed, was_on_path>>

NoPlugins ==
    /\ stage = "builtin" /\ next > Len(order) /\ ~custom
    /\ stage' = "over"
    /\ UNCHANGED <<custom, order, next, at, registry, on_path, sys_path_added, raised, loaded,
                   failed, was_on_path>>

\* Faulty variant: no finally clause, the path is restored on success only.
RestorePath_Unguarded ==
    /\ stage = "finally" \/ (stage = "custom" /\ next > Len(order))
    /\ on_path' = (on_path /\ ~(sys_path_added /\ raised = "none")) /\ stage' = "over"
    /\ UNCHANGED <<custom, order, next, at, registry, sys_path_added, raised, loaded, failed,
                   was_on_path>>

RestorePath ==
    /\ stage = "finally" \/ (stage = "custom" /\ next > Len(order))
    /\ on_path' = (on_path /\ ~sys_path_added) /\ stage' = "over"
    /\ UNCHANGED <<custom, order, next, at, registry, sys_path_added, raised, loaded, failed,
                   was_on_path>>

DiscoverNext ==
    \/ ImportFile \/ RegisterClass \/ FileDone \/ ListPlugins \/ NoPlugins \/ RestorePath

-----------------------------------------------------------------------------
DiscoverTypeOK ==
    /\ stage \in {"off", "builtin", "custom", "finally", "over"}
    /\ custom \in BOOLEAN /\ order \in Seq(File) /\ next \in Nat \ {0} /\ at \in Nat
    /\ registry \in Seq(Entry)
    /\ on_path \in BOOLEAN /\ sys_path_added \in BOOLEAN /\ was_on_path \in BOOLEAN
    /\ raised \in {"none", "error", "quit"}
    /\ loaded \in Seq(Classes) /\ failed \subseteq Nat

\* Position j of s is the first, the last with the name n.
FirstOf(s, j, n) == NameOf[s[j]] = n /\ \A m \in 1 .. j - 1 : NameOf[s[m]] # n
LastOf(s, j, n)  == NameOf[s[j]] = n /\ \A m \in j + 1 .. Len(s) : NameOf[s[m]] # n

(***************************************************************************)
(* The registry is what ScanEngine starts from: no name twice, every name  *)
(* that was loaded, with the class loaded last under it (a plugin replaces *)
(* a built-in module of its name), in the order the names were first       *)
(* loaded, which is the order --all runs them in (engine.py:93, 140).      *)
(***************************************************************************)
RegistryIsLastLoaded ==
    /\ \A k, l \in 1 .. Len(registry) : registry[k].name = registry[l].name => k = l
    /\ \A j \in 1 .. Len(loaded) : \E k \in 1 .. Len(registry) :
          registry[k].name = NameOf[loaded[j]]
    /\ \A k \in 1 .. Len(registry) :
          \E j \in 1 .. Len(loaded) :
              LastOf(loaded, j, registry[k].name) /\ registry[k].class = loaded[j]
    /\ \A k, l \in 1 .. Len(registry) : \A j, m \in 1 .. Len(loaded) :
          k < l /\ FirstOf(loaded, j, registry[k].name) /\ FirstOf(loaded, m, registry[l].name)
              => j < m

Has(s, c) == \E j \in 1 .. Len(s) : s[j] = c

\* The first n classes of the k-th of the files are among those in s.
AllIn(files, k, n, s) ==
    \A c \in 1 .. n : c <= Len(ClassesIn(files, k)) => Has(s, ClassesIn(files, k)[c])

(***************************************************************************)
(* A file that fails takes no other file with it: once the discovery is    *)
(* over, every class of every file that did not raise is registered or     *)
(* replaced by a later one of its name, unless sys.exit() was called or    *)
(* the directory could not be listed (engine.py:95, 121).                  *)
(***************************************************************************)
FailureContained ==
    stage = "over" /\ raised = "none" =>
        /\ custom => \E listing \in Listings : order = Builtins \o listing
        /\ \A k \in (1 .. Len(order)) \ failed : AllIn(order, k, Len(ClassesOf(k)), loaded)

(***************************************************************************)
(* The directory of plugins does not stay on sys.path, where its files     *)
(* would shadow later imports, nor does one vanish that was there, however *)
(* the discovery ends (engine.py:100-126).                                 *)
(***************************************************************************)
PathRestored == stage = "over" => on_path = was_on_path

(***************************************************************************)
(* The inductive invariants behind them.                                   *)
(***************************************************************************)
PathInv ==
    IF stage \in {"custom", "finally"}
    THEN on_path /\ sys_path_added = ~was_on_path
    ELSE on_path = was_on_path

ImportInv ==
    /\ next \in 1 .. Len(order) + 1 /\ (next > Len(order) => at = 0)
    /\ stage = "builtin" => order = Builtins
    /\ custom /\ stage \in {"custom", "over"} /\ raised = "none" =>
           \E listing \in Listings : order = Builtins \o listing
    /\ stage = "finally" => raised # "none"
    /\ stage = "over" /\ raised = "none" => next > Len(order)
    /\ \A k \in (1 .. next - 1) \ failed :
          AllIn(order, k, Len(ClassesIn(order, k)), loaded)
    /\ AllIn(order, next, at - 1, loaded)
=============================================================================
