------------------------------ MODULE Settings ------------------------------
(***************************************************************************)
(* config/loader.py and cli/config_manager.py.  A process loads its        *)
(* settings once, from files, environment and command line laid over each  *)
(* other; a command reads config.json whole, changes a key and writes it   *)
(* whole, without a lock.  A file is a tree: a function from names to a    *)
(* leaf with a value or a section with a tree.                             *)
(***************************************************************************)
EXTENDS Naturals, Sequences, FiniteSets, TLC

CONSTANTS
    Defaults,         \* settings: paths, as sequences of names, with their defaults
    Options,           \* KEYS of the command: names with a dot, with their defaults
    KeyValues,      \* values the command may be given
    Contents,          \* what config.toml, config.yaml and config.json may contain
    Environments,   \* what the variables of ENV_MAP may say: paths with values
    Overrides,      \* what the command line may say, of the same form
    Writers,        \* processes that may run the command
    SetCalls,       \* bounds: how many keys they set
    Nothing, Torn, Failed   \* no file or settings; half a file; settings that do not load

ASSUME SettingsAssumption ==
    /\ SetCalls \subseteq Nat /\ Cardinality({Nothing, Torn, Failed}) = 3
    /\ DOMAIN Defaults \subseteq Seq(STRING)

VARIABLES
    toml, yaml, environment, override,  \* what the process is started with
    json,           \* config.json: Nothing, Torn or a tree
    settings,       \* Settings._instance: Nothing, Failed or the value of each path
    layers,          \* ghost: the trees the settings were loaded from, lowest first
    writer,         \* what each process does to config.json
    sets,           \* keys still to be set
    wanted,         \* ghost: the value each key was last set to
    blurred         \* ghost: sets overlapped, or one was broken off while it wrote

settingsVars == <<toml, yaml, environment, override, json, settings, layers, writer, sets,
                  wanted, blurred>>

Leaf(value) == [leaf |-> value]
Section(tree) == [section |-> tree]
IsSection(node) == "section" \in DOMAIN node

Empty == [name \in {} |-> Nothing]

SettingsInit ==
    /\ toml \in Contents /\ yaml \in Contents
    /\ environment \in Environments /\ override \in Overrides
    /\ json \in Contents \cup {Nothing}
    /\ settings = Nothing /\ layers = <<>>
    /\ writer = [w \in Writers |-> [at |-> "idle", content |-> Empty, set |-> <<>>]]
    /\ sets \in SetCalls
    /\ wanted = [key \in DOMAIN Options |-> IF json # Nothing /\ key \in DOMAIN json /\ ~IsSection(json[key])
                                         THEN json[key].leaf ELSE Options[key]]
    /\ blurred = FALSE

-----------------------------------------------------------------------------
\* load_config

RECURSIVE DeepMerge(_, _)
DeepMerge(base, over) ==
    [name \in DOMAIN base \cup DOMAIN over |->
        IF name \notin DOMAIN over THEN base[name]
        ELSE IF name \in DOMAIN base /\ IsSection(base[name]) /\ IsSection(over[name])
             THEN Section(DeepMerge(base[name].section, over[name].section))
             ELSE over[name]]

\* Mutant of Merge: sections replace each other.
MergeTop(base, over) == over @@ base

Merge(base, over) == DeepMerge(base, over)

\* The path leads through a leaf: the assignment raises.
RECURSIVE Crosses(_, _)
Crosses(tree, path) ==
    /\ Len(path) > 1 /\ Head(path) \in DOMAIN tree
    /\ LET node == tree[Head(path)] IN
           ~IsSection(node) \/ Crosses(node.section, Tail(path))

RECURSIVE SetIn(_, _, _)
SetIn(tree, path, value) ==
    LET name == Head(path)
        below == IF name \in DOMAIN tree THEN tree[name].section ELSE Empty
    IN  (name :> IF Len(path) = 1 THEN Leaf(value)
                 ELSE Section(SetIn(below, Tail(path), value))) @@ tree

\* Each path of values, one after the other.
RECURSIVE SetAll(_, _)
SetAll(tree, values) ==
    IF values = Empty THEN tree
    ELSE LET path == CHOOSE path \in DOMAIN values : TRUE IN
             SetAll(SetIn(tree, path, values[path]),
                    [p \in DOMAIN values \ {path} |-> values[p]])

\* The node at a path: a leaf, a section, or Nothing.
RECURSIVE NodeAt(_, _)
NodeAt(tree, path) ==
    IF Head(path) \notin DOMAIN tree THEN Nothing
    ELSE LET node == tree[Head(path)] IN
         IF Len(path) = 1 THEN node
         ELSE IF IsSection(node) THEN NodeAt(node.section, Tail(path)) ELSE Nothing

Prefixes(path) == {SubSeq(path, 1, n) : n \in 1 .. Len(path) - 1}

\* CogitoConfig: unknown names are ignored; a leaf for a section, or the reverse, is an error.
Valid(tree) ==
    \A path \in DOMAIN Defaults :
        /\ NodeAt(tree, path) # Nothing => ~IsSection(NodeAt(tree, path))
        /\ \A p \in Prefixes(path) : NodeAt(tree, p) # Nothing => IsSection(NodeAt(tree, p))

ValueAt(tree, path) == IF NodeAt(tree, path) = Nothing THEN Defaults[path] ELSE NodeAt(tree, path).leaf

\* A file that cannot be read contributes nothing.
Parsed(file) == IF file \in {Nothing, Torn} THEN Empty ELSE file

FromFiles(t, y, j, e) == Merge(Merge(Merge(Merge(Empty, t), y), j), SetAll(Empty, e))

(* Settings.get: the first call of the process loads *)
LoadSettings ==
    /\ settings = Nothing
    /\ LET raw == FromFiles(toml, yaml, Parsed(json), environment)
           ok == \A path \in DOMAIN override : ~Crosses(raw, path)
           all == IF ok THEN SetAll(raw, override) ELSE Empty
       IN  settings' = IF ok /\ Valid(all) THEN [path \in DOMAIN Defaults |-> ValueAt(all, path)]
                       ELSE Failed
    /\ layers' = <<toml, yaml, Parsed(json), SetAll(Empty, environment), SetAll(Empty, override)>>
    /\ UNCHANGED <<toml, yaml, environment, override, json, writer, sets, wanted, blurred>>

-----------------------------------------------------------------------------
\* config set

\* _load_raw: of the file only the keys, the defaults for what it lacks.
Content ==
    [key \in DOMAIN Options |->
        IF key \in DOMAIN Parsed(json) THEN Parsed(json)[key] ELSE Leaf(Options[key])]

Wrote(w, state) == writer' = [writer EXCEPT ![w] = state]
Loaded == <<toml, yaml, environment, override, settings, layers>>

Changed(content, key, value) == [content EXCEPT ![key] = Leaf(value)]

ReadKeys(w) ==
    /\ writer[w].at = "idle" /\ sets > 0 /\ sets' = sets - 1
    /\ \E key \in DOMAIN Options, value \in KeyValues :
           Wrote(w, [at |-> "write", content |-> Changed(Content, key, value), set |-> <<key, value>>])
    /\ blurred' = (blurred \/ \E v \in Writers \ {w} : writer[v].at # "idle")
    /\ UNCHANGED <<Loaded, json, wanted>>

Truncate(w) ==
    /\ writer[w].at = "write" /\ json' = Torn /\ Wrote(w, [writer[w] EXCEPT !.at = "fill"])
    /\ UNCHANGED <<Loaded, sets, wanted, blurred>>

Fill(w) ==
    /\ writer[w].at = "fill" /\ json' = writer[w].content
    /\ wanted' = [wanted EXCEPT ![writer[w].set[1]] = writer[w].set[2]]
    /\ Wrote(w, [at |-> "idle", content |-> Empty, set |-> <<>>])
    /\ UNCHANGED <<Loaded, sets, blurred>>

BreakOff(w) ==
    /\ writer[w].at # "idle" /\ Wrote(w, [at |-> "idle", content |-> Empty, set |-> <<>>])
    /\ blurred' = (blurred \/ writer[w].at = "fill")
    /\ UNCHANGED <<Loaded, json, sets, wanted>>

SettingsStep == LoadSettings \/ \E w \in Writers : ReadKeys(w) \/ Truncate(w) \/ Fill(w) \/ BreakOff(w)

-----------------------------------------------------------------------------
\* Precedence: command line, environment, json, yaml, toml, default.  A setting has the
\* value of the highest that tells it, and the default when none does, unless a higher one
\* has a value where its section should be, which hides what those below say; and loading
\* fails only when one of them has the wrong shape.
Tellers(path) ==
    {i \in DOMAIN layers :
        /\ NodeAt(layers[i], path) # Nothing
        /\ \A j \in i + 1 .. Len(layers), p \in Prefixes(path) :
               NodeAt(layers[j], p) # Nothing => IsSection(NodeAt(layers[j], p))}

Highest(path) == CHOOSE i \in Tellers(path) : \A j \in Tellers(path) : j <= i

PrecedenceHolds ==
    settings # Nothing =>
        /\ settings = Failed => \E i \in DOMAIN layers : ~Valid(layers[i])
        /\ settings # Failed => \A path \in DOMAIN Defaults :
               settings[path] = IF Tellers(path) = {} THEN Defaults[path]
                                ELSE NodeAt(layers[Highest(path)], path).leaf

\* The command changes the key it is given and no other, as long as no two run at once and
\* none is broken off while it writes.
OtherKeysStay ==
    ~blurred /\ (\A w \in Writers : writer[w].at # "fill") =>
        \A key \in DOMAIN Options : Content[key] = Leaf(wanted[key])

\* A process has the settings it was given, and a file keeps those it was not told to change.
SettingsTrue == PrecedenceHolds /\ OtherKeysStay
=============================================================================
