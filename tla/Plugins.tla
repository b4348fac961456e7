-------------------------------- MODULE Plugins --------------------------------
(***************************************************************************)
(* Meta-tools: their registry (packages/core/src/plugins/registry.ts) and  *)
(* the loader that lets the modules of CODESPAR_PLUGINS register theirs    *)
(* before the server listens (plugins/startup-loader.ts, called by         *)
(* server/webhook-server.ts).                                              *)
(*                                                                         *)
(* A module's register() may await between the hooks it registers, and may *)
(* keep the registry it was handed and register more after it returned.    *)
(* The policy, observability, secrets and integration hooks are single     *)
(* references and are left out; nobody seals the registry.                 *)
(***************************************************************************)
EXTENDS Naturals, Sequences, Undefined

CONSTANTS
    Specs,       \* module specifiers that CODESPAR_PLUGINS may list
    MetaToolNames,   \* names of meta-tools
    BadNames,    \* those that contain the separator of raw tools
    MaxSpecs,    \* bounds the specifiers listed
    MaxHooks     \* bounds the hooks that are registered

ASSUME PluginsAssumption ==
    None \notin Specs /\ BadNames \subseteq MetaToolNames /\ MaxSpecs \in Nat /\ MaxHooks \in Nat

VARIABLES
    specs,       \* the list in CODESPAR_PLUGINS
    loading,     \* "host", "importing", "registering", "serving" or "failed"
    at,          \* the specifier being loaded: activeSpec is the one at it
    claimedBy,   \* the specifier that each name is claimed by
    metaTools,   \* the hook registered for each name
    hooks,       \* hooks registered so far, counted
    taken,       \* history: which plugin registered which name while it was loaded
    late         \* history: a plugin registered a hook after its register() returned

pluginVars == <<specs, loading, at, claimedBy, metaTools, hooks, taken, late>>

\* A hook, of a plugin or (None) of the program around the server, and the names it
\* handles.
Handled == (SUBSET MetaToolNames) \ {{}}
MetaToolHooks == [of : Specs \union {None}, nr : 1..MaxHooks, handles : Handled]

PluginsTypeOK ==
    /\ specs \in UNION {[1..n -> Specs] : n \in 0..MaxSpecs}
    /\ loading \in {"host", "importing", "registering", "serving", "failed"}
    /\ at \in 0..(MaxSpecs + 1)
    /\ claimedBy \in [MetaToolNames -> Specs \union {None}]
    /\ \A n \in MetaToolNames : metaTools[n] \in MetaToolHooks \union {None}
    /\ hooks \in 0..MaxHooks
    /\ taken \subseteq Specs \X MetaToolNames
    /\ late \in BOOLEAN

PluginsInit ==
    /\ specs \in UNION {[1..n -> Specs] : n \in 0..MaxSpecs}
    /\ loading = "host"
    /\ at = 0
    /\ claimedBy = [n \in MetaToolNames |-> None]
    /\ metaTools = [n \in MetaToolNames |-> None]
    /\ hooks = 0
    /\ taken = {}
    /\ late = FALSE

-----------------------------------------------------------------------------
\* registerMetaTool.
RegisterMetaTool(of, handles) ==
    /\ hooks < MaxHooks
    /\ hooks' = hooks + 1
    /\ LET hook == [of |-> of, nr |-> hooks', handles |-> handles]
       IN  metaTools' = [n \in MetaToolNames |-> IF n \in handles THEN hook ELSE metaTools[n]]

\* The program around the server registers a hook before it starts it.
HostRegisters(handles) ==
    /\ loading = "host"
    /\ RegisterMetaTool(None, handles)
    /\ UNCHANGED <<specs, loading, at, claimedBy, taken, late>>

\* loadStartupPlugins goes on to the next specifier, or the server listens.
NextSpec ==
    /\ at' = at + 1
    /\ loading' = IF at' > Len(specs) THEN "serving" ELSE "importing"

StartServer ==
    /\ loading = "host"
    /\ NextSpec
    /\ UNCHANGED <<specs, claimedBy, metaTools, hooks, taken, late>>

\* The specifier is refused, its module cannot be imported or exports no function, or
\* it is called.
ImportSpec(succeeds) ==
    /\ loading = "importing"
    /\ loading' = IF succeeds THEN "registering" ELSE "failed"
    /\ UNCHANGED <<specs, at, claimedBy, metaTools, hooks, taken, late>>

\* The specifier the guard takes its caller for.
ActiveSpec == IF at > Len(specs) THEN specs[Len(specs)] ELSE specs[at]

\* Mutant: the guard looks for the separator only.
BadNamesOnly(handles) == handles \intersect BadNames # {}

\* The guard throws: a name has the separator, or another specifier claimed it.
Refuses(handles) ==
    \E n \in handles : n \in BadNames \/ claimedBy[n] \notin {None, ActiveSpec}

\* The guard's registerMetaTool, called by the module of s.
GuardRegisters(s, handles) ==
    /\ ~Refuses(handles)
    /\ RegisterMetaTool(s, handles)
    /\ claimedBy' = [n \in MetaToolNames |-> IF n \in handles THEN ActiveSpec ELSE claimedBy[n]]
    /\ UNCHANGED <<specs, loading, at>>

\* The module being loaded registers a hook ...
PluginRegisters(handles) ==
    /\ loading = "registering"
    /\ GuardRegisters(ActiveSpec, handles)
    /\ taken' = taken \union ({ActiveSpec} \X handles)
    /\ UNCHANGED late

\* ... or one that it may not, or its register() throws: the server does not start.
PluginFails ==
    /\ loading = "registering"
    /\ loading' = "failed"
    /\ UNCHANGED <<specs, at, claimedBy, metaTools, hooks, taken, late>>

\* register() returns.
PluginLoaded ==
    /\ loading = "registering"
    /\ NextSpec
    /\ UNCHANGED <<specs, claimedBy, metaTools, hooks, taken, late>>

\* A module that was loaded registers one more hook.
LateRegistration(i, handles) ==
    /\ loading \in {"importing", "registering", "serving"} /\ i < at
    /\ GuardRegisters(specs[i], handles)
    /\ late' = TRUE
    /\ UNCHANGED taken

PluginsNext ==
    \/ StartServer \/ PluginFails \/ PluginLoaded
    \/ \E succeeds \in BOOLEAN : ImportSpec(succeeds)
    \/ \E handles \in Handled :
          \/ HostRegisters(handles) \/ PluginRegisters(handles)
          \/ \E i \in 1..Len(specs) : LateRegistration(i, handles)

PluginsSpec == PluginsInit /\ [][PluginsNext]_pluginVars

-----------------------------------------------------------------------------
(* Properties.                                                             *)

\* Where the server listens, every name that a plugin registered is handled by a hook
\* of that plugin, whatever the others and the program around it registered, before or
\* after, unless one registered a hook late.
NamesKeepTheirPlugin ==
    loading = "serving" /\ ~late => \A t \in taken : metaTools[t[2]].of = t[1]
=============================================================================
