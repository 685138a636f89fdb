----------------------------- MODULE PluginHost -----------------------------
(***************************************************************************)
(* The plugin manager of devnote-plugin over its sandbox: loading, lazy    *)
(* loading, the life cycle, permissions and execution of plugins.  The     *)
(* WASM runtime is external: a module compiles or does not, a call returns *)
(* or fails.                                                               *)
(***************************************************************************)
EXTENDS SqlRows

CONSTANTS
    Plugins,
    Permissions,
    Modules,     \* the bytes a plugin may be loaded from
    BadModules   \* those that do not compile

ASSUME PluginsAssumption == BadModules \subseteq Modules

VARIABLES
    entries,    \* the loaded plugins: state and granted permissions
    instances,  \* the plugins with a WASM instance
    lazy        \* the bytes that wait for load_lazy, by the id they were registered under

pluginVars == <<entries, instances, lazy>>

PluginsInit ==
    /\ entries = NoRows
    /\ instances = {}
    /\ lazy = NoRows

Loaded == DOMAIN entries

\* Loading succeeds for an id that is not loaded and bytes that compile.
Loads(p, bytes) == p \notin Loaded /\ bytes \notin BadModules

InsertEntry(p) ==
    /\ entries' = InsertRow(entries, p, [state |-> "loaded", granted |-> {}])
    /\ instances' = instances \cup {p}

LoadPlugin(p) ==
    \E bytes \in Modules :
        /\ Loads(p, bytes)
        /\ InsertEntry(p)
        /\ UNCHANGED lazy

\* Variant: the instance stays.
UnloadPluginEntry(p) ==
    /\ p \in Loaded
    /\ entries' = DeleteRow(entries, p)
    /\ UNCHANGED <<instances, lazy>>

UnloadPlugin(p) ==
    /\ p \in Loaded
    /\ entries' = DeleteRow(entries, p)
    /\ instances' = instances \ {p}
    /\ UNCHANGED lazy

\* A second registration replaces the bytes of the first.
RegisterLazy(id) ==
    \E bytes \in Modules :
        /\ lazy' = InsertRow(lazy, id, bytes)
        /\ UNCHANGED <<entries, instances>>

\* The bytes leave the register before the plugin is loaded, whatever follows; the
\* plugin has the id of its manifest, which need not be the registered one.
LoadLazy(id) ==
    \E p \in Plugins :
        /\ id \in DOMAIN lazy
        /\ lazy' = DeleteRow(lazy, id)
        /\ IF Loads(p, lazy[id]) THEN InsertEntry(p) ELSE UNCHANGED <<entries, instances>>

SetState(p, state) ==
    /\ p \in Loaded
    /\ entries' = [entries EXCEPT ![p].state = state]
    /\ UNCHANGED <<instances, lazy>>

EnablePlugin(p) == SetState(p, "enabled")

DisablePlugin(p) == SetState(p, "disabled")

\* Variant: all permissions are stored as one.
GrantPermissionSet(p) ==
    \E some \in SUBSET Permissions :
        /\ p \in Loaded
        /\ entries' = [entries EXCEPT ![p].granted = @ \cup {some}]
        /\ UNCHANGED <<instances, lazy>>

GrantPermission(p) ==
    \E permission \in Permissions :
        /\ p \in Loaded
        /\ entries' = [entries EXCEPT ![p].granted = @ \cup {permission}]
        /\ UNCHANGED <<instances, lazy>>

RevokePermission(p) ==
    \E permission \in Permissions :
        /\ p \in Loaded
        /\ entries' = [entries EXCEPT ![p].granted = @ \ {permission}]
        /\ UNCHANGED <<instances, lazy>>

\* execute_plugin runs an enabled plugin that has an instance.
Executable(p) ==
    p \in Loaded /\ entries[p].state = "enabled" /\ p \in instances

PluginsNext ==
    \E p \in Plugins :
        \/ LoadPlugin(p) \/ UnloadPlugin(p) \/ RegisterLazy(p) \/ LoadLazy(p)
        \/ EnablePlugin(p) \/ DisablePlugin(p)
        \/ GrantPermission(p) \/ RevokePermission(p)

PluginsSpec == PluginsInit /\ [][PluginsNext]_pluginVars

-----------------------------------------------------------------------------
\* Entries, instances and the register of lazy plugins have their types.
PluginsTypeOK ==
    /\ \A p \in Loaded :
          /\ entries[p].state \in {"loaded", "enabled", "disabled"}
          /\ entries[p].granted \subseteq Permissions
    /\ DOMAIN lazy \subseteq Plugins /\ \A id \in DOMAIN lazy : lazy[id] \in Modules
    /\ Loaded \subseteq Plugins

\* Both maps of the sandbox speak of the same plugins: an enabled plugin can
\* always run, and an unloaded one leaves no instance behind.
EnabledRuns ==
    /\ instances = Loaded
    /\ \A p \in Loaded : entries[p].state = "enabled" => Executable(p)
=============================================================================
