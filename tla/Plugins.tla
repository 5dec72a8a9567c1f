------------------------------ MODULE Plugins ------------------------------
(***************************************************************************)
(* The plugin manager of ruflo: plugins in the order they were loaded and  *)
(* the handlers they registered.  Its methods are asynchronous: each runs  *)
(* to its next await of a plugin's own initialize or shutdown, or of an    *)
(* inner unloadPlugin, and other calls run in between.                     *)
(***************************************************************************)
EXTENDS Integers, Sequences, SequencesExt

CONSTANTS
  PluginId,
  Plugin,          \* plugin objects; several may carry one id
  NoPlugin,        \* undefined
  idOf,            \* [Plugin -> PluginId]
  dependencies,    \* [Plugin -> SUBSET PluginId]
  priority,        \* [PluginId -> Nat]
  versions,        \* [Plugin -> record of minCoreVersion and maxCoreVersion]
  coreVersion,     \* a version, as a sequence of numbers
  PluginCall,      \* calls of the manager that may be in progress together
  MaxPluginCalls   \* bound on the calls started

NoVersion == <<>>  \* a missing minCoreVersion or maxCoreVersion

ASSUME PluginsAssumption ==
  /\ NoPlugin \notin Plugin
  /\ idOf \in [Plugin -> PluginId]
  /\ dependencies \in [Plugin -> SUBSET PluginId]
  /\ priority \in [PluginId -> Nat]
  /\ MaxPluginCalls \in Nat

VARIABLES
  plugins,      \* the Map of loaded plugins, as the sequence of its values
  handlers,     \* [PluginId -> Nat]: handlers at the extension points
  ownPoints,    \* [Plugin -> Nat]: what the object's getExtensionPoints returns
  pluginCall,   \* [PluginCall -> record]: what each call is at
  pluginCalls,  \* calls started so far
  crossed       \* history: two calls that change the manager have overlapped

pluginVars == <<plugins, handlers, ownPoints, pluginCall, pluginCalls, crossed>>

------------------------------------------------------------------------------
(* Versions. *)

\* Where two versions differ; a missing part counts as 0.
part(v, k) == IF k <= Len(v) THEN v[k] ELSE 0
differAt(a, b) == {k \in (1 .. Len(a)) \cup (1 .. Len(b)) : part(a, k) # part(b, k)}

versionBefore(a, b) ==
  \E k \in differAt(a, b) : /\ \A j \in differAt(a, b) : k <= j
                            /\ part(a, k) < part(b, k)

checkVersionCompatibility(p) ==
  /\ versions[p].min # NoVersion => ~versionBefore(coreVersion, versions[p].min)
  /\ versions[p].max # NoVersion => ~versionBefore(versions[p].max, coreVersion)

------------------------------------------------------------------------------
(* Calls. *)

isLoaded(id) == \E k \in DOMAIN plugins : idOf[plugins[k]] = id
placeOf(id) == CHOOSE k \in DOMAIN plugins : idOf[plugins[k]] = id
pluginOf(id) == plugins[placeOf(id)]
hasDependents(id) == \E k \in DOMAIN plugins : id \in dependencies[plugins[k]]

noHandlers == [id \in PluginId |-> 0]

noCall == [op |-> "none", pc |-> "idle", todo |-> <<>>, left |-> noHandlers,
           plugin |-> NoPlugin, held |-> NoPlugin, outcome |-> "none"]

CallType ==
  [op : {"none", "load", "unload", "reload", "shutdown", "invoke"},
   pc : {"idle", "stopping", "unloaded", "starting", "handling"},
   todo : Seq(PluginId),               \* ids to unload
   left : [PluginId -> Nat],           \* handlers to run
   plugin : Plugin \cup {NoPlugin},    \* the object to load
   held : Plugin \cup {NoPlugin},      \* the object whose shutdown is awaited
   outcome : {"none", "done", "dependents", "incompatible", "missing", "rejected"}]

PluginsTypeOK ==
  /\ plugins \in Seq(Plugin)
  /\ handlers \in [PluginId -> Nat]
  /\ ownPoints \in [Plugin -> Nat]
  /\ pluginCall \in [PluginCall -> CallType]
  /\ pluginCalls \in 0 .. MaxPluginCalls
  /\ crossed \in BOOLEAN

\* The call ends; its promise is resolved or rejected.
ended(rec, how) == [rec EXCEPT !.pc = "idle", !.todo = <<>>, !.plugin = NoPlugin,
                               !.held = NoPlugin, !.outcome = how]

\* unloadPlugin up to its await: unknown ids are left alone, a plugin another
\* depends on stays.
beginUnload(rec, id) ==
  IF ~isLoaded(id) THEN [rec EXCEPT !.pc = "unloaded"]
  ELSE IF hasDependents(id) THEN ended(rec, "dependents")
  ELSE [rec EXCEPT !.pc = "stopping", !.held = pluginOf(id)]

\* loadPlugin after its first step: the checks and the start of initialize,
\* in which the object registers its extension point with itself.
beginLoad(c, rec) ==
  LET p == rec.plugin
      refused == IF ~checkVersionCompatibility(p) THEN "incompatible"
                 ELSE IF \E d \in dependencies[p] : ~isLoaded(d) THEN "missing"
                 ELSE "none"
  IN IF refused # "none"
     THEN /\ pluginCall' = [pluginCall EXCEPT ![c] = ended(rec, refused)]
          /\ UNCHANGED ownPoints
     ELSE /\ pluginCall' = [pluginCall EXCEPT ![c] = [rec EXCEPT !.pc = "starting"]]
          /\ ownPoints' = [ownPoints EXCEPT ![p] = @ + 1]

changing(c) == pluginCall[c].pc \in {"stopping", "unloaded", "starting"}

\* Every call starts here; `rec` is where its first synchronous part leads.
startCall(c) ==
  /\ pluginCall[c].pc = "idle"
  /\ pluginCalls < MaxPluginCalls
  /\ pluginCalls' = pluginCalls + 1
  /\ crossed' = (crossed \/ \E d \in PluginCall : changing(d))

\* loadPlugin, up to its first await; also what reloadPlugin ends with.
loadFrom(c, rec) ==
  IF isLoaded(idOf[rec.plugin])
  THEN /\ pluginCall' = [pluginCall EXCEPT ![c] = beginUnload(rec, idOf[rec.plugin])]
       /\ UNCHANGED ownPoints
  ELSE beginLoad(c, rec)

LoadPlugin(c, p) ==
  /\ startCall(c)
  /\ loadFrom(c, [noCall EXCEPT !.op = "load", !.plugin = p])
  /\ UNCHANGED <<plugins, handlers>>

UnloadPlugin(c, id) ==
  /\ startCall(c)
  /\ pluginCall' = [pluginCall EXCEPT ![c] = beginUnload([noCall EXCEPT !.op = "unload"], id)]
  /\ UNCHANGED <<plugins, handlers, ownPoints>>

ReloadPlugin(c, p) ==
  /\ startCall(c)
  /\ pluginCall' = [pluginCall EXCEPT ![c] =
                      beginUnload([noCall EXCEPT !.op = "reload", !.plugin = p], idOf[p])]
  /\ UNCHANGED <<plugins, handlers, ownPoints>>

\* Mutant: first loaded, first unloaded.
shutdownOrderForward == [k \in DOMAIN plugins |-> idOf[plugins[k]]]

\* The ids of the loaded plugins, the last loaded first.
shutdownOrder == Reverse([k \in DOMAIN plugins |-> idOf[plugins[k]]])

\* shutdown from one unloadPlugin to the next, and its end.
shutdownFrom(c, rec, todo) ==
  IF todo = <<>>
  THEN /\ handlers' = noHandlers
       /\ pluginCall' = [pluginCall EXCEPT ![c] = ended(rec, "done")]
  ELSE /\ pluginCall' = [pluginCall EXCEPT ![c] =
                           beginUnload([rec EXCEPT !.todo = Tail(todo)], Head(todo))]
       /\ UNCHANGED handlers

Shutdown(c) ==
  /\ startCall(c)
  /\ shutdownFrom(c, [noCall EXCEPT !.op = "shutdown"], shutdownOrder)
  /\ UNCHANGED <<plugins, ownPoints>>

\* The Map's delete.
dropPlugin(id) == IF isLoaded(id) THEN RemoveAt(plugins, placeOf(id)) ELSE plugins

\* The awaited shutdown of a plugin ends: its handlers and its entry go, in one
\* synchronous step; or it rejects, and the call with it.
PluginStopped(c) ==
  LET rec == pluginCall[c]
      id == idOf[rec.held]
  IN /\ rec.pc = "stopping"
     /\ \/ /\ handlers' = [handlers EXCEPT ![id] = 0]
           /\ plugins' = dropPlugin(id)
           /\ pluginCall' = [pluginCall EXCEPT ![c] =
                               [rec EXCEPT !.pc = "unloaded", !.held = NoPlugin]]
        \/ /\ pluginCall' = [pluginCall EXCEPT ![c] = ended(rec, "rejected")]
           /\ UNCHANGED <<plugins, handlers>>
     /\ UNCHANGED <<ownPoints, pluginCalls, crossed>>

\* The caller of unloadPlugin goes on: reloadPlugin calls loadPlugin, which
\* looks again; loadPlugin does not; shutdown takes the next id.
AfterUnload(c) ==
  LET rec == pluginCall[c]
  IN /\ rec.pc = "unloaded"
     /\ \/ /\ rec.op = "unload"
           /\ pluginCall' = [pluginCall EXCEPT ![c] = ended(rec, "done")]
           /\ UNCHANGED <<handlers, ownPoints>>
        \/ /\ rec.op = "load"
           /\ beginLoad(c, rec)
           /\ UNCHANGED handlers
        \/ /\ rec.op = "reload"
           /\ loadFrom(c, [rec EXCEPT !.op = "load"])
           /\ UNCHANGED handlers
        \/ /\ rec.op = "shutdown"
           /\ shutdownFrom(c, rec, rec.todo)
           /\ UNCHANGED ownPoints
     /\ UNCHANGED <<plugins, pluginCalls, crossed>>

\* The Map's set: a new key goes last, a known key keeps its place.
setPlugin(p) ==
  IF isLoaded(idOf[p])
  THEN [k \in DOMAIN plugins |-> IF idOf[plugins[k]] = idOf[p] THEN p ELSE plugins[k]]
  ELSE Append(plugins, p)

\* Mutant: the handlers are registered before initialize is awaited to its end.
PluginStartedEarly(c) ==
  LET rec == pluginCall[c]
      p == rec.plugin
  IN /\ rec.pc = "starting"
     /\ handlers' = [handlers EXCEPT ![idOf[p]] = @ + ownPoints[p]]
     /\ \/ /\ plugins' = setPlugin(p)
           /\ pluginCall' = [pluginCall EXCEPT ![c] = ended(rec, "done")]
        \/ /\ pluginCall' = [pluginCall EXCEPT ![c] = ended(rec, "rejected")]
           /\ UNCHANGED plugins
     /\ UNCHANGED <<ownPoints, pluginCalls, crossed>>

\* The awaited initialize ends: the plugin and all points its object has are
\* registered in one synchronous step; or it rejects.
PluginStarted(c) ==
  LET rec == pluginCall[c]
      p == rec.plugin
  IN /\ rec.pc = "starting"
     /\ \/ /\ plugins' = setPlugin(p)
           /\ handlers' = [handlers EXCEPT ![idOf[p]] = @ + ownPoints[p]]
           /\ pluginCall' = [pluginCall EXCEPT ![c] = ended(rec, "done")]
        \/ /\ pluginCall' = [pluginCall EXCEPT ![c] = ended(rec, "rejected")]
           /\ UNCHANGED <<plugins, handlers>>
     /\ UNCHANGED <<ownPoints, pluginCalls, crossed>>

\* invokeExtensionPoint takes the handlers as they are now, and awaits one after the
\* other, the highest priority first; one that fails gives an error entry.
highest(left) ==
  {id \in PluginId : /\ left[id] > 0
                     /\ \A other \in PluginId : left[other] > 0 => priority[other] <= priority[id]}

InvokeExtensionPoint(c) ==
  /\ startCall(c)
  /\ handlers # noHandlers
  /\ pluginCall' = [pluginCall EXCEPT ![c] =
                      [noCall EXCEPT !.op = "invoke", !.pc = "handling", !.left = handlers]]
  /\ UNCHANGED <<plugins, handlers, ownPoints>>

HandlerDone(c) ==
  LET rec == pluginCall[c]
  IN /\ rec.pc = "handling"
     /\ \E id \in highest(rec.left) :
          LET left == [rec.left EXCEPT ![id] = @ - 1]
          IN pluginCall' = [pluginCall EXCEPT ![c] =
               IF left = noHandlers THEN [ended(rec, "done") EXCEPT !.left = left]
               ELSE [rec EXCEPT !.left = left]]
     /\ UNCHANGED <<plugins, handlers, ownPoints, pluginCalls, crossed>>

------------------------------------------------------------------------------
PluginsInit ==
  /\ plugins = <<>>
  /\ handlers = noHandlers
  /\ ownPoints = [p \in Plugin |-> 0]
  /\ pluginCall = [c \in PluginCall |-> noCall]
  /\ pluginCalls = 0
  /\ crossed = FALSE

PluginsNext ==
  \E c \in PluginCall :
    \/ \E p \in Plugin : LoadPlugin(c, p) \/ ReloadPlugin(c, p)
    \/ \E id \in PluginId : UnloadPlugin(c, id)
    \/ Shutdown(c)
    \/ InvokeExtensionPoint(c)
    \/ HandlerDone(c)
    \/ PluginStopped(c)
    \/ AfterUnload(c)
    \/ PluginStarted(c)

PluginsSpec == PluginsInit /\ [][PluginsNext]_pluginVars

------------------------------------------------------------------------------
(* Properties. *)

\* Whatever calls overlap at their awaits, a registered handler belongs to a
\* loaded plugin: an invocation never reaches a plugin that was shut down and
\* removed before it began.
HandlersOfLoaded == \A id \in PluginId : handlers[id] > 0 => isLoaded(id)

\* While calls do not overlap, every loaded plugin comes after what it depends
\* on in the Map, also after failed and repeated loads, unloads and reloads.
\* That is what shutdown relies on when it goes through the Map backwards.
DependenciesFirst ==
  ~crossed =>
    \A k \in DOMAIN plugins : \A d \in dependencies[plugins[k]] :
      \E j \in 1 .. k - 1 : idOf[plugins[j]] = d

\* The manager never refers to a plugin that is not there: both of the above.
PluginsLinked == HandlersOfLoaded /\ DependenciesFirst

\* While calls do not overlap, shutdown is never stopped by a dependent, and if
\* no plugin rejects it leaves no plugin behind.
ShutdownEmpties ==
  [][\A c \in PluginCall :
       /\ pluginCall'[c] # pluginCall[c]
       /\ pluginCall'[c].op = "shutdown" /\ pluginCall'[c].pc = "idle"
       /\ ~crossed'
       => /\ pluginCall'[c].outcome # "dependents"
          /\ pluginCall'[c].outcome = "done" => plugins' = <<>>]_pluginVars
=============================================================================
