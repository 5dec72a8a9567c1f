---------------------------- MODULE Ruflo_proofs -----------------------------
(***************************************************************************)
(* Proofs about the parts of ruflo that calls interleave in.  Plugins: the *)
(* manager's handlers, its Map and the plugins' dependencies fit together  *)
(* (PluginsLinked), and a shutdown ends with no plugin left (ShutdownEmpties);*)
(* while calls do not overlap, what one found when it went to wait still holds*)
(* when it goes on (RecordOK).  Memory: the two stores, a search and a report*)
(* agree (MemoryConsistent); while calls do not overlap, the stores differ *)
(* only in the memory whose second write is awaited (MemorySerial).  Bus: a*)
(* message stays in the file until it is acknowledged (SentIsKept); without*)
(* a collision one rewrite at most is under way, and has all there is to keep.*)
(***************************************************************************)
EXTENDS Plugins, Memory, MessageBus, Lemmas, FiniteSetTheorems, SequenceTheorems, TLAPS

------------------------------------------------------------------------------
(* Plugins. *)


(* The inductive invariant. *)

Working == {"stopping", "unloaded", "starting"}

\* A call that changes the manager has the object it needs.
CallTyped(rec) ==
  /\ rec.pc \in Working =>
       /\ rec.op \in {"load", "unload", "reload", "shutdown"}
       /\ rec.op \in {"load", "reload"} => rec.plugin \in Plugin
       /\ rec.pc = "stopping" => rec.held \in Plugin
       /\ rec.pc = "starting" => rec.op = "load"
  /\ rec.pc = "handling" => rec.op = "invoke"

TypeInv == PluginsTypeOK /\ \A c \in PluginCall : CallTyped(pluginCall[c])

\* No two loaded plugins have one id.
Unique ==
  \A j, k \in DOMAIN plugins : idOf[plugins[j]] = idOf[plugins[k]] => j = k

\* A call of which the shutdown of a plugin is awaited: nobody depends on it.
Stops(rec) ==
  rec.pc = "stopping" =>
    /\ isLoaded(idOf[rec.held]) /\ ~hasDependents(idOf[rec.held])
    /\ rec.op = "load" => idOf[rec.held] = idOf[rec.plugin]

\* A call about to load has room, and what it depends on when it starts.
Loads(rec) ==
  /\ rec.pc = "starting" \/ (rec.pc = "unloaded" /\ rec.op = "load") =>
       ~isLoaded(idOf[rec.plugin])
  /\ rec.pc = "starting" => \A d \in dependencies[rec.plugin] : isLoaded(d)

\* The ids in todo are those of the first plugins of the Map, the last first.
TheFirst(todo) ==
  \A k \in 1 .. Len(todo) : todo[k] = idOf[plugins[Len(todo) + 1 - k]]

\* A shutdown has all that is left in front of it.
Backwards(rec) ==
  rec.op = "shutdown" /\ rec.pc \in Working =>
    /\ TheFirst(rec.todo)
    /\ rec.pc = "unloaded" => Len(plugins) = Len(rec.todo)
    /\ rec.pc = "stopping" => /\ Len(plugins) = Len(rec.todo) + 1
                              /\ idOf[rec.held] = idOf[plugins[Len(plugins)]]

RecordOK(rec) == Stops(rec) /\ Loads(rec) /\ Backwards(rec)

Linked ==
  \A k \in DOMAIN plugins : \A d \in dependencies[plugins[k]] :
    \E j \in 1 .. k - 1 : idOf[plugins[j]] = d

Sole == \A c, d \in PluginCall : changing(c) /\ changing(d) => c = d

\* What calls that do not overlap keep.
Serial == ~crossed => Sole /\ Linked /\ \A c \in PluginCall : RecordOK(pluginCall[c])

IInv == TypeInv /\ Unique /\ HandlersOfLoaded /\ Serial

------------------------------------------------------------------------------
(* The Map. *)

LEMMA PlaceOf ==
  ASSUME NEW id, isLoaded(id)
  PROVE  placeOf(id) \in DOMAIN plugins /\ idOf[plugins[placeOf(id)]] = id
  BY DEF isLoaded, placeOf

\* The Map's delete leaves the others in their order.
LEMMA DropIsRight ==
  ASSUME plugins \in Seq(Plugin), NEW id, isLoaded(id)
  PROVE  LET i == placeOf(id)
             rest == dropPlugin(id)
         IN /\ i \in 1 .. Len(plugins) /\ idOf[plugins[i]] = id
            /\ rest \in Seq(Plugin) /\ Len(rest) = Len(plugins) - 1
            /\ \A k \in 1 .. Len(rest) : rest[k] = plugins[IF k < i THEN k ELSE k + 1]
<1> DEFINE i == placeOf(id)
           before == SubSeq(plugins, 1, i - 1)
           after == SubSeq(plugins, i + 1, Len(plugins))
<1>1. i \in 1 .. Len(plugins) /\ idOf[plugins[i]] = id /\ Len(plugins) \in Nat
  BY PlaceOf
<1>2. dropPlugin(id) = before \o after
  BY DEF dropPlugin, RemoveAt
<1> HIDE DEF i
<1>3. /\ before \in Seq(Plugin) /\ Len(before) = i - 1
      /\ \A k \in 1 .. i - 1 : before[k] = plugins[k]
  BY <1>1
<1>4. /\ after \in Seq(Plugin) /\ Len(after) = Len(plugins) - i
      /\ \A k \in 1 .. Len(plugins) - i : after[k] = plugins[i + k]
  BY <1>1
<1> HIDE DEF before, after
<1>5. /\ before \o after \in Seq(Plugin) /\ Len(before \o after) = Len(plugins) - 1
      /\ \A k \in 1 .. Len(plugins) - 1 :
           (before \o after)[k] = plugins[IF k < i THEN k ELSE k + 1]
  BY <1>1, <1>3, <1>4
<1> QED
  BY <1>1, <1>2, <1>5 DEF i

\* The Map's set puts a plugin in the place of its id, or last.
LEMMA SetIsRight ==
  ASSUME plugins \in Seq(Plugin), NEW p \in Plugin
  PROVE  /\ setPlugin(p) \in Seq(Plugin)
         /\ isLoaded(idOf[p]) =>
              /\ Len(setPlugin(p)) = Len(plugins)
              /\ \A k \in 1 .. Len(plugins) : idOf[setPlugin(p)[k]] = idOf[plugins[k]]
         /\ ~isLoaded(idOf[p]) =>
              /\ Len(setPlugin(p)) = Len(plugins) + 1
              /\ \A k \in 1 .. Len(plugins) : setPlugin(p)[k] = plugins[k]
              /\ setPlugin(p)[Len(plugins) + 1] = p
<1>1. CASE isLoaded(idOf[p])
  <2>1. setPlugin(p) = [k \in 1 .. Len(plugins) |->
                          IF idOf[plugins[k]] = idOf[p] THEN p ELSE plugins[k]]
    BY <1>1 DEF setPlugin
  <2>2. setPlugin(p) \in Seq(Plugin) /\ Len(setPlugin(p)) = Len(plugins)
    BY <2>1
  <2> QED
    BY <1>1, <2>1, <2>2
<1>2. CASE ~isLoaded(idOf[p])
  BY <1>2 DEF setPlugin
<1> QED
  BY <1>1, <1>2

\* An id is loaded when a plugin of a place has it.
LEMMA LoadedAt ==
  ASSUME plugins \in Seq(Plugin), NEW id
  PROVE  isLoaded(id) <=> \E k \in 1 .. Len(plugins) : idOf[plugins[k]] = id
  BY DEF isLoaded

------------------------------------------------------------------------------
(* The records of the calls. *)

Outcome == {"none", "done", "dependents", "incompatible", "missing", "rejected"}

\* How a call looks that starts, and one that ends.
LEMMA NoCallFields ==
  /\ noCall \in CallType /\ noCall.pc = "idle"
  /\ \A op \in {"load", "unload", "reload", "shutdown"} :
       /\ [noCall EXCEPT !.op = op] \in CallType
       /\ [noCall EXCEPT !.op = op].op = op
       /\ \A p \in Plugin : /\ [noCall EXCEPT !.op = op, !.plugin = p] \in CallType
                             /\ [noCall EXCEPT !.op = op, !.plugin = p].op = op
                             /\ [noCall EXCEPT !.op = op, !.plugin = p].plugin = p
<1>1. noHandlers \in [PluginId -> Nat] /\ <<>> \in Seq(PluginId)
  BY DEF noHandlers
<1> QED
  BY <1>1 DEF noCall, CallType

LEMMA EndedFields ==
  ASSUME NEW rec \in CallType, NEW how \in Outcome
  PROVE  /\ ended(rec, how) \in CallType
         /\ ended(rec, how).pc = "idle" /\ ended(rec, how).op = rec.op
         /\ ended(rec, how).outcome = how
<1>1. <<>> \in Seq(PluginId)
  OBVIOUS
<1> QED
  BY <1>1 DEF ended, CallType, Outcome

\* A call of unloadPlugin ends with nothing to do, is refused, or waits.
LEMMA BeginUnloadFields ==
  ASSUME TypeInv, NEW rec \in CallType, NEW id \in PluginId
  PROVE  LET k == beginUnload(rec, id)
         IN /\ k \in CallType /\ k.op = rec.op
            /\ \/ /\ ~isLoaded(id)
                  /\ k.pc = "unloaded" /\ k.todo = rec.todo /\ k.plugin = rec.plugin
               \/ /\ isLoaded(id) /\ hasDependents(id)
                  /\ k.pc = "idle" /\ k.outcome = "dependents"
               \/ /\ isLoaded(id) /\ ~hasDependents(id)
                  /\ k.pc = "stopping" /\ k.todo = rec.todo /\ k.plugin = rec.plugin
                  /\ k.held \in Plugin /\ idOf[k.held] = id
<1>1. isLoaded(id) => pluginOf(id) \in Plugin /\ idOf[pluginOf(id)] = id
  BY PlaceOf DEF pluginOf, TypeInv, PluginsTypeOK
<1>2. CASE ~isLoaded(id)
  BY <1>2 DEF beginUnload, CallType
<1>3. CASE isLoaded(id) /\ hasDependents(id)
  BY <1>3, EndedFields DEF beginUnload, Outcome
<1>4. CASE isLoaded(id) /\ ~hasDependents(id)
  BY <1>1, <1>4 DEF beginUnload, CallType
<1> QED
  BY <1>2, <1>3, <1>4

\* loadPlugin is refused, or waits for initialize.
LEMMA BeginLoadFields ==
  ASSUME TypeInv, NEW c \in PluginCall, NEW rec \in CallType, rec.plugin \in Plugin,
         beginLoad(c, rec)
  PROVE  /\ ownPoints' \in [Plugin -> Nat]
         /\ \E k \in CallType :
              /\ pluginCall' = [pluginCall EXCEPT ![c] = k]
              /\ k.op = rec.op
              /\ \/ k.pc = "idle" /\ k.outcome # "done"
                 \/ /\ k.pc = "starting" /\ k.todo = rec.todo /\ k.plugin = rec.plugin
                    /\ \A d \in dependencies[rec.plugin] : isLoaded(d)
<1>0. ownPoints \in [Plugin -> Nat]
  BY DEF TypeInv, PluginsTypeOK
<1>1. \/ /\ ownPoints' = ownPoints
         /\ \E how \in {"incompatible", "missing"} :
              pluginCall' = [pluginCall EXCEPT ![c] = ended(rec, how)]
      \/ /\ \A d \in dependencies[rec.plugin] : isLoaded(d)
         /\ pluginCall' = [pluginCall EXCEPT ![c] = [rec EXCEPT !.pc = "starting"]]
         /\ ownPoints' = [ownPoints EXCEPT ![rec.plugin] = @ + 1]
  BY Zenon DEF beginLoad
<1>2. CASE /\ ownPoints' = ownPoints
           /\ \E how \in {"incompatible", "missing"} :
                pluginCall' = [pluginCall EXCEPT ![c] = ended(rec, how)]
  <2>1. PICK how \in {"incompatible", "missing"} :
              pluginCall' = [pluginCall EXCEPT ![c] = ended(rec, how)]
    BY <1>2
  <2>2. /\ ended(rec, how) \in CallType /\ ended(rec, how).op = rec.op
        /\ ended(rec, how).pc = "idle" /\ ended(rec, how).outcome # "done"
    BY EndedFields DEF Outcome
  <2> QED
    BY <1>0, <1>2, <2>1, <2>2
<1>3. CASE /\ \A d \in dependencies[rec.plugin] : isLoaded(d)
           /\ pluginCall' = [pluginCall EXCEPT ![c] = [rec EXCEPT !.pc = "starting"]]
           /\ ownPoints' = [ownPoints EXCEPT ![rec.plugin] = @ + 1]
  <2> DEFINE k == [rec EXCEPT !.pc = "starting"]
  <2>1. k \in CallType /\ k.op = rec.op /\ k.pc = "starting" /\ k.todo = rec.todo
        /\ k.plugin = rec.plugin
    BY DEF CallType
  <2>2. ownPoints' \in [Plugin -> Nat]
    BY <1>0, <1>3
  <2> HIDE DEF k
  <2>3. pluginCall' = [pluginCall EXCEPT ![c] = k]
    BY <1>3 DEF k
  <2> QED
    BY <1>3, <2>1, <2>2, <2>3
<1> QED
  BY <1>1, <1>2, <1>3

\* A call that changes leaves the others.
LEMMA OneCall ==
  ASSUME pluginCall \in [PluginCall -> CallType], NEW c \in PluginCall, NEW k \in CallType,
         pluginCall' = [pluginCall EXCEPT ![c] = k]
  PROVE  /\ pluginCall' \in [PluginCall -> CallType]
         /\ pluginCall'[c] = k
         /\ \A d \in PluginCall : d # c => pluginCall'[d] = pluginCall[d]
  OBVIOUS

------------------------------------------------------------------------------
(* What a call comes to when the Map stays as it is. *)

\* A shutdown that ends has not met a dependent, and nothing is left.
Empties(rec) ==
  rec.op = "shutdown" /\ rec.pc = "idle" =>
    rec.outcome # "dependents" /\ (rec.outcome = "done" => plugins = <<>>)

Right(rec) == RecordOK(rec) /\ Empties(rec)

\* The call c has moved to a record that is typed, and right if the calls and the
\* Map were.
Moved(c) ==
  \E k \in CallType : /\ pluginCall' = [pluginCall EXCEPT ![c] = k]
                      /\ CallTyped(k)
                      /\ Linked /\ Unique /\ RecordOK(pluginCall[c]) => Right(k)

\* A record that is idle or handles an extension point is right, unless a shutdown.
LEMMA IdleIsRight ==
  ASSUME NEW rec, rec.pc \notin Working, rec.op # "shutdown",
         rec.pc = "handling" => rec.op = "invoke"
  PROVE  CallTyped(rec) /\ Right(rec)
  BY DEF CallTyped, Right, RecordOK, Stops, Loads, Backwards, Empties, Working

\* The last plugin has no dependents: it would come before one.
LEMMA LastHasNone ==
  ASSUME TypeInv, Linked, Unique, Len(plugins) # 0
  PROVE  ~hasDependents(idOf[plugins[Len(plugins)]])
<1> DEFINE n == Len(plugins)
<1>1. plugins \in Seq(Plugin) /\ n \in 1 .. n /\ n \in Nat /\ DOMAIN plugins = 1 .. n
  BY DEF TypeInv, PluginsTypeOK
<1> HIDE DEF n
<1>2. ASSUME NEW k \in 1 .. n, idOf[plugins[n]] \in dependencies[plugins[k]]
      PROVE  FALSE
  <2>0. idOf[plugins[n]] \in dependencies[plugins[k]] /\ k \in DOMAIN plugins
    BY <1>1, <1>2
  <2>1. PICK j \in 1 .. k - 1 : idOf[plugins[j]] = idOf[plugins[n]]
    BY <2>0 DEF Linked
  <2>2. j \in 1 .. n /\ j # n
    BY <1>1, <2>1
  <2> QED
    BY <1>1, <2>1, <2>2 DEF Unique
<1> QED
  BY <1>1, <1>2 DEF hasDependents, n

\* unloadPlugin, from any of its callers.
LEMMA BeginUnloadRight ==
  ASSUME TypeInv, NEW rec \in CallType, NEW id \in PluginId,
         rec.op \in {"load", "unload", "reload", "shutdown"},
         rec.op \in {"load", "reload"} => rec.plugin \in Plugin,
         rec.op = "load" => id = idOf[rec.plugin]
  PROVE  LET k == beginUnload(rec, id)
         IN /\ k \in CallType /\ CallTyped(k)
            /\ /\ Linked /\ Unique
               /\ rec.op = "shutdown" =>
                    /\ TheFirst(rec.todo) /\ Len(plugins) = Len(rec.todo) + 1
                    /\ id = idOf[plugins[Len(plugins)]]
               => Right(k)
<1> DEFINE k == beginUnload(rec, id)
<1>1. k \in CallType /\ k.op = rec.op
  BY BeginUnloadFields
<1>2. CASE /\ ~isLoaded(id)
           /\ k.pc = "unloaded" /\ k.todo = rec.todo /\ k.plugin = rec.plugin
  <2> HIDE DEF k
  <2>1. CallTyped(k)
    BY <1>1, <1>2 DEF CallTyped, Working
  <2>2. Stops(k) /\ Loads(k) /\ Empties(k)
    BY <1>1, <1>2 DEF Stops, Loads, Empties
  <2>3. rec.op = "shutdown" => Len(plugins) # Len(rec.todo) + 1 \/ id # idOf[plugins[Len(plugins)]]
    <3>1. rec.todo \in Seq(PluginId) /\ plugins \in Seq(Plugin)
      BY DEF CallType, TypeInv, PluginsTypeOK
    <3>2. Len(plugins) = Len(rec.todo) + 1 => Len(plugins) \in 1 .. Len(plugins)
      BY <3>1
    <3> QED
      BY <1>2, <3>1, <3>2, LoadedAt
  <2> QED
    BY <1>1, <1>2, <2>1, <2>2, <2>3 DEF Right, RecordOK, Backwards, k
<1>3. CASE isLoaded(id) /\ hasDependents(id) /\ k.pc = "idle" /\ k.outcome = "dependents"
  <2> HIDE DEF k
  <2>1. CallTyped(k)
    BY <1>1, <1>3 DEF CallTyped, Working
  <2>2. RecordOK(k)
    BY <1>3 DEF RecordOK, Stops, Loads, Backwards, Working
  <2>3. Linked /\ Unique /\ rec.op = "shutdown" =>
          Len(plugins) # Len(rec.todo) + 1 \/ id # idOf[plugins[Len(plugins)]]
    <3>1. rec.todo \in Seq(PluginId)
      BY DEF CallType
    <3> QED
      BY <1>3, <3>1, LastHasNone
  <2> QED
    BY <1>1, <2>1, <2>2, <2>3 DEF Right, Empties, k
<1>4. CASE /\ isLoaded(id) /\ ~hasDependents(id)
           /\ k.pc = "stopping" /\ k.todo = rec.todo /\ k.plugin = rec.plugin
           /\ k.held \in Plugin /\ idOf[k.held] = id
  <2> HIDE DEF k
  <2>1. CallTyped(k)
    BY <1>1, <1>4 DEF CallTyped, Working
  <2>2. Stops(k) /\ Loads(k) /\ Empties(k)
    BY <1>1, <1>4 DEF Stops, Loads, Empties
  <2> QED
    BY <1>1, <1>4, <2>1, <2>2 DEF Right, RecordOK, Backwards, k
<1> QED
  BY <1>2, <1>3, <1>4, BeginUnloadFields

\* The second part of loadPlugin.
LEMMA BeginLoadRight ==
  ASSUME TypeInv, NEW c \in PluginCall, NEW rec \in CallType,
         rec.op = "load", rec.plugin \in Plugin, beginLoad(c, rec)
  PROVE  /\ ownPoints' \in [Plugin -> Nat]
         /\ \E k \in CallType :
              /\ pluginCall' = [pluginCall EXCEPT ![c] = k]
              /\ CallTyped(k)
              /\ ~isLoaded(idOf[rec.plugin]) => Right(k)
<1>1. PICK k \in CallType :
              /\ pluginCall' = [pluginCall EXCEPT ![c] = k]
              /\ k.op = rec.op
              /\ \/ k.pc = "idle" /\ k.outcome # "done"
                 \/ /\ k.pc = "starting" /\ k.todo = rec.todo /\ k.plugin = rec.plugin
                    /\ \A d \in dependencies[rec.plugin] : isLoaded(d)
  BY BeginLoadFields
<1>2. CallTyped(k)
  BY <1>1 DEF CallTyped, Working
<1>3. ~isLoaded(idOf[rec.plugin]) => Right(k)
  BY <1>1 DEF Right, RecordOK, Stops, Loads, Backwards, Empties
<1> QED
  BY <1>1, <1>2, <1>3, BeginLoadFields

\* The whole of loadPlugin.
LEMMA LoadRight ==
  ASSUME TypeInv, NEW c \in PluginCall, NEW rec \in CallType,
         rec.op = "load", rec.plugin \in Plugin, loadFrom(c, rec)
  PROVE  ownPoints' \in [Plugin -> Nat] /\ Moved(c)
<1>1. idOf[rec.plugin] \in PluginId
  BY PluginsAssumption
<1>2. CASE isLoaded(idOf[rec.plugin])
  <2> DEFINE k == beginUnload(rec, idOf[rec.plugin])
  <2>1. k \in CallType /\ CallTyped(k) /\ (Linked /\ Unique => Right(k))
    BY <1>1, BeginUnloadRight
  <2>2. pluginCall' = [pluginCall EXCEPT ![c] = k] /\ ownPoints' = ownPoints
    BY <1>2 DEF loadFrom
  <2> HIDE DEF k
  <2> QED
    BY <2>1, <2>2 DEF Moved, TypeInv, PluginsTypeOK
<1>3. CASE ~isLoaded(idOf[rec.plugin])
  BY <1>3, BeginLoadRight DEF loadFrom, Moved
<1> QED
  BY <1>2, <1>3

\* The Map's ids, the last first, are what a shutdown sets out with.
LEMMA OrderIsBackwards ==
  ASSUME plugins \in Seq(Plugin)
  PROVE  /\ shutdownOrder \in Seq(PluginId) /\ Len(shutdownOrder) = Len(plugins)
         /\ TheFirst(shutdownOrder)
<1> DEFINE ids == [k \in DOMAIN plugins |-> idOf[plugins[k]]]
           n == Len(plugins)
<1>1. ids \in Seq(PluginId) /\ Len(ids) = n /\ \A k \in 1 .. n : ids[k] = idOf[plugins[k]]
  <2>1. DOMAIN plugins = 1 .. n /\ n \in Nat
    OBVIOUS
  <2>2. \A k \in 1 .. n : idOf[plugins[k]] \in PluginId
    BY PluginsAssumption
  <2>3. ids = [k \in 1 .. n |-> idOf[plugins[k]]]
    BY <2>1
  <2> HIDE DEF n, ids
  <2> QED
    BY <2>1, <2>2, <2>3
<1> HIDE DEF ids
<1>2. shutdownOrder = [k \in 1 .. n |-> ids[(n - k) + 1]]
  BY <1>1 DEF shutdownOrder, Reverse, ids
<1>3. n \in Nat
  OBVIOUS
<1> HIDE DEF n
<1>4. \A k \in 1 .. n : (n - k) + 1 \in 1 .. n
  BY <1>3
<1>5. \A k \in 1 .. n : shutdownOrder[k] \in PluginId
  BY <1>1, <1>2, <1>4
<1>6. shutdownOrder \in Seq(PluginId) /\ Len(shutdownOrder) = n
  BY <1>2, <1>3, <1>5
<1>7. \A k \in 1 .. n : n + 1 - k = (n - k) + 1
  BY <1>3
<1>8. \A k \in 1 .. n : shutdownOrder[k] = idOf[plugins[n + 1 - k]]
  BY <1>1, <1>2, <1>4, <1>7
<1> QED
  BY <1>6, <1>8 DEF TheFirst, n

\* shutdown goes on to the last plugin that is left, or ends.
LEMMA ShutdownRight ==
  ASSUME TypeInv, NEW c \in PluginCall, NEW rec \in CallType, NEW todo \in Seq(PluginId),
         rec.op = "shutdown", shutdownFrom(c, rec, todo)
  PROVE  /\ handlers' \in [PluginId -> Nat]
         /\ handlers' = handlers \/ handlers' = noHandlers
         /\ \E k \in CallType :
              /\ pluginCall' = [pluginCall EXCEPT ![c] = k]
              /\ CallTyped(k)
              /\ Linked /\ Unique /\ TheFirst(todo) /\ Len(plugins) = Len(todo) => Right(k)
<1>1. CASE todo = <<>>
  <2> DEFINE k == ended(rec, "done")
  <2>1. k \in CallType /\ k.pc = "idle" /\ k.op = "shutdown" /\ k.outcome = "done"
    BY EndedFields DEF Outcome
  <2>2. pluginCall' = [pluginCall EXCEPT ![c] = k] /\ handlers' = noHandlers
    BY <1>1 DEF shutdownFrom
  <2> HIDE DEF k
  <2>3. CallTyped(k) /\ RecordOK(k)
    BY <2>1 DEF CallTyped, RecordOK, Stops, Loads, Backwards, Working
  <2>4. Len(plugins) = Len(todo) => plugins = <<>>
    BY <1>1 DEF TypeInv, PluginsTypeOK
  <2>5. Len(plugins) = Len(todo) => Right(k)
    BY <2>1, <2>3, <2>4 DEF Right, Empties
  <2>6. handlers' \in [PluginId -> Nat]
    BY <2>2 DEF noHandlers
  <2> QED
    BY <2>1, <2>2, <2>3, <2>5, <2>6
<1>2. CASE todo # <<>>
  <2> DEFINE next == [rec EXCEPT !.todo = Tail(todo)]
             k == beginUnload(next, Head(todo))
             n == Len(todo)
  <2>1. /\ Head(todo) \in PluginId /\ Head(todo) = todo[1] /\ Tail(todo) \in Seq(PluginId)
        /\ n \in Nat /\ n # 0 /\ Len(Tail(todo)) = n - 1
        /\ \A j \in 1 .. n - 1 : Tail(todo)[j] = todo[j + 1]
    BY <1>2
  <2>2. next \in CallType /\ next.op = "shutdown" /\ next.todo = Tail(todo)
    BY <2>1 DEF CallType
  <2>3. pluginCall' = [pluginCall EXCEPT ![c] = k] /\ handlers' = handlers
    BY <1>2 DEF shutdownFrom
  <2> HIDE DEF next, n
  <2>4. TheFirst(todo) /\ Len(plugins) = Len(todo) =>
          /\ TheFirst(next.todo) /\ Len(plugins) = Len(next.todo) + 1
          /\ Head(todo) = idOf[plugins[Len(plugins)]]
    <3>1. SUFFICES ASSUME TheFirst(todo), Len(plugins) = Len(todo)
                   PROVE  /\ TheFirst(Tail(todo)) /\ Len(plugins) = Len(Tail(todo)) + 1
                          /\ Head(todo) = idOf[plugins[Len(plugins)]]
      BY <2>2
    <3>2. \A j \in 1 .. n : todo[j] = idOf[plugins[n + 1 - j]]
      BY <3>1 DEF TheFirst, n
    <3>3. todo[1] = idOf[plugins[n]]
      <4>1. 1 \in 1 .. n /\ n + 1 - 1 = n
        BY <2>1
      <4> QED
        BY <3>2, <4>1
    <3>4. \A j \in 1 .. n - 1 : j + 1 \in 1 .. n /\ n + 1 - (j + 1) = (n - 1) + 1 - j
      BY <2>1
    <3>5. \A j \in 1 .. n - 1 : Tail(todo)[j] = idOf[plugins[(n - 1) + 1 - j]]
      BY <2>1, <3>2, <3>4
    <3>6. TheFirst(Tail(todo))
      BY <2>1, <3>5 DEF TheFirst
    <3>7. (n - 1) + 1 = n
      BY <2>1
    <3> QED
      BY <2>1, <3>1, <3>3, <3>6, <3>7 DEF n
  <2>5. /\ k \in CallType /\ CallTyped(k)
        /\ Linked /\ Unique /\ TheFirst(todo) /\ Len(plugins) = Len(todo) => Right(k)
    BY <2>1, <2>2, <2>4, BeginUnloadRight
  <2> HIDE DEF k
  <2>6. handlers' \in [PluginId -> Nat]
    BY <2>3 DEF TypeInv, PluginsTypeOK
  <2> QED
    BY <2>3, <2>5, <2>6
<1> QED
  BY <1>1, <1>2

------------------------------------------------------------------------------
(* The steps that leave the Map as it is. *)

Keeps(c) ==
  /\ plugins' = plugins
  /\ handlers' \in [PluginId -> Nat] /\ (handlers' = handlers \/ handlers' = noHandlers)
  /\ ownPoints' \in [Plugin -> Nat]
  /\ Moved(c)

LEMMA LoadKeeps ==
  ASSUME TypeInv, NEW c \in PluginCall, NEW p \in Plugin, LoadPlugin(c, p)
  PROVE  Keeps(c)
<1> DEFINE rec == [noCall EXCEPT !.op = "load", !.plugin = p]
<1>1. rec \in CallType /\ rec.op = "load" /\ rec.plugin = p
  BY NoCallFields
<1>2. loadFrom(c, rec) /\ UNCHANGED <<plugins, handlers>>
  BY DEF LoadPlugin
<1> HIDE DEF rec
<1> QED
  BY <1>1, <1>2, LoadRight DEF Keeps, TypeInv, PluginsTypeOK

LEMMA UnloadKeeps ==
  ASSUME TypeInv, NEW c \in PluginCall, NEW id \in PluginId, UnloadPlugin(c, id)
  PROVE  Keeps(c)
<1> DEFINE rec == [noCall EXCEPT !.op = "unload"]
           k == beginUnload(rec, id)
<1>1. rec \in CallType /\ rec.op = "unload"
  BY NoCallFields
<1>2. pluginCall' = [pluginCall EXCEPT ![c] = k] /\ UNCHANGED <<plugins, handlers, ownPoints>>
  BY DEF UnloadPlugin
<1> HIDE DEF rec
<1>3. k \in CallType /\ CallTyped(k) /\ (Linked /\ Unique => Right(k))
  BY <1>1, BeginUnloadRight
<1> HIDE DEF k
<1> QED
  BY <1>2, <1>3 DEF Keeps, Moved, TypeInv, PluginsTypeOK

LEMMA ReloadKeeps ==
  ASSUME TypeInv, NEW c \in PluginCall, NEW p \in Plugin, ReloadPlugin(c, p)
  PROVE  Keeps(c)
<1> DEFINE rec == [noCall EXCEPT !.op = "reload", !.plugin = p]
           k == beginUnload(rec, idOf[p])
<1>1. rec \in CallType /\ rec.op = "reload" /\ rec.plugin = p /\ idOf[p] \in PluginId
  BY NoCallFields, PluginsAssumption
<1>2. pluginCall' = [pluginCall EXCEPT ![c] = k] /\ UNCHANGED <<plugins, handlers, ownPoints>>
  BY DEF ReloadPlugin
<1> HIDE DEF rec
<1>3. k \in CallType /\ CallTyped(k) /\ (Linked /\ Unique => Right(k))
  BY <1>1, BeginUnloadRight
<1> HIDE DEF k
<1> QED
  BY <1>2, <1>3 DEF Keeps, Moved, TypeInv, PluginsTypeOK

LEMMA ShutdownKeeps ==
  ASSUME TypeInv, NEW c \in PluginCall, Shutdown(c)
  PROVE  Keeps(c)
<1> DEFINE rec == [noCall EXCEPT !.op = "shutdown"]
<1>1. rec \in CallType /\ rec.op = "shutdown"
  BY NoCallFields
<1>2. shutdownFrom(c, rec, shutdownOrder) /\ UNCHANGED <<plugins, ownPoints>>
  BY DEF Shutdown
<1> HIDE DEF rec
<1>3. /\ shutdownOrder \in Seq(PluginId) /\ Len(plugins) = Len(shutdownOrder)
      /\ TheFirst(shutdownOrder)
  BY OrderIsBackwards DEF TypeInv, PluginsTypeOK
<1> QED
  BY <1>1, <1>2, <1>3, ShutdownRight DEF Keeps, Moved, TypeInv, PluginsTypeOK

\* An invocation starts, or one of its handlers ends.
LEMMA InvokeKeeps ==
  ASSUME TypeInv, NEW c \in PluginCall, InvokeExtensionPoint(c)
  PROVE  Keeps(c) /\ pluginCall'[c].pc \notin Working
<1> DEFINE k == [noCall EXCEPT !.op = "invoke", !.pc = "handling", !.left = handlers]
<1>1. k \in CallType /\ k.pc = "handling" /\ k.op = "invoke"
  BY NoCallFields DEF CallType, TypeInv, PluginsTypeOK
<1>2. pluginCall' = [pluginCall EXCEPT ![c] = k] /\ UNCHANGED <<plugins, handlers, ownPoints>>
  BY DEF InvokeExtensionPoint
<1> HIDE DEF k
<1>3. CallTyped(k) /\ Right(k) /\ k.pc \notin Working
  BY <1>1, IdleIsRight DEF Working
<1>4. pluginCall'[c] = k
  BY <1>1, <1>2, OneCall DEF TypeInv, PluginsTypeOK
<1> QED
  BY <1>1, <1>2, <1>3, <1>4 DEF Keeps, Moved, TypeInv, PluginsTypeOK

LEMMA HandlerKeeps ==
  ASSUME TypeInv, NEW c \in PluginCall, HandlerDone(c)
  PROVE  Keeps(c) /\ pluginCall'[c].pc \notin Working
<1> DEFINE rec == pluginCall[c]
<1>1. rec \in CallType /\ rec.left \in [PluginId -> Nat] /\ rec.pc = "handling"
      /\ rec.op = "invoke"
  BY DEF TypeInv, PluginsTypeOK, CallType, CallTyped, HandlerDone
<1>2. PICK id \in highest(rec.left) :
        LET left == [rec.left EXCEPT ![id] = @ - 1]
        IN pluginCall' = [pluginCall EXCEPT ![c] =
             IF left = noHandlers THEN [ended(rec, "done") EXCEPT !.left = left]
             ELSE [rec EXCEPT !.left = left]]
  BY DEF HandlerDone
<1> DEFINE left == [rec.left EXCEPT ![id] = @ - 1]
           k == IF left = noHandlers THEN [ended(rec, "done") EXCEPT !.left = left]
                ELSE [rec EXCEPT !.left = left]
<1>3. left \in [PluginId -> Nat]
  BY <1>1, <1>2 DEF highest
<1>4. pluginCall' = [pluginCall EXCEPT ![c] = k]
  BY <1>2
<1> HIDE DEF left, rec
<1>5. k \in CallType /\ k.op = rec.op /\ k.pc \in {"idle", "handling"}
  <2>1. ended(rec, "done") \in CallType /\ ended(rec, "done").pc = "idle"
        /\ ended(rec, "done").op = rec.op
    BY <1>1, EndedFields DEF Outcome
  <2> QED
    BY <1>1, <1>3, <2>1 DEF CallType
<1> HIDE DEF k
<1>6. CallTyped(k) /\ Right(k) /\ k.pc \notin Working
  BY <1>1, <1>5, IdleIsRight DEF Working
<1>7. pluginCall'[c] = k
  BY <1>4, <1>5, OneCall DEF TypeInv, PluginsTypeOK
<1> QED
  BY <1>4, <1>5, <1>6, <1>7 DEF HandlerDone, Keeps, Moved, TypeInv, PluginsTypeOK

\* The plugin's own shutdown or initialize rejects, and the call with it.
LEMMA RejectKeeps ==
  ASSUME TypeInv, NEW c \in PluginCall,
         pluginCall' = [pluginCall EXCEPT ![c] = ended(pluginCall[c], "rejected")],
         UNCHANGED <<plugins, handlers, ownPoints>>
  PROVE  Keeps(c)
<1> DEFINE k == ended(pluginCall[c], "rejected")
<1>1. k \in CallType /\ k.pc = "idle" /\ k.outcome = "rejected"
  BY EndedFields DEF Outcome, TypeInv, PluginsTypeOK
<1> HIDE DEF k
<1>2. CallTyped(k) /\ Right(k)
  BY <1>1 DEF CallTyped, Right, RecordOK, Stops, Loads, Backwards, Empties, Working
<1> QED
  BY <1>1, <1>2 DEF k, Keeps, Moved, TypeInv, PluginsTypeOK

\* The caller of unloadPlugin goes on.
LEMMA AfterKeeps ==
  ASSUME TypeInv, NEW c \in PluginCall, AfterUnload(c)
  PROVE  Keeps(c)
<1> DEFINE rec == pluginCall[c]
<1>1. rec \in CallType /\ rec.pc = "unloaded" /\ CallTyped(rec) /\ plugins' = plugins
  BY DEF TypeInv, PluginsTypeOK, AfterUnload
<1>2. CASE rec.op = "unload"
  <2> DEFINE k == ended(rec, "done")
  <2>1. pluginCall' = [pluginCall EXCEPT ![c] = k] /\ UNCHANGED <<handlers, ownPoints>>
    BY <1>2 DEF AfterUnload
  <2>2. k \in CallType /\ k.pc = "idle" /\ k.op = "unload"
    BY <1>1, <1>2, EndedFields DEF Outcome
  <2> HIDE DEF k
  <2>3. CallTyped(k) /\ Right(k)
    BY <2>2, IdleIsRight DEF Working
  <2> QED
    BY <1>1, <2>1, <2>2, <2>3 DEF Keeps, Moved, TypeInv, PluginsTypeOK
<1>3. CASE rec.op = "load"
  <2>1. beginLoad(c, rec) /\ handlers' = handlers /\ rec.plugin \in Plugin
    BY <1>1, <1>3 DEF AfterUnload, CallTyped, Working
  <2>2. RecordOK(rec) => ~isLoaded(idOf[rec.plugin])
    BY <1>1, <1>3 DEF RecordOK, Loads
  <2> HIDE DEF rec
  <2>3. /\ ownPoints' \in [Plugin -> Nat]
        /\ \E k \in CallType :
              /\ pluginCall' = [pluginCall EXCEPT ![c] = k]
              /\ CallTyped(k)
              /\ ~isLoaded(idOf[rec.plugin]) => Right(k)
    BY <1>1, <1>3, <2>1, BeginLoadRight
  <2> QED
    BY <1>1, <2>1, <2>2, <2>3 DEF rec, Keeps, Moved, TypeInv, PluginsTypeOK
<1>4. CASE rec.op = "reload"
  <2> DEFINE next == [rec EXCEPT !.op = "load"]
  <2>1. loadFrom(c, next) /\ handlers' = handlers
    BY <1>4 DEF AfterUnload
  <2>2. next \in CallType /\ next.op = "load" /\ next.plugin \in Plugin
    BY <1>1, <1>4 DEF CallTyped, CallType, Working
  <2> HIDE DEF next
  <2> QED
    BY <1>1, <2>1, <2>2, LoadRight DEF Keeps, TypeInv, PluginsTypeOK
<1>5. CASE rec.op = "shutdown"
  <2>1. shutdownFrom(c, rec, rec.todo) /\ ownPoints' = ownPoints
    BY <1>5 DEF AfterUnload
  <2>2. RecordOK(rec) => TheFirst(rec.todo) /\ Len(plugins) = Len(rec.todo)
    BY <1>1, <1>5 DEF RecordOK, Backwards, Working
  <2>3. rec.todo \in Seq(PluginId)
    BY <1>1 DEF CallType
  <2> HIDE DEF rec
  <2>4. /\ handlers' \in [PluginId -> Nat]
        /\ handlers' = handlers \/ handlers' = noHandlers
        /\ \E k \in CallType :
              /\ pluginCall' = [pluginCall EXCEPT ![c] = k]
              /\ CallTyped(k)
              /\ Linked /\ Unique /\ TheFirst(rec.todo) /\ Len(plugins) = Len(rec.todo)
                   => Right(k)
    BY <1>1, <1>5, <2>1, <2>3, ShutdownRight
  <2> QED
    BY <1>1, <2>1, <2>2, <2>4 DEF rec, Keeps, Moved, TypeInv, PluginsTypeOK
<1> QED
  BY <1>2, <1>3, <1>4, <1>5 DEF AfterUnload

------------------------------------------------------------------------------
(* The steps that change the Map. *)

\* A plugin has been shut down: it leaves the Map, the others keep their order.
LEMMA DropKeepsOthers ==
  ASSUME plugins \in Seq(Plugin), Unique, NEW id, plugins' = dropPlugin(id)
  PROVE  /\ plugins' \in Seq(Plugin) /\ Unique' /\ ~isLoaded(id)'
         /\ \A other : other # id => (isLoaded(other)' <=> isLoaded(other))
<1>1. CASE ~isLoaded(id)
  BY <1>1 DEF dropPlugin, Unique, isLoaded
<1>2. CASE isLoaded(id)
  <2> DEFINE i == placeOf(id)
             n == Len(plugins)
             old(k) == IF k < i THEN k ELSE k + 1
  <2>1. /\ i \in 1 .. n /\ idOf[plugins[i]] = id /\ n \in Nat
        /\ plugins' \in Seq(Plugin) /\ Len(plugins') = n - 1
        /\ \A k \in 1 .. n - 1 : plugins'[k] = plugins[old(k)]
    <3>1. /\ i \in 1 .. n /\ idOf[plugins[i]] = id
          /\ dropPlugin(id) \in Seq(Plugin) /\ Len(dropPlugin(id)) = n - 1
          /\ \A k \in 1 .. Len(dropPlugin(id)) : dropPlugin(id)[k] = plugins[old(k)]
      BY <1>2, DropIsRight, Zenon
    <3>2. n \in Nat
      OBVIOUS
    <3> HIDE DEF i, n, old
    <3> QED
      BY <3>1, <3>2
  <2> HIDE DEF i, n
  <2>2. /\ \A k \in 1 .. n - 1 : old(k) \in 1 .. n /\ old(k) # i
        /\ \A j, k \in 1 .. n - 1 : old(j) = old(k) => j = k
        /\ \A j \in 1 .. n : j # i => \E k \in 1 .. n - 1 : old(k) = j
    <3>1. \A j \in 1 .. n : j < i => j \in 1 .. n - 1 /\ old(j) = j
      BY <2>1
    <3>2. \A j \in 1 .. n : j > i => j - 1 \in 1 .. n - 1 /\ old(j - 1) = j
      BY <2>1
    <3>3. \A j \in 1 .. n : j < i \/ j > i \/ j = i
      BY <2>1
    <3>4. /\ \A k \in 1 .. n - 1 : old(k) \in 1 .. n /\ old(k) # i
          /\ \A j, k \in 1 .. n - 1 : old(j) = old(k) => j = k
      BY <2>1
    <3> QED
      BY <3>1, <3>2, <3>3, <3>4
  <2> HIDE DEF old
  <2>3. \A j, k \in 1 .. n : idOf[plugins[j]] = idOf[plugins[k]] => j = k
    BY <2>1 DEF Unique, n
  <2>4. Unique'
    <3>1. \A j, k \in 1 .. n - 1 : idOf[plugins'[j]] = idOf[plugins'[k]] => j = k
      BY <2>1, <2>2, <2>3
    <3>2. DOMAIN plugins' = 1 .. n - 1
      BY <2>1
    <3> QED
      BY <3>1, <3>2 DEF Unique
  <2>5. \A other : isLoaded(other)' <=> \E k \in 1 .. n - 1 : idOf[plugins'[k]] = other
    BY <2>1 DEF isLoaded
  <2>6. \A other : isLoaded(other) <=> \E k \in 1 .. n : idOf[plugins[k]] = other
    BY DEF isLoaded, n
  <2>7. ~isLoaded(id)'
    BY <2>1, <2>2, <2>3, <2>5
  <2>8. ASSUME NEW other, other # id
        PROVE  isLoaded(other)' <=> isLoaded(other)
    <3>1. isLoaded(other)' => isLoaded(other)
      BY <2>1, <2>2, <2>5, <2>6
    <3>2. ASSUME NEW j \in 1 .. n, idOf[plugins[j]] = other
          PROVE  \E k \in 1 .. n - 1 : idOf[plugins'[k]] = other
      <4>1. j # i
        BY <2>1, <2>8, <3>2
      <4>2. PICK k \in 1 .. n - 1 : old(k) = j
        BY <2>2, <4>1
      <4> QED
        BY <2>1, <3>2, <4>2
    <3> QED
      BY <2>5, <2>6, <3>1, <3>2
  <2> QED
    BY <2>1, <2>4, <2>7, <2>8
<1> QED
  BY <1>1, <1>2

\* Without a plugin nobody depends on, each still comes after what it depends on.
LEMMA DropKeepsLinked ==
  ASSUME plugins \in Seq(Plugin), Linked, NEW id, isLoaded(id), ~hasDependents(id),
         plugins' = dropPlugin(id)
  PROVE  Linked'
<1> DEFINE i == placeOf(id)
           n == Len(plugins)
           old(k) == IF k < i THEN k ELSE k + 1
<1>1. /\ i \in 1 .. n /\ idOf[plugins[i]] = id /\ n \in Nat
      /\ plugins' \in Seq(Plugin) /\ Len(plugins') = n - 1
      /\ \A k \in 1 .. n - 1 : plugins'[k] = plugins[old(k)]
  BY DropIsRight
<1>2. DOMAIN plugins = 1 .. n /\ DOMAIN plugins' = 1 .. n - 1
  BY <1>1
<1> HIDE DEF i, n
<1>3. ASSUME NEW k \in 1 .. n - 1, NEW d \in dependencies[plugins'[k]]
      PROVE  \E j \in 1 .. k - 1 : idOf[plugins'[j]] = d
  <2>1. old(k) \in 1 .. n /\ plugins'[k] = plugins[old(k)]
    BY <1>1
  <2>2. PICK j \in 1 .. old(k) - 1 : idOf[plugins[j]] = d
    BY <1>2, <2>1 DEF Linked
  <2>3. d # id
    BY <1>2, <2>1 DEF hasDependents
  <2>4. CASE j < i
    <3>1. j \in 1 .. k - 1 /\ j \in 1 .. n - 1 /\ old(j) = j
      BY <1>1, <2>1, <2>2, <2>4
    <3> QED
      BY <1>1, <2>2, <3>1
  <2>5. CASE j > i
    <3>1. j - 1 \in 1 .. k - 1 /\ j - 1 \in 1 .. n - 1 /\ old(j - 1) = j
      BY <1>1, <2>1, <2>2, <2>5
    <3> QED
      BY <1>1, <2>2, <3>1
  <2> QED
    BY <1>1, <2>2, <2>3, <2>4, <2>5
<1> QED
  BY <1>2, <1>3 DEF Linked

\* A plugin that is set keeps the ids apart.
LEMMA SetKeepsOthers ==
  ASSUME plugins \in Seq(Plugin), Unique, NEW p \in Plugin, plugins' = setPlugin(p)
  PROVE  /\ plugins' \in Seq(Plugin) /\ Unique' /\ isLoaded(idOf[p])'
         /\ \A id : isLoaded(id) => isLoaded(id)'
<1> DEFINE n == Len(plugins)
<1>1. plugins' \in Seq(Plugin) /\ n \in Nat /\ DOMAIN plugins = 1 .. n
  BY SetIsRight
<1>2. CASE isLoaded(idOf[p])
  <2>1. Len(plugins') = n /\ \A k \in 1 .. n : idOf[plugins'[k]] = idOf[plugins[k]]
    BY <1>2, SetIsRight
  <2>2. DOMAIN plugins' = 1 .. n
    BY <1>1, <2>1
  <2> HIDE DEF n
  <2> QED
    BY <1>1, <1>2, <2>1, <2>2 DEF Unique, isLoaded
<1>3. CASE ~isLoaded(idOf[p])
  <2>1. /\ Len(plugins') = n + 1 /\ plugins'[n + 1] = p
        /\ \A k \in 1 .. n : plugins'[k] = plugins[k]
    BY <1>3, SetIsRight
  <2>2. DOMAIN plugins' = 1 .. n + 1
    BY <1>1, <2>1
  <2> HIDE DEF n
  <2>3. \A k \in 1 .. n : k \in 1 .. n + 1 /\ idOf[plugins'[k]] # idOf[p]
    BY <1>1, <1>3, <2>1 DEF isLoaded
  <2>4. \A k \in 1 .. n + 1 : k \in 1 .. n \/ k = n + 1
    BY <1>1
  <2>5. Unique'
    <3>1. \A j, k \in 1 .. n : idOf[plugins'[j]] = idOf[plugins'[k]] => j = k
      BY <1>1, <2>1 DEF Unique
    <3> QED
      BY <2>1, <2>2, <2>3, <2>4, <3>1 DEF Unique
  <2>6. n + 1 \in 1 .. n + 1
    BY <1>1
  <2> QED
    BY <1>1, <2>1, <2>2, <2>3, <2>5, <2>6 DEF isLoaded
<1> QED
  BY <1>2, <1>3

\* One that goes last comes after what it depends on.
LEMMA SetKeepsLinked ==
  ASSUME plugins \in Seq(Plugin), Linked, NEW p \in Plugin, ~isLoaded(idOf[p]),
         \A d \in dependencies[p] : isLoaded(d), plugins' = setPlugin(p)
  PROVE  Linked'
<1> DEFINE n == Len(plugins)
<1>1. /\ plugins' \in Seq(Plugin) /\ n \in Nat /\ DOMAIN plugins = 1 .. n
      /\ Len(plugins') = n + 1 /\ plugins'[n + 1] = p
      /\ \A k \in 1 .. n : plugins'[k] = plugins[k]
  <2>1. plugins' = setPlugin(p) /\ n \in Nat /\ DOMAIN plugins = 1 .. n
    OBVIOUS
  <2>2. /\ setPlugin(p) \in Seq(Plugin)
        /\ Len(setPlugin(p)) = n + 1 /\ setPlugin(p)[n + 1] = p
        /\ \A k \in 1 .. n : setPlugin(p)[k] = plugins[k]
    BY SetIsRight
  <2> QED
    BY <2>1, <2>2
<1>2. DOMAIN plugins' = 1 .. n + 1
  BY <1>1
<1> HIDE DEF n
<1>3. ASSUME NEW k \in 1 .. n, NEW d \in dependencies[plugins[k]]
      PROVE  \E j \in 1 .. k - 1 : idOf[plugins'[j]] = d
  <2>1. PICK j \in 1 .. k - 1 : idOf[plugins[j]] = d
    BY <1>1 DEF Linked
  <2>2. j \in 1 .. n
    BY <1>1, <2>1
  <2> QED
    BY <1>1, <2>1, <2>2
<1>4. ASSUME NEW d \in dependencies[p]
      PROVE  \E j \in 1 .. (n + 1) - 1 : idOf[plugins'[j]] = d
  <2>1. PICK j \in 1 .. n : idOf[plugins[j]] = d
    BY <1>1 DEF isLoaded
  <2>2. (n + 1) - 1 = n
    BY <1>1
  <2> QED
    BY <1>1, <2>1, <2>2
<1>5. \A k \in 1 .. n + 1 : k \in 1 .. n \/ k = n + 1
  BY <1>1
<1> QED
  BY <1>1, <1>2, <1>3, <1>4, <1>5 DEF Linked

\* The awaited shutdown of a plugin has ended well: the call is about to go on.
LEMMA StoppedRight ==
  ASSUME TypeInv, Unique, NEW c \in PluginCall, pluginCall[c].pc = "stopping",
         NEW k \in CallType,
         k = [pluginCall[c] EXCEPT !.pc = "unloaded", !.held = NoPlugin],
         plugins' = dropPlugin(idOf[pluginCall[c].held]),
         pluginCall' = [pluginCall EXCEPT ![c] = k]
  PROVE  /\ CallTyped(k)
         /\ Linked /\ RecordOK(pluginCall[c]) => Linked' /\ RecordOK(pluginCall[c])'
<1> DEFINE rec == pluginCall[c]
           id == idOf[rec.held]
<1>1. /\ plugins \in Seq(Plugin) /\ rec \in CallType /\ CallTyped(rec) /\ rec.held \in Plugin
      /\ pluginCall'[c] = k
  BY OneCall DEF TypeInv, PluginsTypeOK, CallTyped, Working
<1>2. k.pc = "unloaded" /\ k.op = rec.op /\ k.todo = rec.todo /\ k.plugin = rec.plugin
  BY <1>1 DEF CallType
<1>3. CallTyped(k)
  BY <1>1, <1>2 DEF CallTyped, Working
<1>4. ASSUME Linked, RecordOK(rec)
      PROVE  Linked' /\ RecordOK(pluginCall[c])'
  <2>1. /\ isLoaded(id) /\ ~hasDependents(id) /\ (rec.op = "load" => id = idOf[rec.plugin])
    BY <1>4 DEF RecordOK, Stops
  <2>2. Linked'
    BY <1>1, <1>4, <2>1, DropKeepsLinked
  <2>3. PICK gone : gone = id
    OBVIOUS
  <2>4. Stops(pluginCall[c])'
    BY <1>1, <1>2 DEF Stops
  <2>5. Loads(pluginCall[c])'
    <3>1. ~isLoaded(gone)'
      BY <1>1, <2>3, DropKeepsOthers
    <3>2. \A j \in DOMAIN plugins' : idOf[plugins'[j]] # gone
      BY <3>1 DEF isLoaded
    <3>3. k.op = "load" => idOf[k.plugin] = gone
      BY <1>2, <2>1, <2>3
    <3> QED
      BY <1>1, <1>2, <3>2, <3>3 DEF Loads, isLoaded
  <2>6. ASSUME rec.op = "shutdown"
        PROVE  /\ TheFirst(pluginCall[c].todo)'
               /\ Len(plugins') = Len(rec.todo)
    <3> DEFINE n == Len(rec.todo)
               i == placeOf(id)
    <3>1. /\ TheFirst(rec.todo) /\ Len(plugins) = n + 1
          /\ id = idOf[plugins[Len(plugins)]]
      BY <1>4, <2>6 DEF RecordOK, Backwards, Working
    <3>2. /\ i \in 1 .. Len(plugins) /\ idOf[plugins[i]] = id
          /\ Len(plugins') = Len(plugins) - 1
          /\ \A j \in 1 .. Len(plugins') : plugins'[j] = plugins[IF j < i THEN j ELSE j + 1]
      BY <1>1, <2>1, DropIsRight
    <3>3. n \in Nat
      BY <1>1 DEF CallType
    <3> HIDE DEF n, i, id, rec
    <3>4. i = n + 1
      <4>1. n + 1 \in DOMAIN plugins /\ i \in DOMAIN plugins
        BY <1>1, <3>1, <3>2, <3>3
      <4> QED
        BY <3>1, <3>2, <4>1 DEF Unique
    <3>5. Len(plugins') = n /\ \A j \in 1 .. n : plugins'[j] = plugins[j]
      BY <3>1, <3>2, <3>3, <3>4
    <3>6. \A j \in 1 .. n : n + 1 - j \in 1 .. n /\ rec.todo[j] = idOf[plugins[n + 1 - j]]
      BY <3>1, <3>3 DEF TheFirst, n
    <3>7. \A j \in 1 .. n : rec.todo[j] = idOf[plugins'[n + 1 - j]]
      BY <3>5, <3>6
    <3>8. pluginCall'[c].todo = rec.todo
      BY <1>1, <1>2
    <3> QED
      BY <3>5, <3>7, <3>8 DEF TheFirst, n
  <2>7. Backwards(pluginCall[c])'
    BY <1>1, <1>2, <2>6 DEF Backwards
  <2> QED
    BY <2>2, <2>4, <2>5, <2>7 DEF RecordOK
<1> QED
  BY <1>3, <1>4

\* The successful ends of a plugin's own shutdown and initialize.
Stopped(c) ==
  LET rec == pluginCall[c]
  IN /\ rec.pc = "stopping"
     /\ handlers' = [handlers EXCEPT ![idOf[rec.held]] = 0]
     /\ plugins' = dropPlugin(idOf[rec.held])
     /\ pluginCall' = [pluginCall EXCEPT ![c] = [rec EXCEPT !.pc = "unloaded", !.held = NoPlugin]]
     /\ ownPoints' = ownPoints

Started(c) ==
  LET p == pluginCall[c].plugin
  IN /\ pluginCall[c].pc = "starting"
     /\ handlers' = [handlers EXCEPT ![idOf[p]] = @ + ownPoints[p]]
     /\ plugins' = setPlugin(p)
     /\ pluginCall' = [pluginCall EXCEPT ![c] = ended(pluginCall[c], "done")]
     /\ ownPoints' = ownPoints

\* Each step is one of these of one call, which has just started, was the one that
\* changes the manager, or is not now.
LEMMA WhoActs ==
  ASSUME TypeInv, PluginsNext
  PROVE  \E c \in PluginCall :
           /\ Keeps(c) \/ Stopped(c) \/ Started(c)
           /\ \/ startCall(c)
              \/ /\ pluginCalls' = pluginCalls /\ crossed' = crossed
                 /\ changing(c) \/ (Keeps(c) /\ pluginCall'[c].pc \notin Working)
<1>1. PICK c \in PluginCall :
        \/ \E p \in Plugin : LoadPlugin(c, p) \/ ReloadPlugin(c, p)
        \/ \E id \in PluginId : UnloadPlugin(c, id)
        \/ Shutdown(c)
        \/ InvokeExtensionPoint(c)
        \/ HandlerDone(c)
        \/ PluginStopped(c)
        \/ AfterUnload(c)
        \/ PluginStarted(c)
  BY DEF PluginsNext
<1>2. CASE \/ \E p \in Plugin : LoadPlugin(c, p) \/ ReloadPlugin(c, p)
           \/ \E id \in PluginId : UnloadPlugin(c, id)
           \/ Shutdown(c)
           \/ InvokeExtensionPoint(c)
  <2>1. startCall(c)
    BY <1>2 DEF LoadPlugin, ReloadPlugin, UnloadPlugin, Shutdown, InvokeExtensionPoint
  <2>2. Keeps(c)
    BY <1>2, LoadKeeps, ReloadKeeps, UnloadKeeps, ShutdownKeeps, InvokeKeeps
  <2> QED
    BY <2>1, <2>2
<1>3. CASE HandlerDone(c)
  <2>1. pluginCalls' = pluginCalls /\ crossed' = crossed
    BY <1>3 DEF HandlerDone
  <2> QED
    BY <1>3, <2>1, HandlerKeeps
<1>4. CASE PluginStopped(c)
  <2>1. pluginCalls' = pluginCalls /\ crossed' = crossed /\ changing(c)
    BY <1>4 DEF PluginStopped, changing
  <2>2. Stopped(c) \/ /\ pluginCall' = [pluginCall EXCEPT ![c] = ended(pluginCall[c], "rejected")]
                      /\ UNCHANGED <<plugins, handlers, ownPoints>>
    BY <1>4 DEF PluginStopped, Stopped
  <2> QED
    BY <2>1, <2>2, RejectKeeps
<1>5. CASE AfterUnload(c)
  <2>1. pluginCalls' = pluginCalls /\ crossed' = crossed /\ changing(c)
    BY <1>5 DEF AfterUnload, changing
  <2> QED
    BY <1>5, <2>1, AfterKeeps
<1>6. CASE PluginStarted(c)
  <2>1. pluginCalls' = pluginCalls /\ crossed' = crossed /\ changing(c)
    BY <1>6 DEF PluginStarted, changing
  <2>2. Started(c) \/ /\ pluginCall' = [pluginCall EXCEPT ![c] = ended(pluginCall[c], "rejected")]
                      /\ UNCHANGED <<plugins, handlers, ownPoints>>
    BY <1>6 DEF PluginStarted, Started
  <2> QED
    BY <2>1, <2>2, RejectKeeps
<1> QED
  BY <1>1, <1>2, <1>3, <1>4, <1>5, <1>6

------------------------------------------------------------------------------
(* Types, ids and handlers. *)

LEMMA CrossedStep ==
  ASSUME TypeInv, PluginsNext
  PROVE  crossed' \in BOOLEAN /\ pluginCalls' \in 0 .. MaxPluginCalls
<1>1. \E c \in PluginCall : startCall(c) \/ (pluginCalls' = pluginCalls /\ crossed' = crossed)
  BY WhoActs
<1>2. crossed \in BOOLEAN /\ pluginCalls \in 0 .. MaxPluginCalls
  BY DEF TypeInv, PluginsTypeOK
<1>3. ASSUME NEW c \in PluginCall, startCall(c)
      PROVE  crossed' \in BOOLEAN
  BY <1>3, Zenon DEF startCall
<1>4. crossed' = crossed => crossed' \in BOOLEAN
  BY <1>2, Zenon
<1>5. crossed' \in BOOLEAN
  BY <1>1, <1>3, <1>4, Zenon
<1>6. pluginCalls' \in 0 .. MaxPluginCalls
  BY <1>1, <1>2, PluginsAssumption DEF startCall
<1> QED
  BY <1>5, <1>6

\* Every step keeps the types, the ids apart, and the handlers with the Map.
LEMMA TypeStep ==
  ASSUME TypeInv, Unique, HandlersOfLoaded, [PluginsNext]_pluginVars
  PROVE  TypeInv' /\ Unique' /\ HandlersOfLoaded'
<1>1. /\ plugins \in Seq(Plugin) /\ handlers \in [PluginId -> Nat]
      /\ ownPoints \in [Plugin -> Nat] /\ pluginCall \in [PluginCall -> CallType]
      /\ \A c \in PluginCall : CallTyped(pluginCall[c])
  BY DEF TypeInv, PluginsTypeOK
<1>2. CASE UNCHANGED pluginVars
  BY <1>2 DEF pluginVars, TypeInv, PluginsTypeOK, CallTyped, Unique, HandlersOfLoaded, isLoaded
<1>3. CASE PluginsNext
  <2>1. crossed' \in BOOLEAN /\ pluginCalls' \in 0 .. MaxPluginCalls
    BY <1>3, CrossedStep
  <2>2. PICK c \in PluginCall : Keeps(c) \/ Stopped(c) \/ Started(c)
    BY <1>3, WhoActs
  <2>3. /\ plugins' \in Seq(Plugin) /\ handlers' \in [PluginId -> Nat]
        /\ ownPoints' \in [Plugin -> Nat] /\ pluginCall' \in [PluginCall -> CallType]
        /\ \A d \in PluginCall : CallTyped(pluginCall'[d])
        => TypeInv'
    BY <2>1 DEF TypeInv, PluginsTypeOK, CallTyped
  <2>4. ASSUME NEW k \in CallType, pluginCall' = [pluginCall EXCEPT ![c] = k], CallTyped(k)
        PROVE  /\ pluginCall' \in [PluginCall -> CallType]
               /\ \A d \in PluginCall : CallTyped(pluginCall'[d])
    BY <1>1, <2>4, OneCall
  <2>5. CASE Keeps(c)
    <3>1. TypeInv'
      BY <1>1, <2>3, <2>4, <2>5 DEF Keeps, Moved
    <3>2. Unique' /\ HandlersOfLoaded'
      BY <2>5 DEF Keeps, Unique, HandlersOfLoaded, isLoaded, noHandlers
    <3> QED
      BY <3>1, <3>2
  <2>6. CASE Stopped(c)
    <3>1. PICK id : id = idOf[pluginCall[c].held]
      OBVIOUS
    <3>2. PICK k \in CallType : k = [pluginCall[c] EXCEPT !.pc = "unloaded", !.held = NoPlugin]
      BY <1>1 DEF CallType
    <3>3. /\ plugins' \in Seq(Plugin) /\ Unique' /\ plugins' = dropPlugin(id)
          /\ \A other : other # id => (isLoaded(other)' <=> isLoaded(other))
      BY <1>1, <2>6, <3>1, DropKeepsOthers DEF Stopped
    <3>4. pluginCall' = [pluginCall EXCEPT ![c] = k] /\ CallTyped(k)
      BY <2>6, <3>2, StoppedRight DEF Stopped
    <3>5. handlers' = [handlers EXCEPT ![id] = 0] /\ ownPoints' = ownPoints
      BY <2>6, <3>1 DEF Stopped
    <3>6. TypeInv'
      BY <1>1, <2>3, <2>4, <3>3, <3>4, <3>5
    <3>7. HandlersOfLoaded'
      BY <1>1, <3>3, <3>5 DEF HandlersOfLoaded
    <3> QED
      BY <3>3, <3>6, <3>7
  <2>7. CASE Started(c)
    <3>1. PICK p \in Plugin : p = pluginCall[c].plugin
      BY <1>1, <2>7 DEF Started, CallTyped, Working
    <3>2. PICK k \in CallType : /\ k = ended(pluginCall[c], "done") /\ k.pc = "idle"
      BY <1>1, EndedFields DEF Outcome
    <3>3. /\ plugins' \in Seq(Plugin) /\ Unique' /\ isLoaded(idOf[p])'
          /\ \A id : isLoaded(id) => isLoaded(id)'
      BY <1>1, <2>7, <3>1, SetKeepsOthers DEF Started
    <3>4. pluginCall' = [pluginCall EXCEPT ![c] = k] /\ CallTyped(k)
      BY <2>7, <3>2 DEF Started, CallTyped, Working
    <3>5. /\ handlers' = [handlers EXCEPT ![idOf[p]] = @ + ownPoints[p]]
          /\ ownPoints' = ownPoints /\ idOf[p] \in PluginId /\ ownPoints[p] \in Nat
      BY <1>1, <2>7, <3>1, PluginsAssumption DEF Started
    <3>6. TypeInv'
      BY <1>1, <2>3, <2>4, <3>3, <3>4, <3>5
    <3>7. HandlersOfLoaded'
      BY <1>1, <3>3, <3>5 DEF HandlersOfLoaded
    <3> QED
      BY <3>3, <3>6, <3>7
  <2> QED
    BY <2>2, <2>5, <2>6, <2>7
<1> QED
  BY <1>2, <1>3

\* Nothing is loaded and nothing called at first.
LEMMA InitRight ==
  ASSUME PluginsInit
  PROVE  IInv
<1>1. crossed \in BOOLEAN
  BY Zenon DEF PluginsInit
<1>2. pluginCalls \in 0 .. MaxPluginCalls /\ plugins = <<>> /\ DOMAIN plugins = {}
  BY PluginsAssumption DEF PluginsInit
<1>3. handlers \in [PluginId -> Nat] /\ ownPoints \in [Plugin -> Nat]
  BY DEF PluginsInit, noHandlers
<1>4. /\ pluginCall \in [PluginCall -> CallType]
      /\ \A c \in PluginCall : pluginCall[c].pc = "idle"
  BY NoCallFields DEF PluginsInit
<1>5. TypeInv
  BY <1>1, <1>2, <1>3, <1>4 DEF TypeInv, PluginsTypeOK, CallTyped, Working
<1>6. Unique /\ HandlersOfLoaded
  BY <1>2 DEF PluginsInit, Unique, HandlersOfLoaded, noHandlers
<1>7. Serial
  BY <1>2, <1>4 DEF Serial, Sole, changing, Linked, RecordOK, Stops, Loads, Backwards, Working
<1> QED
  BY <1>5, <1>6, <1>7 DEF IInv

------------------------------------------------------------------------------
(* Calls that do not overlap. *)

\* The call that acts when calls do not overlap: it is the only one that changes the
\* manager, or does not change it.
LEMMA ActsAlone ==
  ASSUME IInv, NEW c \in PluginCall, ~crossed',
         \/ startCall(c)
         \/ crossed' = crossed /\ (changing(c) \/ pluginCall'[c].pc \notin Working)
  PROVE  /\ ~crossed /\ Sole /\ Linked
         /\ \A d \in PluginCall : RecordOK(pluginCall[d])
         /\ pluginCall'[c].pc \in Working => \A d \in PluginCall : d # c => ~changing(d)
<1>1. ~crossed /\ (startCall(c) => \A d \in PluginCall : ~changing(d))
  <2>1. startCall(c) => ~crossed /\ \A d \in PluginCall : ~changing(d)
    <3>1. startCall(c) => (crossed' <=> crossed \/ \E d \in PluginCall : changing(d))
      BY Zenon DEF startCall
    <3> QED
      BY <3>1, Zenon
  <2>2. crossed' = crossed => ~crossed
    OBVIOUS
  <2>3. startCall(c) \/ crossed' = crossed
    BY Zenon
  <2> QED
    BY <2>1, <2>2, <2>3, Zenon
<1>2. Sole /\ Linked /\ \A d \in PluginCall : RecordOK(pluginCall[d])
  BY <1>1 DEF IInv, Serial
<1>3. pluginCall'[c].pc \in Working => \A d \in PluginCall : d # c => ~changing(d)
  BY <1>1, <1>2 DEF Sole
<1> QED
  BY <1>1, <1>2, <1>3

LEMMA SoleStep ==
  ASSUME Sole, NEW c \in PluginCall,
         \A d \in PluginCall : d # c => pluginCall'[d] = pluginCall[d],
         pluginCall'[c].pc \in Working => \A d \in PluginCall : d # c => ~changing(d)
  PROVE  Sole'
  BY DEF Sole, changing, Working

\* Every step keeps what calls that do not overlap keep.
LEMMA SerialStep ==
  ASSUME IInv, [PluginsNext]_pluginVars
  PROVE  Serial'
<1>1. SUFFICES ASSUME ~crossed' PROVE Serial'
  BY DEF Serial
<1>2. CASE UNCHANGED pluginVars
  BY <1>1, <1>2 DEF pluginVars, IInv, Serial, Sole, changing, Linked, RecordOK, Stops, Loads,
     Backwards, TheFirst, isLoaded, hasDependents
<1>3. CASE PluginsNext
  <2>0. TypeInv /\ Unique /\ plugins \in Seq(Plugin) /\ pluginCall \in [PluginCall -> CallType]
    BY DEF IInv, TypeInv, PluginsTypeOK
  <2>1. PICK c \in PluginCall :
          /\ Keeps(c) \/ Stopped(c) \/ Started(c)
          /\ \/ startCall(c)
             \/ /\ pluginCalls' = pluginCalls /\ crossed' = crossed
                /\ changing(c) \/ (Keeps(c) /\ pluginCall'[c].pc \notin Working)
    BY <1>3, <2>0, WhoActs
  <2>2. /\ ~crossed /\ Sole /\ Linked
        /\ \A d \in PluginCall : RecordOK(pluginCall[d])
        /\ pluginCall'[c].pc \in Working => \A d \in PluginCall : d # c => ~changing(d)
    BY <1>1, <2>1, ActsAlone
  <2>3. \E k \in CallType : pluginCall' = [pluginCall EXCEPT ![c] = k]
    <3>1. CASE Keeps(c)
      BY <3>1 DEF Keeps, Moved
    <3>2. CASE Stopped(c)
      BY <2>0, <3>2 DEF Stopped, CallType
    <3>3. CASE Started(c)
      BY <2>0, <3>3, EndedFields DEF Started, Outcome
    <3> QED
      BY <2>1, <3>1, <3>2, <3>3
  <2>4. \A d \in PluginCall : d # c => pluginCall'[d] = pluginCall[d]
    BY <2>0, <2>3, OneCall
  <2>5. Sole'
    BY <2>2, <2>4, SoleStep
  <2>6. CASE Keeps(c)
    <3>1. PICK k \in CallType : pluginCall' = [pluginCall EXCEPT ![c] = k] /\ RecordOK(k)
      BY <2>0, <2>2, <2>6 DEF Keeps, Moved, Right
    <3>2. pluginCall'[c] = k
      BY <2>0, <3>1, OneCall
    <3>3. \A d \in PluginCall : RecordOK(pluginCall'[d])
      BY <2>2, <2>4, <3>1, <3>2
    <3>4. \A d \in PluginCall : RecordOK(pluginCall[d])'
      BY <2>6, <3>3 DEF Keeps, RecordOK, Stops, Loads, Backwards, TheFirst, isLoaded, hasDependents
    <3>5. Linked'
      BY <2>2, <2>6 DEF Keeps, Linked
    <3> QED
      BY <2>5, <3>4, <3>5 DEF Serial
  <2>7. ASSUME changing(c), Linked' /\ RecordOK(pluginCall[c])'
        PROVE  Serial'
    <3>1. \A d \in PluginCall : d # c => pluginCall'[d].pc \notin Working
      BY <2>2, <2>4, <2>7 DEF Sole, changing, Working
    <3>2. \A d \in PluginCall : d # c => RecordOK(pluginCall[d])'
      BY <3>1 DEF RecordOK, Stops, Loads, Backwards, Working
    <3> QED
      BY <2>5, <2>7, <3>2 DEF Serial
  <2>8. CASE Stopped(c)
    <3>1. PICK k \in CallType : k = [pluginCall[c] EXCEPT !.pc = "unloaded", !.held = NoPlugin]
      BY <2>0 DEF CallType
    <3>2. Linked' /\ RecordOK(pluginCall[c])'
      BY <2>0, <2>2, <2>8, <3>1, StoppedRight DEF Stopped
    <3> QED
      BY <2>7, <2>8, <3>2 DEF Stopped, changing
  <2>9. CASE Started(c)
    <3>1. PICK p \in Plugin : p = pluginCall[c].plugin
      BY <2>9 DEF Started, IInv, TypeInv, CallTyped, Working
    <3>2. ~isLoaded(idOf[p]) /\ \A d \in dependencies[p] : isLoaded(d)
      BY <2>2, <2>9, <3>1 DEF Started, RecordOK, Loads
    <3>3. Linked'
      BY <2>0, <2>2, <2>9, <3>1, <3>2, SetKeepsLinked DEF Started
    <3>4. pluginCall'[c].pc = "idle"
      BY <2>0, <2>9, EndedFields, OneCall DEF Started, Outcome
    <3>5. RecordOK(pluginCall[c])'
      BY <3>4 DEF RecordOK, Stops, Loads, Backwards, Working
    <3> QED
      BY <2>7, <2>9, <3>3, <3>5 DEF Started, changing
  <2> QED
    BY <2>1, <2>6, <2>8, <2>9
<1> QED
  BY <1>2, <1>3

LEMMA Inductive ==
  ASSUME IInv, [PluginsNext]_pluginVars
  PROVE  IInv'
  BY TypeStep, SerialStep DEF IInv

\* A step in which a shutdown ends, when calls do not overlap.
LEMMA EmptiesStep ==
  ASSUME IInv, [PluginsNext]_pluginVars, NEW d \in PluginCall,
         pluginCall'[d] # pluginCall[d],
         pluginCall'[d].op = "shutdown", pluginCall'[d].pc = "idle", ~crossed'
  PROVE  /\ pluginCall'[d].outcome # "dependents"
         /\ pluginCall'[d].outcome = "done" => plugins' = <<>>
<1>0. /\ TypeInv /\ Unique /\ pluginCall \in [PluginCall -> CallType]
      /\ \A c \in PluginCall : CallTyped(pluginCall[c])
  BY DEF IInv, TypeInv, PluginsTypeOK
<1>1. PluginsNext
  BY DEF pluginVars
<1>2. PICK c \in PluginCall :
        /\ Keeps(c) \/ Stopped(c) \/ Started(c)
        /\ \/ startCall(c)
           \/ /\ pluginCalls' = pluginCalls /\ crossed' = crossed
              /\ changing(c) \/ (Keeps(c) /\ pluginCall'[c].pc \notin Working)
  BY <1>0, <1>1, WhoActs
<1>3. Linked /\ \A e \in PluginCall : RecordOK(pluginCall[e])
  BY <1>2, ActsAlone
<1>4. CASE Keeps(c)
  <2>1. PICK k \in CallType : pluginCall' = [pluginCall EXCEPT ![c] = k] /\ Empties(k)
    BY <1>0, <1>3, <1>4 DEF Keeps, Moved, Right
  <2>2. pluginCall'[c] = k /\ d = c
    BY <1>0, <2>1, OneCall
  <2> QED
    BY <1>4, <2>1, <2>2 DEF Keeps, Empties
<1>5. CASE Stopped(c)
  <2>1. PICK k \in CallType : k = [pluginCall[c] EXCEPT !.pc = "unloaded", !.held = NoPlugin]
    BY <1>0 DEF CallType
  <2>2. pluginCall' = [pluginCall EXCEPT ![c] = k] /\ k.pc = "unloaded"
    BY <1>0, <1>5, <2>1 DEF Stopped, CallType
  <2>3. pluginCall'[c] = k /\ d = c
    BY <1>0, <2>2, OneCall
  <2> QED
    BY <2>2, <2>3
<1>6. CASE Started(c)
  <2>1. PICK k \in CallType : k = ended(pluginCall[c], "done") /\ k.op = pluginCall[c].op
    BY <1>0, EndedFields DEF Outcome
  <2>2. pluginCall' = [pluginCall EXCEPT ![c] = k] /\ pluginCall[c].op = "load"
    BY <1>0, <1>6, <2>1 DEF Started, CallTyped, Working
  <2>3. pluginCall'[c] = k /\ d = c
    BY <1>0, <2>2, OneCall
  <2> QED
    BY <2>1, <2>2, <2>3
<1> QED
  BY <1>2, <1>4, <1>5, <1>6

------------------------------------------------------------------------------
(* The theorems. *)

LEMMA Invariant == PluginsSpec => []IInv
<1>1. PluginsInit => IInv
  BY InitRight
<1>2. IInv /\ [PluginsNext]_pluginVars => IInv'
  BY Inductive
<1> QED
  BY <1>1, <1>2, PTL DEF PluginsSpec

\* Every variable has its type.
THEOREM PluginsTypeCorrect == PluginsSpec => []PluginsTypeOK
<1>1. IInv => PluginsTypeOK
  BY DEF IInv, TypeInv
<1> QED
  BY <1>1, Invariant, PTL

\* Whatever calls overlap, a handler belongs to a loaded plugin; and while they do not,
\* a plugin comes after what it depends on (loadPlugin, unloadPlugin).
THEOREM LinkedCorrect == PluginsSpec => []PluginsLinked
<1>1. IInv => PluginsLinked
  BY DEF IInv, Serial, Linked, PluginsLinked, DependenciesFirst
<1> QED
  BY <1>1, Invariant, PTL

\* While calls do not overlap, a shutdown is not stopped by a dependent, and one that
\* ends well leaves no plugin (shutdown).
THEOREM ShutdownCorrect == PluginsSpec => ShutdownEmpties
<1> DEFINE Step == \A c \in PluginCall :
                     /\ pluginCall'[c] # pluginCall[c]
                     /\ pluginCall'[c].op = "shutdown" /\ pluginCall'[c].pc = "idle"
                     /\ ~crossed'
                     => /\ pluginCall'[c].outcome # "dependents"
                        /\ pluginCall'[c].outcome = "done" => plugins' = <<>>
<1>1. IInv /\ [PluginsNext]_pluginVars => [Step]_pluginVars
  BY EmptiesStep
<1> QED
  BY <1>1, Invariant, PTL DEF PluginsSpec, ShutdownEmpties

------------------------------------------------------------------------------
(* Memory. *)

busy(c) == memoryCall[c].pc # "idle"
writing(c) == memoryCall[c].pc \in {"storing", "updating"}

\* A call under way has a memory and its id.
CallsTyped ==
  \A c \in MemoryCall : busy(c) =>
    memoryCall[c].id \in MemoryId /\ memoryCall[c].memory \in MemoryRecord

MemoryTypeInv == MemoryTypeOK /\ CallsTyped

Alone == \A c, d \in MemoryCall : busy(c) /\ busy(d) => c = d
Fetched == \A c \in MemoryCall : memoryCall[c].pc = "fetched" => has(sqlite, memoryCall[c].id)
Written ==
  \A c \in MemoryCall : writing(c) /\ memoryCall[c].id \notin unembedded =>
    /\ sqlite[memoryCall[c].id] = memoryCall[c].memory
    /\ memoryCall[c].pc = "updating" => has(vector, memoryCall[c].id)
Same ==
  \A id \in MemoryId \ unembedded :
    \/ sqlite[id] = vector[id]
    \/ \E c \in MemoryCall : writing(c) /\ memoryCall[c].id = id

\* What calls that do not overlap keep.
MemorySerial == ~mixed => Alone /\ Fetched /\ Written /\ Same

\* Either store holds finitely many memories.
heldIn(store) == {id \in MemoryId : has(store, id)}
Finite == IsFiniteSet(heldIn(sqlite)) /\ IsFiniteSet(heldIn(vector))

MemoryIInv == MemoryTypeInv /\ MemorySerial /\ Finite

Call == [pc : {"idle", "storing", "embedding", "fetched", "updating"},
         id : MemoryId \cup {NoMemory}, memory : MemoryOrNone]

------------------------------------------------------------------------------
(* Types. *)

\* What a call becomes when it waits, with its memory, and when it ends.
LEMMA CallTypes ==
  /\ idle \in Call /\ idle.pc = "idle"
  /\ \A pc \in {"storing", "embedding", "fetched", "updating"}, id \in MemoryId, m \in MemoryRecord :
       /\ [pc |-> pc, id |-> id, memory |-> m] \in Call
  BY DEF idle, Call, MemoryOrNone

\* A call that changes keeps the calls typed.
LEMMA MemoryOneCall ==
  ASSUME MemoryTypeInv, NEW c \in MemoryCall, NEW k \in Call,
         k.pc # "idle" => k.id \in MemoryId /\ k.memory \in MemoryRecord,
         memoryCall' = [memoryCall EXCEPT ![c] = k]
  PROVE  /\ memoryCall' \in [MemoryCall -> Call]
         /\ CallsTyped'
         /\ memoryCall'[c] = k
         /\ \A d \in MemoryCall : d # c => memoryCall'[d] = memoryCall[d]
<1>1. memoryCall \in [MemoryCall -> Call]
  BY DEF MemoryTypeInv, MemoryTypeOK, Call
<1>2. /\ memoryCall' \in [MemoryCall -> Call]
      /\ memoryCall'[c] = k
      /\ \A d \in MemoryCall : d # c => memoryCall'[d] = memoryCall[d]
  BY <1>1
<1> QED
  BY <1>2 DEF MemoryTypeInv, CallsTyped, busy

\* The version of a memory written now.
LEMMA Version ==
  ASSUME MemoryTypeInv, NEW c \in MemoryCall, startMemoryCall(c)
  PROVE  /\ memoryOps' \in 0 .. MaxMemoryOps
         /\ mixed' \in BOOLEAN
         /\ memoryCall[c].pc = "idle"
         /\ ~mixed' => ~mixed /\ \A d \in MemoryCall : ~busy(d)
<1>1. memoryOps' \in 0 .. MaxMemoryOps
  BY MemoryAssumption DEF MemoryTypeInv, MemoryTypeOK, startMemoryCall
<1>2. mixed' \in BOOLEAN
  BY Zenon DEF MemoryTypeInv, MemoryTypeOK, startMemoryCall
<1>3. ~mixed' => ~mixed /\ \A d \in MemoryCall : ~busy(d)
  BY Zenon DEF startMemoryCall, busy
<1> QED
  BY <1>1, <1>2, <1>3 DEF startMemoryCall

\* What the first write leaves.
LEMMA WriteFirstTypes ==
  ASSUME MemoryTypeInv, NEW c \in MemoryCall, NEW id \in MemoryId, NEW m \in MemoryRecord,
         NEW pc \in {"storing", "updating"}, NEW first \in [MemoryId -> MemoryOrNone],
         writeFirst(c, id, m, pc, first)
  PROVE  /\ sqlite' \in [MemoryId -> MemoryOrNone]
         /\ memoryCall' \in [MemoryCall -> Call]
         /\ CallsTyped'
         /\ unembedded' \subseteq MemoryId
         /\ m.embedded => /\ memoryCall'[c].pc = pc /\ memoryCall'[c].id = id
                          /\ memoryCall'[c].memory = m
         /\ ~m.embedded => memoryCall'[c].pc = "idle"
         /\ \A d \in MemoryCall : d # c => memoryCall'[d] = memoryCall[d]
<1> DEFINE k == IF m.embedded THEN [pc |-> pc, id |-> id, memory |-> m] ELSE idle
<1>1. k \in Call
  BY CallTypes
<1>2. k.pc # "idle" => k.id \in MemoryId /\ k.memory \in MemoryRecord
  BY CallTypes
<1>3. memoryCall' = [memoryCall EXCEPT ![c] = k]
  BY DEF writeFirst
<1>4. sqlite' \in [MemoryId -> MemoryOrNone] /\ unembedded' \subseteq MemoryId
  BY DEF writeFirst, MemoryTypeInv, MemoryTypeOK
<1>5. /\ m.embedded => k.pc = pc /\ k.id = id /\ k.memory = m
      /\ ~m.embedded => k.pc = "idle"
  BY CallTypes
<1> HIDE DEF k
<1> QED
  BY <1>1, <1>2, <1>3, <1>4, <1>5, MemoryOneCall

LEMMA StoreTypes ==
  ASSUME MemoryTypeInv, NEW id \in MemoryId, NEW m \in MemoryRecord
  PROVE  /\ stored(sqlite, id, m) \in [MemoryId -> MemoryOrNone]
         /\ updated(sqlite, id, m) \in [MemoryId -> MemoryOrNone]
         /\ stored(vector, id, m) \in [MemoryId -> MemoryOrNone]
         /\ updated(vector, id, m) \in [MemoryId -> MemoryOrNone]
  BY DEF MemoryTypeInv, MemoryTypeOK, MemoryOrNone, stored, updated

\* The memory an update writes is the stored one with other fields, and so is the one
\* that a mark writes.
LEMMA Changed ==
  ASSUME MemoryTypeInv, NEW id \in MemoryId, has(sqlite, id), NEW v \in 0 .. MaxMemoryOps,
         NEW e \in BOOLEAN
  PROVE  [sqlite[id] EXCEPT !.version = v, !.embedded = e] \in MemoryRecord
<1>1. sqlite[id] \in MemoryRecord
  BY DEF MemoryTypeInv, MemoryTypeOK, MemoryOrNone, has
<1> QED
  BY <1>1 DEF MemoryRecord

LEMMA Marked ==
  ASSUME MemoryTypeInv, NEW id \in MemoryId, has(sqlite, id)
  PROVE  [sqlite[id] EXCEPT !.fixed = TRUE] \in MemoryRecord
<1>1. sqlite[id] \in MemoryRecord
  BY DEF MemoryTypeInv, MemoryTypeOK, MemoryOrNone, has
<1> QED
  BY <1>1 DEF MemoryRecord

\* A new memory, a finding's included.
LEMMA Fresh ==
  ASSUME NEW v \in 0 .. MaxMemoryOps, NEW owner \in Owner, NEW e \in BOOLEAN, NEW f \in BOOLEAN
  PROVE  [owner |-> owner, version |-> v, embedded |-> e, fixed |-> f] \in MemoryRecord
  BY DEF MemoryRecord

\* Removing from both stores leaves everything typed.
LEMMA RemoveTypes ==
  ASSUME MemoryTypeInv, NEW fromSqlite, NEW fromVector, removeBoth(fromSqlite, fromVector)
  PROVE  /\ sqlite' \in [MemoryId -> MemoryOrNone]
         /\ vector' \in [MemoryId -> MemoryOrNone]
         /\ unembedded' \subseteq MemoryId
         /\ memoryCall' = memoryCall
  BY DEF MemoryTypeInv, MemoryTypeOK, MemoryOrNone, removeBoth, without

\* A step starts a call, or leaves the history of overlaps alone.
LEMMA MixedStep ==
  ASSUME mixed \in BOOLEAN, [MemoryNext]_memoryVars
  PROVE  mixed' \in BOOLEAN
<1>1. (\E c \in MemoryCall : startMemoryCall(c)) \/ mixed' = mixed
  BY Zenon DEF MemoryNext, memoryVars, Store, Update, Delete, RecordFinding, MarkFixed,
               ClearAgent, Close, WriteSecond, FindingEmbedded, FixedFetched
<1>2. ASSUME NEW c \in MemoryCall, startMemoryCall(c)
      PROVE  mixed' \in BOOLEAN
  BY <1>2, Zenon DEF startMemoryCall
<1>3. mixed' = mixed => mixed' \in BOOLEAN
  BY Zenon
<1> QED
  BY <1>1, <1>2, <1>3, Zenon

\* Every step keeps the types.
LEMMA MemoryTypeStep ==
  ASSUME MemoryTypeInv, [MemoryNext]_memoryVars
  PROVE  MemoryTypeInv'
<1>1. /\ sqlite \in [MemoryId -> MemoryOrNone]
      /\ vector \in [MemoryId -> MemoryOrNone]
      /\ memoryCall \in [MemoryCall -> Call]
      /\ memoryOps \in 0 .. MaxMemoryOps
      /\ unembedded \subseteq MemoryId
      /\ CallsTyped
  BY DEF MemoryTypeInv, MemoryTypeOK, Call
<1>2. /\ sqlite' \in [MemoryId -> MemoryOrNone]
      /\ vector' \in [MemoryId -> MemoryOrNone]
      /\ memoryCall' \in [MemoryCall -> Call]
      /\ memoryOps' \in 0 .. MaxMemoryOps
      /\ unembedded' \subseteq MemoryId
      /\ CallsTyped'
      => MemoryTypeInv'
  BY MixedStep DEF MemoryTypeInv, MemoryTypeOK, Call
<1>3. ASSUME NEW c \in MemoryCall, startMemoryCall(c)
      PROVE  memoryOps' \in 0 .. MaxMemoryOps
  BY <1>3, Version
<1>4. ASSUME NEW c \in MemoryCall, NEW id \in MemoryId, NEW owner \in Owner,
             NEW embedded \in BOOLEAN, Store(c, id, owner, embedded)
      PROVE  MemoryTypeInv'
  <2> DEFINE m == [owner |-> owner, version |-> memoryOps', embedded |-> embedded, fixed |-> FALSE]
  <2>1. m \in MemoryRecord
    BY <1>3, <1>4, Fresh DEF Store
  <2>2. writeFirst(c, id, m, "storing", stored(sqlite, id, m)) /\ vector' = vector
    BY <1>4 DEF Store
  <2> HIDE DEF m
  <2> QED
    BY <1>1, <1>2, <1>3, <1>4, <2>1, <2>2, StoreTypes, WriteFirstTypes DEF Store
<1>5. ASSUME NEW c \in MemoryCall, NEW id \in MemoryId, NEW embedded \in BOOLEAN,
             Update(c, id, embedded)
      PROVE  MemoryTypeInv'
  <2> DEFINE m == [sqlite[id] EXCEPT !.version = memoryOps', !.embedded = embedded]
  <2>1. m \in MemoryRecord
    BY <1>3, <1>5, Changed DEF Update
  <2>2. writeFirst(c, id, m, "updating", updated(sqlite, id, m)) /\ vector' = vector
    BY <1>5 DEF Update
  <2> HIDE DEF m
  <2> QED
    BY <1>1, <1>2, <1>3, <1>5, <2>1, <2>2, StoreTypes, WriteFirstTypes DEF Update
<1>6. ASSUME NEW c \in MemoryCall, NEW fromSqlite, NEW fromVector,
             startMemoryCall(c), removeBoth(fromSqlite, fromVector)
      PROVE  MemoryTypeInv'
  <2>1. CallsTyped'
    BY <1>1, <1>6, RemoveTypes DEF CallsTyped, busy
  <2> QED
    BY <1>1, <1>2, <1>3, <1>6, <2>1, RemoveTypes
<1>7. ASSUME NEW c \in MemoryCall, NEW id \in MemoryId, RecordFinding(c, id)
      PROVE  MemoryTypeInv'
  <2> DEFINE m == [owner |-> Learning, version |-> memoryOps', embedded |-> TRUE, fixed |-> FALSE]
             k == [pc |-> "embedding", id |-> id, memory |-> m]
  <2>1. m \in MemoryRecord
    BY <1>3, <1>7, Fresh, MemoryAssumption DEF RecordFinding
  <2>2. memoryCall' = [memoryCall EXCEPT ![c] = k] /\ UNCHANGED <<sqlite, vector, unembedded>>
    BY <1>7 DEF RecordFinding
  <2> HIDE DEF m
  <2>3. k \in Call /\ k.id \in MemoryId /\ k.memory \in MemoryRecord
    BY <2>1, CallTypes
  <2> HIDE DEF k
  <2>4. memoryCall' \in [MemoryCall -> Call] /\ CallsTyped'
    BY <2>2, <2>3, MemoryOneCall
  <2> QED
    BY <1>1, <1>2, <1>3, <1>7, <2>2, <2>4 DEF RecordFinding
<1>8. ASSUME NEW c \in MemoryCall, NEW id \in MemoryId, MarkFixed(c, id)
      PROVE  MemoryTypeInv'
  <2> DEFINE m == [sqlite[id] EXCEPT !.fixed = TRUE]
             k == IF has(sqlite, id) THEN [pc |-> "fetched", id |-> id, memory |-> m] ELSE idle
  <2>1. has(sqlite, id) => m \in MemoryRecord
    BY Marked
  <2>2. memoryCall' = [memoryCall EXCEPT ![c] = k] /\ UNCHANGED <<sqlite, vector, unembedded>>
    BY <1>8 DEF MarkFixed
  <2> HIDE DEF m
  <2>3. k \in Call /\ (k.pc # "idle" => k.id \in MemoryId /\ k.memory \in MemoryRecord)
    BY <2>1, CallTypes
  <2> HIDE DEF k
  <2>4. memoryCall' \in [MemoryCall -> Call] /\ CallsTyped'
    BY <2>2, <2>3, MemoryOneCall
  <2> QED
    BY <1>1, <1>2, <1>3, <1>8, <2>2, <2>4 DEF MarkFixed
<1>9. ASSUME NEW c \in MemoryCall, WriteSecond(c)
      PROVE  MemoryTypeInv'
  <2>1. memoryCall[c].id \in MemoryId /\ memoryCall[c].memory \in MemoryRecord
    BY <1>1, <1>9 DEF WriteSecond, CallsTyped, busy
  <2>2. vector' \in [MemoryId -> MemoryOrNone]
    BY <1>9, <2>1, StoreTypes DEF WriteSecond
  <2>3. memoryCall' \in [MemoryCall -> Call] /\ CallsTyped'
    BY <1>9, CallTypes, MemoryOneCall DEF WriteSecond
  <2> QED
    BY <1>1, <1>2, <1>9, <2>2, <2>3 DEF WriteSecond
<1>10. ASSUME NEW c \in MemoryCall, FindingEmbedded(c) \/ FixedFetched(c)
       PROVE  MemoryTypeInv'
  <2> DEFINE id == memoryCall[c].id
             m == memoryCall[c].memory
  <2>1. id \in MemoryId /\ m \in MemoryRecord
    BY <1>1, <1>10 DEF FindingEmbedded, FixedFetched, CallsTyped, busy
  <2>2. /\ vector' = vector /\ memoryOps' = memoryOps /\ mixed' = mixed
        /\ \/ writeFirst(c, id, m, "storing", stored(sqlite, id, m))
           \/ writeFirst(c, id, m, "updating", updated(sqlite, id, m))
    BY <1>10 DEF FindingEmbedded, FixedFetched
  <2> HIDE DEF id, m
  <2> QED
    BY <1>1, <1>2, <2>1, <2>2, StoreTypes, WriteFirstTypes
<1>11. CASE UNCHANGED memoryVars
  BY <1>1, <1>2, <1>11 DEF memoryVars, CallsTyped, busy
<1> QED
  BY <1>4, <1>5, <1>6, <1>7, <1>8, <1>9, <1>10, <1>11
  DEF MemoryNext, Delete, ClearAgent, Close

LEMMA InitTypes ==
  ASSUME MemoryInit
  PROVE  MemoryTypeInv
<1>1. mixed \in BOOLEAN
  BY Zenon DEF MemoryInit
<1>2. /\ sqlite \in [MemoryId -> MemoryOrNone]
      /\ vector \in [MemoryId -> MemoryOrNone]
      /\ memoryCall \in [MemoryCall -> Call] /\ CallsTyped
  BY CallTypes DEF MemoryInit, MemoryOrNone, CallsTyped, busy
<1>3. memoryOps \in 0 .. MaxMemoryOps /\ unembedded \subseteq MemoryId
  BY MemoryAssumption DEF MemoryInit
<1> QED
  BY <1>1, <1>2, <1>3 DEF MemoryTypeInv, MemoryTypeOK, Call

\* Every variable has its type.
THEOREM MemoryTypeCorrect == MemorySpec => []MemoryTypeOK
<1>1. MemoryInit => MemoryTypeInv
  BY InitTypes
<1>2. MemoryTypeInv /\ [MemoryNext]_memoryVars => MemoryTypeInv'
  BY MemoryTypeStep
<1>3. MemoryTypeInv => MemoryTypeOK
  BY DEF MemoryTypeInv
<1> QED
  BY <1>1, <1>2, <1>3, PTL DEF MemorySpec

------------------------------------------------------------------------------
(* Calls that do not overlap. *)

\* When no call is under way, the stores agree but for the unembedded.
LEMMA Rest ==
  ASSUME MemorySerial, ~mixed, NEW c \in MemoryCall, ~writing(c),
         \A d \in MemoryCall : d # c => ~busy(d)
  PROVE  \A id \in MemoryId \ unembedded : sqlite[id] = vector[id]
  BY DEF MemorySerial, Same, writing, busy

\* A call that starts is the only one, and finds the stores at rest.
LEMMA Starts ==
  ASSUME MemoryTypeInv, MemorySerial, NEW c \in MemoryCall, startMemoryCall(c), ~mixed'
  PROVE  /\ ~mixed
         /\ \A d \in MemoryCall : ~busy(d)
         /\ \A id \in MemoryId \ unembedded : sqlite[id] = vector[id]
<1>1. ~mixed /\ \A d \in MemoryCall : ~busy(d)
  BY Version
<1>2. ~writing(c)
  BY <1>1 DEF writing, busy
<1> QED
  BY <1>1, <1>2, Rest

\* The call that acts is the only one under way.
LEMMA Only ==
  ASSUME MemorySerial, ~mixed, NEW c \in MemoryCall, busy(c)
  PROVE  \A d \in MemoryCall : d # c => ~busy(d)
  BY DEF MemorySerial, Alone

\* The first write, by the only call, with the stores at rest.
LEMMA FirstSerial ==
  ASSUME MemoryTypeInv, NEW c \in MemoryCall, NEW id \in MemoryId, NEW m \in MemoryRecord,
         NEW pc \in {"storing", "updating"},
         \A d \in MemoryCall : d # c => ~busy(d),
         \A j \in MemoryId \ unembedded : sqlite[j] = vector[j],
         writeFirst(c, id, m, pc, [sqlite EXCEPT ![id] = m]), vector' = vector,
         pc = "updating" => has(sqlite, id)
  PROVE  MemorySerial'
<1> DEFINE first == [sqlite EXCEPT ![id] = m]
<1>1. first \in [MemoryId -> MemoryOrNone] /\ writeFirst(c, id, m, pc, first)
  BY DEF MemoryTypeInv, MemoryTypeOK, MemoryOrNone
<1> HIDE DEF first
<1>2. /\ m.embedded => /\ memoryCall'[c].pc = pc /\ memoryCall'[c].id = id
                        /\ memoryCall'[c].memory = m
      /\ ~m.embedded => memoryCall'[c].pc = "idle"
      /\ \A d \in MemoryCall : d # c => memoryCall'[d] = memoryCall[d]
  BY <1>1, WriteFirstTypes
<1>3. /\ sqlite'[id] = m
      /\ \A j \in MemoryId : j # id => sqlite'[j] = sqlite[j]
      /\ unembedded' = IF m.embedded THEN unembedded ELSE unembedded \cup {id}
  BY DEF writeFirst, MemoryTypeInv, MemoryTypeOK
<1>4. \A d \in MemoryCall : d # c => memoryCall'[d].pc = "idle"
  BY <1>2 DEF busy
<1>5. CASE m.embedded
  <2>1. memoryCall'[c].pc = pc /\ memoryCall'[c].id = id /\ memoryCall'[c].memory = m
    BY <1>2, <1>5
  <2>2. Alone' /\ Fetched'
    BY <1>4, <2>1 DEF Alone, Fetched, busy
  <2>3. Written'
    BY <1>3, <1>4, <1>5, <2>1 DEF Written, writing, has
  <2>4. Same'
    BY <1>3, <1>5, <2>1 DEF Same, writing
  <2> QED
    BY <2>2, <2>3, <2>4 DEF MemorySerial
<1>6. CASE ~m.embedded
  <2>1. memoryCall'[c].pc = "idle"
    BY <1>2, <1>6, CallTypes
  <2>2. Alone' /\ Fetched' /\ Written'
    BY <1>4, <2>1 DEF Alone, Fetched, Written, busy, writing
  <2>3. Same'
    BY <1>3, <1>6 DEF Same
  <2> QED
    BY <2>2, <2>3 DEF MemorySerial
<1> QED
  BY <1>5, <1>6

\* A call that goes to wait before it writes anything, or ends without.
LEMMA WaitSerial ==
  ASSUME MemoryTypeInv, NEW c \in MemoryCall, NEW k \in Call,
         k.pc \in {"idle", "embedding", "fetched"},
         k.pc = "fetched" => has(sqlite, k.id),
         k.pc # "idle" => k.id \in MemoryId /\ k.memory \in MemoryRecord,
         \A d \in MemoryCall : d # c => ~busy(d),
         \A j \in MemoryId \ unembedded : sqlite[j] = vector[j],
         memoryCall' = [memoryCall EXCEPT ![c] = k], UNCHANGED <<sqlite, vector, unembedded>>
  PROVE  MemorySerial'
<1>1. /\ memoryCall'[c] = k
      /\ \A d \in MemoryCall : d # c => memoryCall'[d].pc = "idle"
  BY MemoryOneCall DEF busy
<1>2. Alone' /\ Fetched' /\ Written'
  BY <1>1 DEF Alone, Fetched, Written, busy, writing, has
<1> QED
  BY <1>2 DEF MemorySerial, Same

\* A removal, with the stores at rest and no call under way, when a memory that both
\* stores have alike is removed from both or from neither.
LEMMA RemoveSerial ==
  ASSUME MemoryTypeInv, NEW fromSqlite, NEW fromVector, removeBoth(fromSqlite, fromVector),
         \A d \in MemoryCall : ~busy(d),
         \A j \in MemoryId \ unembedded : sqlite[j] = vector[j],
         \A j \in MemoryId : sqlite[j] = vector[j] =>
           (j \in fromSqlite <=> j \in fromVector)
  PROVE  MemorySerial'
<1>1. Alone' /\ Fetched' /\ Written'
  BY DEF removeBoth, Alone, Fetched, Written, busy, writing
<1>2. \A j \in MemoryId : /\ sqlite'[j] = IF j \in fromSqlite THEN NoMemory ELSE sqlite[j]
                          /\ vector'[j] = IF j \in fromVector THEN NoMemory ELSE vector[j]
  BY DEF removeBoth, without
<1>3. \A j \in unembedded \ unembedded' : sqlite'[j] = NoMemory /\ vector'[j] = NoMemory
  BY DEF removeBoth, has
<1>4. Same'
  BY <1>2, <1>3 DEF Same
<1> QED
  BY <1>1, <1>4 DEF MemorySerial

\* The second write brings the vector store the memory the first one has.
LEMMA SecondSerial ==
  ASSUME MemoryTypeInv, MemorySerial, ~mixed, NEW c \in MemoryCall, WriteSecond(c)
  PROVE  MemorySerial'
<1> DEFINE rec == memoryCall[c]
<1>1. writing(c) /\ busy(c)
  BY DEF WriteSecond, writing, busy
<1>2. rec.id \in MemoryId /\ rec.memory \in MemoryRecord
  BY <1>1 DEF MemoryTypeInv, CallsTyped
<1>3. \A d \in MemoryCall : memoryCall'[d].pc = "idle"
  <2>1. \A d \in MemoryCall : d # c => memoryCall'[d] = memoryCall[d]
    BY CallTypes, MemoryOneCall DEF WriteSecond
  <2>2. memoryCall'[c].pc = "idle"
    BY CallTypes, MemoryOneCall DEF WriteSecond
  <2> QED
    BY <1>1, <2>1, <2>2, Only DEF busy
<1>4. Alone' /\ Fetched' /\ Written'
  BY <1>3 DEF Alone, Fetched, Written, busy, writing
<1>5. /\ sqlite' = sqlite /\ unembedded' = unembedded
      /\ \A j \in MemoryId : j # rec.id => vector'[j] = vector[j]
  BY <1>2 DEF WriteSecond, stored, updated, MemoryTypeInv, MemoryTypeOK
<1>6. rec.id \notin unembedded => vector'[rec.id] = rec.memory /\ sqlite[rec.id] = rec.memory
  BY <1>1, <1>2 DEF MemorySerial, Written, WriteSecond, stored, updated, MemoryTypeInv, MemoryTypeOK, writing
<1>7. \A j \in MemoryId \ unembedded : j # rec.id => sqlite[j] = vector[j]
  BY <1>1, Only DEF MemorySerial, Same, writing, busy
<1>8. Same'
  BY <1>5, <1>6, <1>7 DEF Same
<1> QED
  BY <1>4, <1>8 DEF MemorySerial

\* Every step keeps what calls that do not overlap keep.
LEMMA MemorySerialStep ==
  ASSUME MemoryTypeInv, MemorySerial, [MemoryNext]_memoryVars
  PROVE  MemorySerial'
<1>1. SUFFICES ASSUME ~mixed' PROVE MemorySerial'
  BY DEF MemorySerial
<1>2. ASSUME NEW c \in MemoryCall, NEW id \in MemoryId, NEW owner \in Owner,
             NEW embedded \in BOOLEAN, Store(c, id, owner, embedded)
      PROVE  MemorySerial'
  <2> DEFINE m == [owner |-> owner, version |-> memoryOps', embedded |-> embedded, fixed |-> FALSE]
  <2>1. startMemoryCall(c) /\ vector' = vector
    BY <1>2 DEF Store
  <2>2. m \in MemoryRecord
    BY <2>1, Version, Fresh
  <2>3. writeFirst(c, id, m, "storing", [sqlite EXCEPT ![id] = m])
    BY <1>2 DEF Store, stored
  <2> HIDE DEF m
  <2> QED
    BY <1>1, <2>1, <2>2, <2>3, Starts, FirstSerial
<1>3. ASSUME NEW c \in MemoryCall, NEW id \in MemoryId, NEW embedded \in BOOLEAN,
             Update(c, id, embedded)
      PROVE  MemorySerial'
  <2> DEFINE m == [sqlite[id] EXCEPT !.version = memoryOps', !.embedded = embedded]
  <2>1. startMemoryCall(c) /\ has(sqlite, id) /\ vector' = vector
    BY <1>3 DEF Update
  <2>2. m \in MemoryRecord
    BY <2>1, Version, Changed
  <2>3. writeFirst(c, id, m, "updating", [sqlite EXCEPT ![id] = m])
    BY <1>3, <2>1 DEF Update, updated
  <2> HIDE DEF m
  <2> QED
    BY <1>1, <2>1, <2>2, <2>3, Starts, FirstSerial
<1>4. ASSUME NEW c \in MemoryCall, NEW id \in MemoryId, Delete(c, id)
      PROVE  MemorySerial'
  BY <1>1, <1>4, Starts, RemoveSerial DEF Delete
<1>5. ASSUME NEW c \in MemoryCall, NEW owner \in Owner, ClearAgent(c, owner)
      PROVE  MemorySerial'
  <2>1. \A j \in MemoryId : sqlite[j] = vector[j] =>
          (j \in ownedIn(sqlite, owner) <=> j \in ownedIn(vector, owner))
    BY DEF ownedIn, has
  <2> QED
    BY <1>1, <1>5, <2>1, Starts, RemoveSerial DEF ClearAgent
<1>6. ASSUME NEW c \in MemoryCall, Close(c)
      PROVE  MemorySerial'
  BY <1>1, <1>6, Starts, RemoveSerial DEF Close
<1>7. ASSUME NEW c \in MemoryCall, NEW id \in MemoryId, RecordFinding(c, id)
      PROVE  MemorySerial'
  <2> DEFINE m == [owner |-> Learning, version |-> memoryOps', embedded |-> TRUE, fixed |-> FALSE]
             k == [pc |-> "embedding", id |-> id, memory |-> m]
  <2>1. startMemoryCall(c)
    BY <1>7 DEF RecordFinding
  <2>2. m \in MemoryRecord
    BY <2>1, Version, Fresh, MemoryAssumption
  <2>3. memoryCall' = [memoryCall EXCEPT ![c] = k] /\ UNCHANGED <<sqlite, vector, unembedded>>
    BY <1>7 DEF RecordFinding
  <2> HIDE DEF m
  <2>4. k \in Call /\ k.pc = "embedding" /\ k.id \in MemoryId /\ k.memory \in MemoryRecord
    BY <2>2, CallTypes
  <2> HIDE DEF k
  <2> QED
    BY <1>1, <2>1, <2>3, <2>4, Starts, WaitSerial
<1>8. ASSUME NEW c \in MemoryCall, NEW id \in MemoryId, MarkFixed(c, id)
      PROVE  MemorySerial'
  <2> DEFINE m == [sqlite[id] EXCEPT !.fixed = TRUE]
             k == IF has(sqlite, id) THEN [pc |-> "fetched", id |-> id, memory |-> m] ELSE idle
  <2>1. startMemoryCall(c)
    BY <1>8 DEF MarkFixed
  <2>2. has(sqlite, id) => m \in MemoryRecord
    BY Marked
  <2>3. memoryCall' = [memoryCall EXCEPT ![c] = k] /\ UNCHANGED <<sqlite, vector, unembedded>>
    BY <1>8 DEF MarkFixed
  <2> HIDE DEF m
  <2>4. /\ k \in Call /\ k.pc \in {"idle", "fetched"}
        /\ k.pc = "fetched" => has(sqlite, k.id) /\ k.id \in MemoryId /\ k.memory \in MemoryRecord
    BY <2>2, CallTypes
  <2> HIDE DEF k
  <2> QED
    BY <1>1, <2>1, <2>3, <2>4, Starts, WaitSerial
<1>9. ASSUME NEW c \in MemoryCall, WriteSecond(c)
      PROVE  MemorySerial'
  BY <1>1, <1>9, SecondSerial DEF WriteSecond
<1>10. ASSUME NEW c \in MemoryCall, FindingEmbedded(c) \/ FixedFetched(c)
       PROVE  MemorySerial'
  <2> DEFINE id == memoryCall[c].id
             m == memoryCall[c].memory
  <2>1. busy(c) /\ ~writing(c) /\ id \in MemoryId /\ m \in MemoryRecord
    BY <1>10 DEF FindingEmbedded, FixedFetched, MemoryTypeInv, CallsTyped, busy, writing
  <2>2. vector' = vector /\ mixed' = mixed
    BY <1>10 DEF FindingEmbedded, FixedFetched
  <2>3. (\A d \in MemoryCall : d # c => ~busy(d))
        /\ \A j \in MemoryId \ unembedded : sqlite[j] = vector[j]
    BY <1>1, <2>1, <2>2, Only, Rest
  <2>4. \/ writeFirst(c, id, m, "storing", [sqlite EXCEPT ![id] = m])
        \/ /\ writeFirst(c, id, m, "updating", [sqlite EXCEPT ![id] = m])
           /\ has(sqlite, id)
    BY <1>1, <1>10, <2>2 DEF FindingEmbedded, FixedFetched, MemorySerial, Fetched, stored, updated
  <2> HIDE DEF id, m
  <2> QED
    BY <2>1, <2>2, <2>3, <2>4, FirstSerial
<1>11. CASE UNCHANGED memoryVars
  BY <1>1, <1>11 DEF memoryVars, MemorySerial, Alone, Fetched, Written, Same, busy, writing, has
<1> QED
  BY <1>2, <1>3, <1>4, <1>5, <1>6, <1>7, <1>8, <1>9, <1>10, <1>11 DEF MemoryNext

------------------------------------------------------------------------------
(* Finitely many memories. *)

\* A step adds at most one memory to a store.
LEMMA AtMostOne ==
  ASSUME MemoryTypeInv, [MemoryNext]_memoryVars
  PROVE  \E i, j : /\ heldIn(sqlite)' \subseteq heldIn(sqlite) \cup {i}
                   /\ heldIn(vector)' \subseteq heldIn(vector) \cup {j}
<1>1. ASSUME NEW c \in MemoryCall, NEW id, NEW m, NEW pc, NEW first,
             writeFirst(c, id, m, pc, first), vector' = vector,
             first = stored(sqlite, id, m) \/ first = updated(sqlite, id, m)
      PROVE  /\ heldIn(sqlite)' \subseteq heldIn(sqlite) \cup {id}
             /\ heldIn(vector)' \subseteq heldIn(vector) \cup {id}
  <2>1. sqlite' = [sqlite EXCEPT ![id] = m] \/ sqlite' = sqlite
    BY <1>1 DEF writeFirst, stored, updated
  <2> QED
    BY <1>1, <2>1 DEF heldIn, has, MemoryTypeInv, MemoryTypeOK
<1>2. ASSUME NEW fromSqlite, NEW fromVector, removeBoth(fromSqlite, fromVector)
      PROVE  /\ heldIn(sqlite)' \subseteq heldIn(sqlite)
             /\ heldIn(vector)' \subseteq heldIn(vector)
  BY <1>2 DEF removeBoth, without, heldIn, has
<1>3. ASSUME NEW c \in MemoryCall, WriteSecond(c)
      PROVE  /\ heldIn(sqlite)' \subseteq heldIn(sqlite)
             /\ heldIn(vector)' \subseteq heldIn(vector) \cup {memoryCall[c].id}
  BY <1>3 DEF WriteSecond, stored, updated, heldIn, has
<1>4. ASSUME UNCHANGED <<sqlite, vector>>
      PROVE  heldIn(sqlite)' \subseteq heldIn(sqlite) /\ heldIn(vector)' \subseteq heldIn(vector)
  BY <1>4 DEF heldIn, has
<1>5. ASSUME NEW c \in MemoryCall, NEW id \in MemoryId, NEW owner \in Owner,
             NEW embedded \in BOOLEAN, Store(c, id, owner, embedded)
      PROVE  /\ heldIn(sqlite)' \subseteq heldIn(sqlite) \cup {id}
             /\ heldIn(vector)' \subseteq heldIn(vector) \cup {id}
  BY <1>1, <1>5 DEF Store
<1>6. ASSUME NEW c \in MemoryCall, NEW id \in MemoryId, NEW embedded \in BOOLEAN,
             Update(c, id, embedded)
      PROVE  /\ heldIn(sqlite)' \subseteq heldIn(sqlite) \cup {id}
             /\ heldIn(vector)' \subseteq heldIn(vector) \cup {id}
  BY <1>1, <1>6 DEF Update
<1>7. ASSUME NEW c \in MemoryCall, FindingEmbedded(c) \/ FixedFetched(c)
      PROVE  /\ heldIn(sqlite)' \subseteq heldIn(sqlite) \cup {memoryCall[c].id}
             /\ heldIn(vector)' \subseteq heldIn(vector) \cup {memoryCall[c].id}
  BY <1>1, <1>7 DEF FindingEmbedded, FixedFetched
<1>8. CASE UNCHANGED <<sqlite, vector>>
  BY <1>4, <1>8
<1>9. (\E c \in MemoryCall, id \in MemoryId : RecordFinding(c, id) \/ MarkFixed(c, id))
      \/ UNCHANGED memoryVars
      => UNCHANGED <<sqlite, vector>>
  BY DEF RecordFinding, MarkFixed, memoryVars
<1>10. (\E c \in MemoryCall : \/ \E id \in MemoryId : Delete(c, id)
                              \/ \E owner \in Owner : ClearAgent(c, owner)
                              \/ Close(c))
       => \E fromSqlite, fromVector : removeBoth(fromSqlite, fromVector)
  BY DEF Delete, ClearAgent, Close
<1> QED
  BY <1>2, <1>3, <1>5, <1>6, <1>7, <1>8, <1>9, <1>10 DEF MemoryNext

LEMMA FiniteStep ==
  ASSUME MemoryTypeInv, Finite, [MemoryNext]_memoryVars
  PROVE  Finite'
<1>1. PICK i, j : /\ heldIn(sqlite)' \subseteq heldIn(sqlite) \cup {i}
                  /\ heldIn(vector)' \subseteq heldIn(vector) \cup {j}
  BY AtMostOne
<1>2. IsFiniteSet(heldIn(sqlite) \cup {i}) /\ IsFiniteSet(heldIn(vector) \cup {j})
  BY FS_AddElement DEF Finite
<1>3. IsFiniteSet(heldIn(sqlite)') /\ IsFiniteSet(heldIn(vector)')
  BY <1>1, <1>2, FS_Subset
<1> QED
  BY <1>3 DEF Finite

------------------------------------------------------------------------------
(* The stores, a search and a report. *)

\* No two of a finite set of ids crowd the least similar of k of them out.
LEMMA AllAreBest ==
  ASSUME NEW ids \in SUBSET MemoryId, IsFiniteSet(ids), NEW k \in Nat, Cardinality(ids) <= k
  PROVE  best(ids, k) = ids
<1>1. ASSUME NEW i \in ids
      PROVE  Cardinality({j \in ids : similarity[j] > similarity[i]}) < k
  <2> DEFINE above == {j \in ids : similarity[j] > similarity[i]}
  <2>1. above \in SUBSET (ids \ {i})
    BY MemoryAssumption
  <2>2. /\ IsFiniteSet(ids \ {i}) /\ Cardinality(ids \ {i}) = Cardinality(ids) - 1
        /\ Cardinality(ids) \in Nat
    BY <1>1, FS_RemoveElement, FS_CardinalityType
  <2>3. Cardinality(above) <= Cardinality(ids \ {i}) /\ Cardinality(above) \in Nat
    BY <2>1, <2>2, FS_Subset, FS_CardinalityType
  <2> QED
    BY <2>2, <2>3
<1> QED
  BY <1>1 DEF best

LEMMA StoresAgree ==
  ASSUME MemoryIInv
  PROVE  BackendsAgree
  BY DEF MemoryIInv, MemorySerial, Same, BackendsAgree, quiet, writing

LEMMA SearchIsRight ==
  ASSUME MemoryIInv
  PROVE  SearchFinds
<1>1. SUFFICES ASSUME quiet, unembedded = {}, NEW owner \in Owner
               PROVE  /\ hybridSearch(owner, K) \subseteq ownedIn(sqlite, owner)
                      /\ Cardinality(heldIn(vector)) <= 2 * K =>
                           hybridSearch(owner, K) = best(ownedIn(sqlite, owner), K)
  BY DEF SearchFinds, heldIn
<1>2. \A id \in MemoryId : sqlite[id] = vector[id]
  BY <1>1, StoresAgree DEF BackendsAgree
<1>3. vectorSearch(2 * K) \subseteq heldIn(vector)
  BY DEF vectorSearch, best, heldIn
<1>4. hybridSearch(owner, K) \subseteq ownedIn(sqlite, owner)
  BY <1>2, <1>3 DEF hybridSearch, best, ownedIn, heldIn, has
<1>5. ASSUME Cardinality(heldIn(vector)) <= 2 * K
      PROVE  hybridSearch(owner, K) = best(ownedIn(sqlite, owner), K)
  <2>1. heldIn(vector) \in SUBSET MemoryId /\ IsFiniteSet(heldIn(vector)) /\ 2 * K \in Nat
    BY MemoryAssumption DEF heldIn, MemoryIInv, Finite
  <2>2. vectorSearch(2 * K) = heldIn(vector)
    BY <1>5, <2>1, AllAreBest DEF vectorSearch, heldIn
  <2>3. {id \in heldIn(vector) : vector[id].owner = owner} = ownedIn(sqlite, owner)
    BY <1>2 DEF heldIn, ownedIn, has
  <2> QED
    BY <2>2, <2>3 DEF hybridSearch
<1> QED
  BY <1>4, <1>5

LEMMA ReportIsRight ==
  ASSUME MemoryIInv
  PROVE  FixLowers
<1>1. SUFFICES ASSUME NEW id \in findings
               PROVE  LET fixed == {f \in findings : sqlite[f].fixed}
                          before == domainReport(domainOf[id], fixed \ {id})
                          after == domainReport(domainOf[id], fixed \cup {id})
                      IN /\ after.weight < before.weight /\ after.regressionRisk
                         /\ after.priority = "high" => before.priority = "high"
  BY DEF FixLowers
<1> DEFINE fixed == {f \in findings : sqlite[f].fixed}
           in == {i \in findings : domainOf[i] = domainOf[id]}
           critical == {i \in in : severityOf[i] = "critical"}
           high == {i \in in : severityOf[i] = "high"}
           now == in \ (fixed \cup {id})
           then == in \ (fixed \ {id})
<1>2. IsFiniteSet(in)
  <2>1. in \in SUBSET heldIn(sqlite)
    BY DEF findings, ownedIn, heldIn
  <2> QED
    BY <2>1, FS_Subset DEF MemoryIInv, Finite
<1>3. /\ Cardinality(in) \in Nat /\ Cardinality(critical) \in Nat /\ Cardinality(high) \in Nat
      /\ IsFiniteSet(now) /\ Cardinality(now) \in Nat
  <2>1. critical \in SUBSET in /\ high \in SUBSET in /\ now \in SUBSET in
    OBVIOUS
  <2> QED
    BY <1>2, <2>1, FS_Subset, FS_CardinalityType
<1>4. Cardinality(then) = Cardinality(now) + 1
  <2>1. then = now \cup {id} /\ id \notin now
    OBVIOUS
  <2> QED
    BY <1>3, <2>1, FS_AddElement
<1>5. in # now
  OBVIOUS
<1> DEFINE base == 8 * Cardinality(critical) + 4 * Cardinality(high)
           before == domainReport(domainOf[id], fixed \ {id})
           after == domainReport(domainOf[id], fixed \cup {id})
<1>6. /\ before.weight = base + 3 * Cardinality(then) + Cardinality(in)
      /\ before.priority = IF critical # {} \/ Cardinality(then) > 2 THEN "high"
                           ELSE IF in = {} THEN "low" ELSE "medium"
  BY DEF domainReport
<1>7. /\ after.weight = base + 3 * Cardinality(now) + Cardinality(in)
      /\ after.regressionRisk = (in # now)
      /\ after.priority = IF critical # {} \/ Cardinality(now) > 2 THEN "high"
                          ELSE IF in = {} THEN "low" ELSE "medium"
  BY DEF domainReport
<1> HIDE DEF critical, high, now, then, in, before, after, fixed
<1>8. after.weight < before.weight
  BY <1>3, <1>4, <1>6, <1>7
<1>9. after.regressionRisk
  BY <1>5, <1>7
<1>10. after.priority = "high" => before.priority = "high"
  BY <1>3, <1>4, <1>6, <1>7
<1> QED
  BY <1>8, <1>9, <1>10 DEF before, after, fixed

\* While calls do not overlap the two stores hold the same of every memory that was
\* written with its embedding, a search misses nothing while its hits cover the
\* vector store, and a fixed finding never raises its domain (HybridBackend,
\* SelfLearningLoop).
THEOREM ConsistentCorrect == MemorySpec => []MemoryConsistent
<1>1. MemoryInit => MemoryTypeInv
  BY InitTypes
<1>2. MemoryInit => MemorySerial
  BY CallTypes DEF MemoryInit, MemorySerial, Alone, Fetched, Written, Same, busy, writing
<1>3. MemoryInit => Finite
  <2>1. MemoryInit => heldIn(sqlite) = {} /\ heldIn(vector) = {}
    BY DEF MemoryInit, heldIn, has
  <2> QED
    BY <2>1, FS_EmptySet DEF Finite
<1>4. MemoryIInv /\ [MemoryNext]_memoryVars => MemoryIInv'
  BY MemoryTypeStep, MemorySerialStep, FiniteStep DEF MemoryIInv
<1>5. MemoryIInv => MemoryConsistent
  BY StoresAgree, SearchIsRight, ReportIsRight DEF MemoryConsistent
<1> QED
  BY <1>1, <1>2, <1>3, <1>4, <1>5, PTL DEF MemorySpec, MemoryIInv

------------------------------------------------------------------------------
(* The communication bus. *)

Content == Seq(Line \cup {Torn})

\* Lines that are just the messages of ms.
Holds(lines, ms) ==
  /\ Len(lines) = Len(ms)
  /\ \A k \in DOMAIN lines : lines[k] # Torn /\ lines[k].msg = ms[k]

\* Without a collision one rewrite at most is under way, and it has what is to be kept,
\* which is in the file when none is.
BusInv ==
  /\ BusTypeOK
  /\ \A i, j \in DOMAIN kept : kept[i] = kept[j] => i = j
  /\ \A i \in DOMAIN kept : kept[i] <= messages
  /\ ~collided =>
       /\ \A s, t \in Server : server[s].pc # "wait" /\ server[t].pc # "wait" => s = t
       /\ ~rewriting => Holds(queue, kept)
       /\ \A s \in Server : server[s].pc # "wait" =>
            Holds(server[s].lines, kept) /\ (server[s].pc = "writing" => queue = <<>>)

------------------------------------------------------------------------------

LEMMA AddedLine ==
  ASSUME BusInv, NEW s \in Server, NEW to \in Recipient, SendMessage(s, to)
  PROVE  BusInv'
<1> DEFINE line == [msg |-> messages + 1, to |-> to, read |-> FALSE]
<1>1. /\ queue \in Content /\ kept \in Seq(1 .. MaxMessages)
      /\ messages \in Nat /\ messages + 1 \in 1 .. MaxMessages /\ MaxMessages \in Nat
  BY MessageBusAssumption DEF BusInv, BusTypeOK, SendMessage, Content
<1>2. line \in Line /\ line # Torn /\ line.msg = messages + 1
  <2>1. line \in Line
    BY <1>1 DEF Line
  <2>2. line.msg = messages + 1
    OBVIOUS
  <2> HIDE DEF line
  <2> QED
    BY <2>1, <2>2, MessageBusAssumption
<1> HIDE DEF line
<1>3. /\ queue' = Append(queue, line) /\ kept' = Append(kept, messages + 1)
      /\ messages' = messages + 1 /\ server' = server /\ kills' = kills
      /\ collided' = (collided \/ rewriting)
  BY DEF SendMessage, line
<1>4. BusTypeOK'
  BY <1>1, <1>2, <1>3, MessageBusAssumption DEF BusInv, BusTypeOK, SendMessage, Content, rewriting
<1>5. \A i \in DOMAIN kept : kept[i] <= messages /\ kept[i] \in Nat
  BY <1>1 DEF BusInv
<1>6. /\ DOMAIN kept' = DOMAIN kept \cup {Len(kept) + 1}
      /\ \A i \in DOMAIN kept : kept'[i] = kept[i] /\ i # Len(kept) + 1
      /\ kept'[Len(kept) + 1] = messages + 1
  BY <1>1, <1>3
<1>7. /\ \A i, j \in DOMAIN kept' : kept'[i] = kept'[j] => i = j
      /\ \A i \in DOMAIN kept' : kept'[i] <= messages'
  BY <1>1, <1>3, <1>5, <1>6 DEF BusInv
<1>8. ~rewriting /\ ~collided => Holds(queue', kept')
  <2> SUFFICES ASSUME ~rewriting, ~collided PROVE Holds(queue', kept')
    OBVIOUS
  <2>1. Holds(queue, kept)
    BY DEF BusInv
  <2> QED
    BY <1>1, <1>2, <1>3, <2>1 DEF Holds, Content
<1>9. ~collided' => ~rewriting /\ ~collided /\ \A t \in Server : server'[t].pc = "wait"
  BY <1>3 DEF rewriting
<1> QED
  BY <1>4, <1>7, <1>8, <1>9 DEF BusInv

\* A rewrite begins with lines that hold what is to be kept from now on.
LEMMA BegunRewrite ==
  ASSUME BusInv, NEW s \in Server, NEW lines \in Content, beginRewrite(s, lines),
         kept' \in Seq(1 .. MaxMessages),
         \A i, j \in DOMAIN kept' : kept'[i] = kept'[j] => i = j,
         \A i \in DOMAIN kept' : kept'[i] <= messages,
         ~collided /\ ~rewriting => Holds(lines, kept')
  PROVE  BusInv'
<1>1. /\ server \in [Server -> [pc : {"wait", "opening", "writing"}, lines : Content]]
      /\ server' = [server EXCEPT ![s] = [pc |-> "opening", lines |-> lines]]
      /\ collided' = (collided \/ rewriting) /\ queue' = queue /\ messages' = messages /\ kills' = kills
  BY DEF BusInv, BusTypeOK, beginRewrite, Content
<1>2. BusTypeOK'
  BY <1>1 DEF BusInv, BusTypeOK, Content, rewriting
<1>3. /\ server'[s].pc = "opening" /\ server'[s].lines = lines
      /\ \A t \in Server : t # s => server'[t] = server[t]
  BY <1>1
<1>4. ~collided' => /\ ~collided /\ ~rewriting
                    /\ \A t \in Server : t # s => server'[t].pc = "wait"
  BY <1>1, <1>3 DEF rewriting
<1>5. rewriting'
  BY <1>3 DEF rewriting
<1> QED
  BY <1>1, <1>2, <1>3, <1>4, <1>5 DEF BusInv

LEMMA BegunReading ==
  ASSUME BusInv, NEW s \in Server, NEW r \in Recipient, ReadMessages(s, r)
  PROVE  BusInv'
<1>1. queue \in Content /\ kept \in Seq(1 .. MaxMessages) /\ kept' = kept
  BY DEF BusInv, BusTypeOK, ReadMessages, Content
<1>2. ASSUME NEW k \in DOMAIN queue
      PROVE  LET l == IF addressed(queue[k], r) THEN [queue[k] EXCEPT !.read = TRUE] ELSE queue[k]
             IN l \in Line \cup {Torn} /\ (queue[k] # Torn => l # Torn /\ l.msg = queue[k].msg)
  <2>1. queue[k] \in Line \cup {Torn}
    BY <1>1 DEF Content
  <2>2. CASE addressed(queue[k], r)
    BY <2>1, <2>2, MessageBusAssumption DEF addressed, Line
  <2>3. CASE ~addressed(queue[k], r)
    BY <2>1, <2>3
  <2> QED
    BY <2>2, <2>3
<1> DEFINE lines == marked(queue, r)
<1>3. lines \in Content /\ DOMAIN lines = DOMAIN queue /\ Len(lines) = Len(queue)
  <2>1. DOMAIN queue = 1 .. Len(queue) /\ Len(queue) \in Nat
    BY <1>1 DEF Content
  <2>2. DOMAIN lines = 1 .. Len(queue) /\ \A k \in 1 .. Len(queue) : lines[k] \in Line \cup {Torn}
    BY <1>2, <2>1 DEF marked
  <2>3. lines = [k \in 1 .. Len(queue) |-> lines[k]]
    BY <2>1 DEF marked
  <2> HIDE DEF lines
  <2>4. lines \in [1 .. Len(queue) -> Line \cup {Torn}]
    BY <2>2, <2>3
  <2>5. lines \in Content
    BY <2>1, <2>4 DEF Content
  <2> QED
    BY <2>1, <2>2, <2>5 DEF Content
<1>4. \A k \in DOMAIN lines : queue[k] # Torn => lines[k] # Torn /\ lines[k].msg = queue[k].msg
  BY <1>2, <1>3 DEF marked
<1>5. ~collided /\ ~rewriting => Holds(lines, kept)
  BY <1>3, <1>4 DEF BusInv, Holds
<1>6. beginRewrite(s, lines)
  BY DEF ReadMessages
<1> HIDE DEF lines
<1> QED
  BY <1>1, <1>3, <1>5, <1>6, BegunRewrite DEF BusInv

\* What is left of the lines holds what is left of the messages: both lose the same
\* positions, because a message has one line.
LEMMA BegunClearing ==
  ASSUME BusInv, NEW s \in Server, NEW r \in Recipient, ClearMessages(s, r)
  PROVE  BusInv'
<1> DEFINE stays == {k \in DOMAIN queue : queue[k] = Torn \/ queue[k].to # r}
           gone == {queue[k].msg : k \in DOMAIN queue \ stays}
           left == {k \in DOMAIN kept : kept[k] \notin gone}
           lines == Subsequence(queue, stays)
<1>1. queue \in Content /\ kept \in Seq(1 .. MaxMessages)
  BY DEF BusInv, BusTypeOK, Content
<1>2. beginRewrite(s, lines) /\ kept' = Subsequence(kept, left)
  BY DEF ClearMessages
<1>3. stays \in SUBSET DOMAIN queue /\ left \in SUBSET DOMAIN kept
  OBVIOUS
<1>4. ~collided /\ ~rewriting => stays = left
  <2> SUFFICES ASSUME ~collided, ~rewriting PROVE stays = left
    OBVIOUS
  <2>1. DOMAIN queue = DOMAIN kept /\ \A k \in DOMAIN queue : queue[k].msg = kept[k]
    BY <1>1 DEF BusInv, Holds, Content
  <2>2. \A k \in DOMAIN queue : kept[k] \in gone <=> k \notin stays
    <3> SUFFICES ASSUME NEW k \in DOMAIN queue PROVE kept[k] \in gone <=> k \notin stays
      OBVIOUS
    <3>1. kept[k] \in gone <=> \E j \in DOMAIN queue \ stays : kept[k] = kept[j]
      BY <2>1
    <3> HIDE DEF stays, gone
    <3> QED
      BY <2>1, <3>1 DEF BusInv
  <2> HIDE DEF gone
  <2> QED
    BY <2>1, <2>2
<1> HIDE DEF stays, left
<1>5. lines \in Content /\ Len(lines) = Cardinality(stays)
      /\ \A k \in DOMAIN lines : nth(stays, k) \in stays /\ lines[k] = queue[nth(stays, k)]
  BY <1>1, <1>3, SubsequenceKeeps DEF Content
<1>6. kept' \in Seq(1 .. MaxMessages) /\ Len(kept') = Cardinality(left)
      /\ \A k \in DOMAIN kept' : nth(left, k) \in left /\ kept'[k] = kept[nth(left, k)]
  BY <1>1, <1>2, <1>3, SubsequenceKeeps
<1>7. \A i, j \in DOMAIN kept' : kept'[i] = kept'[j] => i = j
  <2> SUFFICES ASSUME NEW i \in DOMAIN kept', NEW j \in DOMAIN kept', kept'[i] = kept'[j] PROVE i = j
    OBVIOUS
  <2>1. nth(left, i) = nth(left, j)
    BY <1>3, <1>6 DEF BusInv
  <2>2. \A k, l \in 1 .. Cardinality(left) : k < l => nth(left, k) < nth(left, l)
    <3>1. left \in SUBSET (1 .. Len(kept)) /\ Len(kept) \in Nat
      BY <1>1, <1>3
    <3> QED
      BY <3>1, CountedOff
  <2>3. DOMAIN kept' = 1 .. Cardinality(left) /\ Cardinality(left) \in Nat
        /\ nth(left, i) \in Int
    BY <1>1, <1>3, <1>6
  <2> QED
    BY <2>1, <2>2, <2>3
<1>8. \A i \in DOMAIN kept' : kept'[i] <= messages
  BY <1>3, <1>6 DEF BusInv
<1>9. ~collided /\ ~rewriting => Holds(lines, kept')
  <2> SUFFICES ASSUME ~collided, ~rewriting PROVE Holds(lines, kept')
    OBVIOUS
  <2>1. stays = left
    BY <1>4
  <2>2. Len(lines) = Len(kept') /\ DOMAIN lines = DOMAIN kept'
    BY <1>5, <1>6, <2>1 DEF Content
  <2>3. \A k \in DOMAIN queue : queue[k] # Torn /\ queue[k].msg = kept[k]
    BY DEF BusInv, Holds
  <2> HIDE DEF lines
  <2> QED
    BY <1>3, <1>5, <1>6, <2>1, <2>2, <2>3 DEF Holds
<1> HIDE DEF lines
<1> QED
  BY <1>2, <1>5, <1>6, <1>7, <1>8, <1>9, BegunRewrite

LEMMA ClearedAll ==
  ASSUME BusInv, NEW s \in Server, ClearAll(s)
  PROVE  BusInv'
<1>1. queue' = <<>> /\ kept' = <<>> /\ collided' = (collided \/ rewriting)
      /\ server' = server /\ messages' = messages /\ kills' = kills
  BY DEF ClearAll
<1>2. BusTypeOK'
  BY <1>1 DEF BusInv, BusTypeOK, rewriting
<1>3. ~collided' => \A t \in Server : server'[t].pc = "wait"
  BY <1>1 DEF rewriting
<1>4. Holds(queue', kept')
  BY <1>1 DEF Holds
<1> QED
  BY <1>1, <1>2, <1>3, <1>4 DEF BusInv

LEMMA Truncated ==
  ASSUME BusInv, NEW s \in Server, Truncate(s)
  PROVE  BusInv'
<1>1. /\ server \in [Server -> [pc : {"wait", "opening", "writing"}, lines : Content]]
      /\ server[s].pc = "opening"
      /\ server' = [server EXCEPT ![s].pc = "writing"]
      /\ queue' = <<>> /\ kept' = kept /\ collided' = collided /\ messages' = messages /\ kills' = kills
  BY DEF BusInv, BusTypeOK, Truncate, Content
<1>2. BusTypeOK'
  <2>1. server' \in [Server -> [pc : {"wait", "opening", "writing"}, lines : Content]]
    BY <1>1
  <2>2. queue' \in Content
    BY <1>1 DEF Content
  <2> QED
    BY <1>1, <2>1, <2>2 DEF BusInv, BusTypeOK, Content
<1>3. /\ server'[s].pc = "writing" /\ server'[s].lines = server[s].lines
      /\ \A t \in Server : t # s => server'[t] = server[t]
  BY <1>1
<1>4. rewriting'
  BY <1>3 DEF rewriting
<1> QED
  BY <1>1, <1>2, <1>3, <1>4 DEF BusInv

\* Of a file that was truncated and not written since, nothing is left.
LEMMA Rewritten ==
  ASSUME BusInv, NEW s \in Server, Rewrite(s)
  PROVE  BusInv'
<1> DEFINE lines == server[s].lines
           rest == SubSeq(queue, Len(lines) + 1, Len(queue))
<1>1. /\ server \in [Server -> [pc : {"wait", "opening", "writing"}, lines : Content]]
      /\ queue \in Content /\ lines \in Content
      /\ server[s].pc = "writing"
      /\ server' = [server EXCEPT ![s] = waiting]
      /\ kept' = kept /\ collided' = collided /\ messages' = messages /\ kills' = kills
      /\ \/ queue' = lines \o rest
         \/ rest # <<>> /\ queue' = lines \o <<Torn>> \o Tail(rest)
  BY DEF BusInv, BusTypeOK, Rewrite, Content
<1>2. rest \in Content
  BY <1>1, SubSeqProperties DEF Content
<1>3. queue = <<>> => rest = <<>>
  BY <1>1, <1>2 DEF Content
<1> HIDE DEF rest, lines
<1>4. queue' \in Content
  <2>1. CASE queue' = lines \o rest
    BY <1>1, <1>2, <2>1 DEF Content
  <2>2. CASE rest # <<>> /\ queue' = lines \o <<Torn>> \o Tail(rest)
    <3>1. Tail(rest) \in Content /\ <<Torn>> \in Content
      BY <1>2, <2>2 DEF Content
    <3> QED
      BY <1>1, <2>2, <3>1 DEF Content
  <2> QED
    BY <1>1, <2>1, <2>2
<1>5. BusTypeOK'
  <2>1. server' \in [Server -> [pc : {"wait", "opening", "writing"}, lines : Content]]
    BY <1>1 DEF waiting, Content
  <2> QED
    BY <1>1, <1>4, <2>1 DEF BusInv, BusTypeOK, Content
<1>6. /\ server'[s].pc = "wait"
      /\ \A t \in Server : t # s => server'[t] = server[t]
  BY <1>1 DEF waiting
<1>7. ASSUME ~collided PROVE Holds(queue', kept') /\ \A t \in Server : server'[t].pc = "wait"
  <2>1. queue = <<>> /\ Holds(lines, kept)
    BY <1>1, <1>7 DEF BusInv, lines
  <2>2. queue' = lines
    BY <1>1, <1>3, <2>1 DEF Content
  <2>3. \A t \in Server : t # s => server[t].pc = "wait"
    BY <1>1, <1>7 DEF BusInv
  <2> QED
    BY <1>1, <1>6, <2>1, <2>2, <2>3
<1> QED
  BY <1>1, <1>5, <1>7 DEF BusInv

LEMMA KilledServer ==
  ASSUME BusInv, NEW s \in Server, KillServer(s)
  PROVE  BusInv'
<1>1. /\ server' = [server EXCEPT ![s] = waiting] /\ kills' = kills + 1 /\ kills < MaxKills
      /\ queue' = queue /\ kept' = kept /\ messages' = messages /\ collided'
  BY DEF KillServer
<1>2. BusTypeOK'
  <2>1. server' \in [Server -> [pc : {"wait", "opening", "writing"}, lines : Content]]
    BY <1>1 DEF waiting, Content, BusInv, BusTypeOK
  <2>2. kills' \in 0 .. MaxKills
    BY <1>1, MessageBusAssumption DEF BusInv, BusTypeOK
  <2>3. collided' \in BOOLEAN
    BY DEF KillServer
  <2> QED
    BY <1>1, <2>1, <2>2, <2>3 DEF BusInv, BusTypeOK, Content
<1> QED
  BY <1>1, <1>2 DEF BusInv

\* The file is empty at first and nobody is at it.
LEMMA BusStarts == BusInit => BusInv
<1> SUFFICES ASSUME BusInit PROVE BusInv
  OBVIOUS
<1>1. /\ queue = <<>> /\ kept = <<>> /\ messages = 0 /\ kills = 0 /\ collided = FALSE
      /\ server = [s \in Server |-> waiting]
  BY DEF BusInit
<1>2. BusTypeOK
  <2>1. server \in [Server -> [pc : {"wait", "opening", "writing"}, lines : Content]]
    BY <1>1 DEF waiting, Content
  <2>2. queue \in Content /\ kept \in Seq(1 .. MaxMessages)
    BY <1>1 DEF Content
  <2>3. messages \in 0 .. MaxMessages /\ kills \in 0 .. MaxKills
    BY <1>1, MessageBusAssumption
  <2> QED
    BY <1>1, <2>1, <2>2, <2>3 DEF BusTypeOK, Content
<1>3. Holds(queue, kept)
  BY <1>1 DEF Holds
<1>4. \A s \in Server : server[s].pc = "wait"
  BY <1>1 DEF waiting
<1> QED
  BY <1>1, <1>2, <1>3, <1>4 DEF BusInv

\* The invariant is inductive, every action by its lemma.
LEMMA BusInductive == BusInv /\ [BusNext]_busVars => BusInv'
<1> SUFFICES ASSUME BusInv, [BusNext]_busVars PROVE BusInv'
  OBVIOUS
<1>1. CASE BusNext
  <2>1. PICK s \in Server :
          \/ \E r \in Recipient : SendMessage(s, r)
          \/ \E r \in Recipient : ReadMessages(s, r) \/ ClearMessages(s, r)
          \/ ClearAll(s)
          \/ Truncate(s) \/ Rewrite(s) \/ KillServer(s)
    BY <1>1 DEF BusNext
  <2> QED
    BY <2>1, AddedLine, BegunReading, BegunClearing, ClearedAll, Truncated, Rewritten, KilledServer
<1>2. CASE UNCHANGED busVars
  BY <1>2 DEF busVars, BusInv, BusTypeOK, rewriting
<1> QED
  BY <1>1, <1>2

\* However servers read, mark, clear and send: while their rewrites do not collide, no
\* message is lost, torn or out of order, for any number of servers and messages.
THEOREM BusKeeps == BusSpec => []SentIsKept
<1>2. BusInv => SentIsKept
  <2> SUFFICES ASSUME BusInv, ~collided, ~rewriting
               PROVE  /\ \A k \in DOMAIN queue : queue[k] # Torn
                      /\ [k \in DOMAIN queue |-> queue[k].msg] = kept
    BY DEF SentIsKept
  <2>1. Holds(queue, kept) /\ queue \in Content /\ kept \in Seq(1 .. MaxMessages)
    BY DEF BusInv, BusTypeOK, Content
  <2>2. DOMAIN queue = DOMAIN kept /\ kept = [k \in DOMAIN kept |-> kept[k]]
    BY <2>1 DEF Holds, Content
  <2> QED
    BY <2>1, <2>2 DEF Holds
<1> QED
  BY <1>2, BusStarts, BusInductive, PTL DEF BusSpec

\* Every variable of the bus has its type.
THEOREM BusTypeCorrect == BusSpec => []BusTypeOK
<1>2. BusInv => BusTypeOK
  BY DEF BusInv
<1> QED
  BY <1>2, BusStarts, BusInductive, PTL DEF BusSpec

=============================================================================
