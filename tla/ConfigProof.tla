---------------------------- MODULE ConfigProof ----------------------------
(* What holds of the configuration, the plugins and the backends for every    *)
(* plugin path, every set of plugins and every file or list of arguments.     *)
EXTENDS Config, FileProof

-----------------------------------------------------------------------------
(* The framing library.                                                       *)

Having(n) == {i \in DOMAIN attached :
                attached[i] \in DOMAIN FramingPlugins /\ n \in FramingPlugins[attached[i]]}
Attached(object) == object = "builtin" \/ \E i \in DOMAIN attached : attached[i] = object
Names == BuiltinFramings \cup {n \in UNION {FramingPlugins[o] : o \in DOMAIN FramingPlugins} : Having(n) # {}}

AttachedInv == attached \in Seq(directory \ Damaged)

(* Every name is the function of the object loaded last that registers it.    *)
FramingsInv == framings = [n \in Names |-> [object |-> Provider(n), name |-> n]]

LEMMA ProviderIs ==
  ASSUME AttachedInv, NEW n
  PROVE  /\ Having(n) = {} => Provider(n) = "builtin"
         /\ Having(n) # {} => /\ Provider(n) = attached[Max(Having(n))]
                              /\ Max(Having(n)) \in Having(n)
                              /\ \A i \in Having(n) : i <= Max(Having(n))
         /\ Attached(Provider(n))
<1>1. Len(attached) \in Nat /\ Having(n) \in SUBSET (0 .. Len(attached))
  BY LenProperties DEF Having, AttachedInv
<1>2. Provider(n) = IF Having(n) = {} THEN "builtin" ELSE attached[Max(Having(n))]
  BY DEF Provider, Having
<1>3. Having(n) # {} => /\ Max(Having(n)) \in Having(n)
                        /\ \A i \in Having(n) : i <= Max(Having(n))
  BY <1>1, LargestIn
<1>4. Attached(Provider(n))
  BY <1>2, <1>3 DEF Attached, Having
<1> QED
  BY <1>2, <1>3, <1>4

LEMMA KnownNames == \A n : Known(n) <=> n \in Names
  BY DEF Known, Names, Having

LEMMA FramingFound ==
  ASSUME AttachedInv, FramingsInv, NEW name
  PROVE  /\ plugin_framing(framings, name) = FramingNamed(name)
         /\ Attached(plugin_framing(framings, name).object)
<1>1. "auto" \in Names
  BY DEF Names, BuiltinFramings
<1> DEFINE known == IF name \in Names THEN name ELSE "auto"
<1>2. known \in Names
  BY <1>1
<1>3. plugin_framing(framings, name) = [object |-> Provider(known), name |-> known]
  BY <1>2 DEF plugin_framing, FramingsInv
<1>4. FramingNamed(name) = [object |-> Provider(known), name |-> known]
  BY KnownNames DEF FramingNamed
<1> HIDE DEF known
<1>5. plugin_framing(framings, name).object = Provider(known)
  BY <1>3
<1> QED
  BY <1>3, <1>4, <1>5, ProviderIs

(* An object is attached: nothing that was attached is lost.                  *)
LEMMA Attaches ==
  ASSUME AttachedInv, NEW object \in directory \ Damaged, directory' = directory,
         attached' = Append(attached, object)
  PROVE  /\ AttachedInv' /\ \A o : Attached(o) => Attached(o)'
         /\ DOMAIN attached' = DOMAIN attached \cup {Len(attached) + 1}
         /\ \A i \in DOMAIN attached : i # Len(attached) + 1 /\ attached'[i] = attached[i] /\ i <= Len(attached) + 1
         /\ attached'[Len(attached) + 1] = object
<1> DEFINE S == directory \ Damaged
<1>1. attached \in Seq(S) /\ object \in S /\ AttachedInv' = (attached' \in Seq(S))
  BY DEF AttachedInv
<1> HIDE DEF S
<1>2. /\ attached' \in Seq(S) /\ Len(attached') = Len(attached) + 1
      /\ \A i \in 1 .. Len(attached) : attached'[i] = attached[i]
      /\ attached'[Len(attached) + 1] = object
  BY <1>1, AppendProperties
<1>3. /\ Len(attached) \in Nat /\ DOMAIN attached = 1 .. Len(attached)
      /\ DOMAIN attached' = 1 .. Len(attached) + 1
  BY <1>1, <1>2, LenProperties
<1>4. \A o : Attached(o) => Attached(o)'
  BY <1>2, <1>3 DEF Attached
<1>5. DOMAIN attached' = DOMAIN attached \cup {Len(attached) + 1}
  BY <1>3
<1>6. \A i \in DOMAIN attached : i # Len(attached) + 1 /\ i <= Len(attached) + 1
  BY <1>3
<1>7. \A i \in DOMAIN attached : attached'[i] = attached[i]
  BY <1>2, <1>3
<1> QED
  BY <1>1, <1>2, <1>4, <1>5, <1>6, <1>7

(* A backend is attached: it has no framings.                                 *)
LEMMA BackendHasNone ==
  ASSUME AttachedInv, FramingsInv, NEW object \in Available, directory' = directory,
         attached' = Append(attached, object), framings' = framings
  PROVE  AttachedInv' /\ FramingsInv'
<1>1. object \in directory \ Damaged /\ object \notin DOMAIN FramingPlugins
  BY PluginsAssumption DEF Available
<1>2. /\ AttachedInv' /\ DOMAIN attached' = DOMAIN attached \cup {Len(attached) + 1}
      /\ \A i \in DOMAIN attached : i # Len(attached) + 1 /\ attached'[i] = attached[i]
      /\ attached'[Len(attached) + 1] = object
  BY <1>1, Attaches
<1>3. ASSUME NEW n
      PROVE  Having(n)' = Having(n) /\ Provider(n)' = Provider(n)
  <2>1. Having(n)' = Having(n)
    BY <1>1, <1>2 DEF Having
  <2>2. Having(n) # {} => attached'[Max(Having(n))] = attached[Max(Having(n))]
    BY <1>2, ProviderIs DEF Having
  <2>3. Provider(n)' = IF Having(n)' = {} THEN "builtin" ELSE attached'[Max(Having(n)')]
    BY DEF Provider, Having
  <2> QED
    BY <2>1, <2>2, <2>3, ProviderIs
<1>4. Names' = Names
  BY <1>3 DEF Names
<1> QED
  BY <1>2, <1>3, <1>4 DEF FramingsInv

(* A framing plugin is attached: it has the names it registers from then on.  *)
LEMMA PluginHasNames ==
  ASSUME AttachedInv, FramingsInv, NEW object \in DOMAIN FramingPlugins,
         object \in directory \ Damaged, directory' = directory,
         attached' = Append(attached, object),
         framings' = plugin_register_framing(framings, object, FramingPlugins[object])
  PROVE  AttachedInv' /\ FramingsInv'
<1> DEFINE new == Len(attached) + 1
           names == FramingPlugins[object]
<1>1. /\ AttachedInv' /\ DOMAIN attached' = DOMAIN attached \cup {new}
      /\ \A i \in DOMAIN attached : i # new /\ attached'[i] = attached[i] /\ i <= new
      /\ attached'[new] = object
  BY Attaches
<1>1a. new \in Nat /\ \A i \in DOMAIN attached' : i \in 0 .. new
  <2>1. Len(attached) \in Nat /\ DOMAIN attached = 1 .. Len(attached)
    BY LenProperties DEF AttachedInv
  <2> QED
    BY <1>1, <2>1
<1> HIDE DEF new
<1>2. ASSUME NEW n
      PROVE  Having(n)' = Having(n) \cup (IF n \in names THEN {new} ELSE {})
  <2>1. \A i : i \in Having(n)' <=> \/ i \in Having(n)
                                    \/ i = new /\ n \in names
    BY <1>1 DEF Having
  <2> QED
    BY <2>1
<1>3. Names' = Names \cup names
  <2>1. ASSUME NEW n
        PROVE  n \in Names' <=> n \in Names \cup names
    <3>1. n \in Names <=> \/ n \in BuiltinFramings
                          \/ Having(n) # {}
      BY DEF Names, Having
    <3>2. n \in Names' <=> \/ n \in BuiltinFramings
                           \/ Having(n)' # {}
      BY DEF Names, Having
    <3> QED
      BY <1>2, <3>1, <3>2
  <2> QED
    BY <2>1
<1>4. ASSUME NEW n \in names
      PROVE  Provider(n)' = object
  <2>1. new \in Having(n)' /\ new \in Nat
    BY <1>2, <1>1a
  <2>2. \A i \in Having(n)' : i \in 0 .. new
    BY <1>1, <1>1a DEF Having
  <2>3. Max(Having(n)') \in Having(n)' /\ \A k \in Having(n)' : k <= Max(Having(n)')
    BY <2>1, <2>2, LargestIn
  <2>4. Max(Having(n)') = new
    <3> DEFINE m == Max(Having(n)')
    <3>1. m \in 0 .. new /\ new <= m
      BY <2>1, <2>2, <2>3
    <3> HIDE DEF m
    <3>2. m = new
      BY <2>1, <3>1
    <3> QED
      BY <3>2 DEF m
  <2>5. Provider(n)' = IF Having(n)' = {} THEN "builtin" ELSE attached'[Max(Having(n)')]
    BY DEF Provider, Having
  <2> QED
    BY <1>1, <2>1, <2>4, <2>5
<1>5. ASSUME NEW n, n \notin names
      PROVE  Provider(n)' = Provider(n)
  <2>1. Having(n)' = Having(n)
    BY <1>2, <1>5
  <2>2. Having(n) # {} => attached'[Max(Having(n))] = attached[Max(Having(n))]
    BY <1>1, ProviderIs DEF Having
  <2>3. Provider(n)' = IF Having(n)' = {} THEN "builtin" ELSE attached'[Max(Having(n)')]
    BY DEF Provider, Having
  <2> QED
    BY <2>1, <2>2, <2>3, ProviderIs
<1>6. framings' = [n \in DOMAIN framings \cup names |->
                     IF n \in names THEN [object |-> object, name |-> n] ELSE framings[n]]
  BY DEF plugin_register_framing
<1>7. DOMAIN framings = Names /\ \A n \in Names : framings[n] = [object |-> Provider(n), name |-> n]
  BY DEF FramingsInv
<1>8. \A n \in Names' : [object |-> Provider(n)', name |-> n]
                          = IF n \in names THEN [object |-> object, name |-> n] ELSE framings[n]
  BY <1>3, <1>4, <1>5, <1>7
<1>9. framings' = [n \in Names' |-> [object |-> Provider(n)', name |-> n]]
  BY <1>3, <1>6, <1>7, <1>8
<1> QED
  BY <1>1, <1>9 DEF FramingsInv

-----------------------------------------------------------------------------
(* The phases, and what the program has not done yet while it loads plugins.  *)
Phases == {"plugins", "options", "serve", "clients", "libraries", "done", "failed", "crashed"}

BaseInv ==
  /\ pc \in Phases
  /\ Len(call.lines) \in Nat /\ at \in 0 .. Len(call.lines) /\ section \in {"core", "backend"}
  /\ backend.library \in Libraries
  /\ backend.symbols = IF backend.library = "defaultpeer" THEN Symbols
                        ELSE BackendPlugins[backend.library].symbols

FreshInv ==
  pc = "plugins" =>
    /\ at = 0 /\ backend.library = "defaultpeer" /\ client = {}
    /\ core = [port |-> {}, listen |-> {}, ping |-> {}]
    /\ store = [defaultpeer |-> [host |-> {}, port |-> {}, framing |-> {}, config |-> {}, protocol |-> {}],
                 file |-> [path |-> {}, expressions |-> <<>>]]
    /\ calls = [l \in Libraries |-> [init |-> 0, cleanup |-> 0]]

LEMMA Rigid == Next \/ UNCHANGED vars => call' = call /\ directory' = directory
BY DEF Next, vars, LoadFraming, LoadFramingFails, InitDefault, NoFile, SectionHeader, Malformed, CoreOption,
       BackendMissing, BackendIncomplete, BackendLoaded, BackendOption, BackendOptionUnknown, Listen,
       Connect, ConnectCrashes, Disconnect, CleanupBackend, client_cleanup, plugin_cleanup, Ended

LEMMA BaseInit == Init => BaseInv /\ FreshInv
BY ConfigurationsAssumption DEF Init, BaseInv, FreshInv, Phases, Libraries

LEMMA BaseStep == BaseInv /\ FreshInv /\ [Next]_vars => BaseInv' /\ FreshInv'
<1> SUFFICES ASSUME BaseInv, FreshInv, [Next]_vars
             PROVE  BaseInv' /\ FreshInv'
  OBVIOUS
<1> USE DEF Phases
<1>1. call' = call /\ directory' = directory
  BY Rigid
<1>2. ASSUME Reads
      PROVE  at' \in 0 .. Len(call.lines) /\ pc = "options"
  BY <1>2 DEF BaseInv, Reads
<1>3. CASE \E object \in DOMAIN FramingPlugins : LoadFraming(object)
  BY <1>3, <1>1 DEF BaseInv, FreshInv, LoadFraming
<1>4. CASE LoadFramingFails \/ InitDefault \/ NoFile \/ Listen
  BY <1>4, <1>1 DEF BaseInv, FreshInv, LoadFramingFails, InitDefault, NoFile, Listen
<1>5. CASE SectionHeader \/ Malformed \/ CoreOption
  BY <1>5, <1>1, <1>2 DEF BaseInv, FreshInv, SectionHeader, Malformed, CoreOption
<1>6. CASE BackendOption \/ BackendOptionUnknown \/ BackendMissing
  BY <1>6, <1>1, <1>2 DEF BaseInv, FreshInv, BackendOption, BackendOptionUnknown, BackendMissing, AfterLine
<1>7. CASE BackendIncomplete \/ BackendLoaded
  <2>1. /\ Line.value \in DOMAIN BackendPlugins /\ pc' \in {pc, "failed"} /\ section' = section
        /\ backend' = [library |-> Line.value, symbols |-> BackendPlugins[Line.value].symbols]
        /\ at' \in 0 .. Len(call.lines) /\ pc = "options"
    BY <1>7, <1>2 DEF BackendIncomplete, BackendLoaded, Replace, AfterLine, Available
  <2>2. Line.value # "defaultpeer"
    BY <2>1, PluginsAssumption
  <2> HIDE DEF Line
  <2> QED
    BY <1>1, <2>1, <2>2 DEF BaseInv, FreshInv, Libraries
<1>8. CASE \E request \in Requests : Connect(request) \/ ConnectCrashes(request)
  BY <1>8, <1>1 DEF BaseInv, FreshInv, Connect, ConnectCrashes
<1>9. CASE Disconnect \/ CleanupBackend \/ client_cleanup \/ plugin_cleanup
  BY <1>9, <1>1 DEF BaseInv, FreshInv, Disconnect, CleanupBackend, client_cleanup, plugin_cleanup
<1>10. CASE Ended \/ UNCHANGED vars
  BY <1>10, <1>1 DEF BaseInv, FreshInv, Ended, vars
<1> QED
  BY <1>3, <1>4, <1>5, <1>6, <1>7, <1>8, <1>9, <1>10 DEF Next

-----------------------------------------------------------------------------
(* The framing library of the program, until it is freed.                     *)
LibraryInv == AttachedInv /\ (pc # "done" => FramingsInv)

LEMMA LibraryInit == Init => LibraryInv
<1> SUFFICES ASSUME Init
             PROVE  LibraryInv
  OBVIOUS
<1>1. attached = <<>> /\ framings = [n \in BuiltinFramings |-> [object |-> "builtin", name |-> n]]
  BY DEF Init, plugin_register_framing
<1>2. AttachedInv
  BY <1>1 DEF AttachedInv
<1>3. \A n : Having(n) = {}
  BY <1>1 DEF Having
<1>4. \A n : Provider(n) = "builtin"
  BY <1>2, <1>3, ProviderIs
<1>5. Names = BuiltinFramings
  BY <1>3 DEF Names
<1> QED
  BY <1>1, <1>2, <1>4, <1>5 DEF LibraryInv, FramingsInv

LEMMA SameLibrary ==
  ASSUME attached' = attached, framings' = framings, directory' = directory
  PROVE  /\ AttachedInv' = AttachedInv /\ FramingsInv' = FramingsInv
         /\ \A o : Attached(o)' = Attached(o)
         /\ \A n : FramingNamed(n)' = FramingNamed(n)
<1>1. \A n : Having(n)' = Having(n) /\ Provider(n)' = Provider(n) /\ Known(n)' = Known(n)
  BY DEF Having, Provider, Known
<1>2. Names' = Names
  BY <1>1 DEF Names
<1> QED
  BY <1>1, <1>2 DEF AttachedInv, FramingsInv, FramingNamed, Attached

LEMMA LibraryStep == BaseInv /\ LibraryInv /\ [Next]_vars => LibraryInv'
<1> SUFFICES ASSUME BaseInv, LibraryInv, [Next]_vars
             PROVE  LibraryInv'
  OBVIOUS
<1>1. call' = call /\ directory' = directory
  BY Rigid
<1>2. CASE \E object \in DOMAIN FramingPlugins : LoadFraming(object)
  <2>1. PICK object \in DOMAIN FramingPlugins : LoadFraming(object)
    BY <1>2
  <2>2. /\ object \in directory \ Damaged /\ attached' = Append(attached, object)
        /\ framings' = plugin_register_framing(framings, object, FramingPlugins[object]) /\ pc = "plugins"
    BY <2>1 DEF LoadFraming, Unattached
  <2>3. AttachedInv' /\ FramingsInv'
    BY <1>1, <2>2, PluginHasNames DEF LibraryInv
  <2> QED
    BY <2>3 DEF LibraryInv
<1>3. CASE BackendIncomplete \/ BackendLoaded
  <2>1. /\ Line.value \in Available /\ attached' = Append(attached, Line.value)
        /\ framings' = framings /\ pc = "options"
    BY <1>3 DEF BackendIncomplete, BackendLoaded, Replace, Reads
  <2>2. AttachedInv' /\ FramingsInv'
    BY <1>1, <2>1, BackendHasNone DEF LibraryInv
  <2> QED
    BY <2>2 DEF LibraryInv
<1>4. CASE plugin_cleanup
  <2>1. attached' = <<>> /\ pc' = "done"
    BY <1>4 DEF plugin_cleanup
  <2> QED
    BY <2>1 DEF LibraryInv, AttachedInv
<1>5. ASSUME attached' = attached, framings' = framings, pc = "done" => pc' = "done"
      PROVE  LibraryInv'
  BY <1>1, <1>5, SameLibrary DEF LibraryInv
<1>6. CASE LoadFramingFails \/ InitDefault \/ NoFile \/ Listen \/ SectionHeader \/ Malformed \/ CoreOption
  BY <1>5, <1>6 DEF LoadFramingFails, InitDefault, NoFile, Listen, SectionHeader, Malformed, CoreOption, Reads
<1>7. CASE BackendOption \/ BackendOptionUnknown \/ BackendMissing
  BY <1>5, <1>7 DEF BackendOption, BackendOptionUnknown, BackendMissing, Reads
<1>8. CASE \E request \in Requests : Connect(request) \/ ConnectCrashes(request)
  BY <1>5, <1>8 DEF Connect, ConnectCrashes
<1>9. CASE Disconnect \/ CleanupBackend \/ client_cleanup \/ Ended \/ UNCHANGED vars
  BY <1>5, <1>9 DEF Disconnect, CleanupBackend, client_cleanup, Ended, vars
<1> QED
  BY <1>2, <1>3, <1>4, <1>6, <1>7, <1>8, <1>9 DEF Next

-----------------------------------------------------------------------------
(* The backends' static variables: a pointer is NULL or one, the expressions  *)
(* are values of lines, and the framing is that of an attached object.        *)
AtMostOne(S) == \A x, y \in S : x = y
Values == {call.lines[i].value : i \in 1 .. Len(call.lines)}

Objects == {"builtin"} \cup {attached[i] : i \in DOMAIN attached}

OfPeer(d, objects) ==
  /\ d = [host |-> d.host, port |-> d.port, framing |-> d.framing, config |-> d.config, protocol |-> d.protocol]
  /\ AtMostOne(d.host) /\ \A f \in d.framing : f.object \in objects
OfFile(f, values) ==
  /\ f = [path |-> f.path, expressions |-> f.expressions]
  /\ AtMostOne(f.path) /\ f.expressions \in Seq(values)
OfStore(s, objects, values) ==
  /\ s = [defaultpeer |-> s.defaultpeer, file |-> s.file]
  /\ OfPeer(s.defaultpeer, objects) /\ OfFile(s.file, values)

LEMMA StoreOf ==
  ASSUME NEW objects, NEW values, NEW a, NEW b, OfPeer(a, objects), OfFile(b, values)
  PROVE  /\ OfStore([defaultpeer |-> a, file |-> b], objects, values)
         /\ [defaultpeer |-> a, file |-> b].defaultpeer = a
         /\ [defaultpeer |-> a, file |-> b].file = b
BY DEF OfStore

(* What a backend's init does to them,                                        *)
LEMMA InitKeeps ==
  ASSUME NEW objects, NEW values, NEW s, OfStore(s, objects, values), NEW library, library # "file"
  PROVE  InitOf(library, s).file = s.file
<1>1. DOMAIN s = {"defaultpeer", "file"}
  BY DEF OfStore
<1>2. CASE library = "defaultpeer"
  <2>1. InitOf(library, s) = [s EXCEPT !.defaultpeer = backend_defaultpeer_init(s.defaultpeer)]
    BY <1>2 DEF InitOf
  <2> QED
    BY <1>1, <2>1
<1>3. CASE library # "defaultpeer"
  BY <1>3 DEF InitOf
<1> QED
  BY <1>2, <1>3

LEMMA InitFile ==
  ASSUME NEW objects, NEW values, NEW s, OfStore(s, objects, values)
  PROVE  /\ OfStore(InitOf("file", s), objects, values)
         /\ InitOf("file", s).file = [path |-> {<<>>}, expressions |-> s.file.expressions]
<1> DEFINE f == file_init(s.file)
<1>1. s = [defaultpeer |-> s.defaultpeer, file |-> s.file] /\ OfPeer(s.defaultpeer, objects) /\ OfFile(s.file, values)
  BY DEF OfStore
<1>2. InitOf("file", s) = [defaultpeer |-> s.defaultpeer, file |-> f]
  BY <1>1 DEF InitOf
<1>3. f = [s.file EXCEPT !.path = {<<>>}] /\ DOMAIN s.file = {"path", "expressions"}
  BY <1>1 DEF file_init, OfFile
<1> HIDE DEF f
<1>4. f = [path |-> {<<>>}, expressions |-> s.file.expressions]
  BY <1>3
<1>5. OfFile(f, values)
  BY <1>1, <1>4 DEF OfFile, AtMostOne
<1>6. InitOf("file", s).file = f
  BY <1>1, <1>2, <1>5, StoreOf
<1> QED
  BY <1>1, <1>2, <1>4, <1>5, <1>6, StoreOf

LEMMA InitPeer ==
  ASSUME NEW objects, NEW values, NEW s, OfStore(s, objects, values)
  PROVE  /\ OfStore(InitOf("defaultpeer", s), objects, values)
         /\ InitOf("defaultpeer", s).defaultpeer.framing = {}
         /\ InitOf("defaultpeer", s).defaultpeer.config = {}
         /\ InitOf("defaultpeer", s).defaultpeer.protocol = s.defaultpeer.protocol
         /\ s.defaultpeer.host = {} =>
              InitOf("defaultpeer", s).defaultpeer.host = {[scheme |-> "tcp", name |-> "localhost", port |-> {}]}
         /\ s.defaultpeer.port = {} => InitOf("defaultpeer", s).defaultpeer.port = {"5900"}
<1> DEFINE d == backend_defaultpeer_init(s.defaultpeer)
           host == IF s.defaultpeer.host = {} THEN {[scheme |-> "tcp", name |-> "localhost", port |-> {}]}
                   ELSE s.defaultpeer.host
           port == IF s.defaultpeer.port = {} THEN {"5900"} ELSE s.defaultpeer.port
<1>1. s = [defaultpeer |-> s.defaultpeer, file |-> s.file] /\ OfPeer(s.defaultpeer, objects) /\ OfFile(s.file, values)
  BY DEF OfStore
<1>2. InitOf("defaultpeer", s) = [defaultpeer |-> d, file |-> s.file]
  BY <1>1 DEF InitOf
<1>3. AtMostOne(host)
  BY <1>1 DEF OfPeer, AtMostOne
<1>4. d = [s.defaultpeer EXCEPT !.host = host, !.port = port, !.framing = {}, !.config = {}]
  <2>1. DOMAIN s.defaultpeer = {"host", "port", "framing", "config", "protocol"}
    BY <1>1 DEF OfPeer
  <2> QED
    BY <2>1 DEF backend_defaultpeer_init
<1> HIDE DEF host, port, d
<1>5. d = [host |-> host, port |-> port, framing |-> {}, config |-> {}, protocol |-> s.defaultpeer.protocol]
  BY <1>1, <1>4 DEF OfPeer
<1>6. OfPeer(d, objects)
  BY <1>3, <1>5 DEF OfPeer
<1>7. InitOf("defaultpeer", s).defaultpeer = d
  BY <1>1, <1>2, <1>6, StoreOf
<1>8. d.host = host /\ d.port = port /\ d.framing = {} /\ d.config = {} /\ d.protocol = s.defaultpeer.protocol
  BY <1>5
<1>9. OfStore(InitOf("defaultpeer", s), objects, values)
  BY <1>1, <1>2, <1>6, StoreOf
<1> QED
  BY <1>7, <1>8, <1>9 DEF host, port

LEMMA InitIs ==
  ASSUME NEW objects, NEW values, NEW s, OfStore(s, objects, values), NEW library
  PROVE  OfStore(InitOf(library, s), objects, values)
<1>1. library \notin {"defaultpeer", "file"} => InitOf(library, s) = s
  BY DEF InitOf
<1> QED
  BY <1>1, InitFile, InitPeer

(* its cleanup,                                                               *)
LEMMA CleanupIs ==
  ASSUME NEW objects, NEW values, NEW s, OfStore(s, objects, values), NEW library
  PROVE  /\ OfStore(CleanupOf(library, s), objects, values)
         /\ library = "file" => CleanupOf(library, s).file = [path |-> {}, expressions |-> <<>>]
         /\ library # "file" => CleanupOf(library, s).file = s.file
         /\ library # "defaultpeer" => CleanupOf(library, s).defaultpeer = s.defaultpeer
<1>1. s = [defaultpeer |-> s.defaultpeer, file |-> s.file] /\ OfPeer(s.defaultpeer, objects) /\ OfFile(s.file, values)
  BY DEF OfStore
<1>2. CASE library = "file"
  <2> DEFINE f == [path |-> {}, expressions |-> <<>>]
  <2>1. CleanupOf(library, s) = [defaultpeer |-> s.defaultpeer, file |-> f]
    BY <1>1, <1>2 DEF CleanupOf, file_cleanup
  <2>2. OfFile(f, values)
    BY DEF OfFile, AtMostOne
  <2> HIDE DEF f
  <2>3. CleanupOf(library, s).file = f /\ CleanupOf(library, s).defaultpeer = s.defaultpeer
    BY <1>1, <2>1, <2>2, StoreOf
  <2>4. OfStore(CleanupOf(library, s), objects, values)
    BY <1>1, <2>1, <2>2, StoreOf
  <2> QED
    BY <1>2, <2>3, <2>4 DEF f
<1>3. CASE library = "defaultpeer"
  <2>1. CleanupOf(library, s) = [defaultpeer |-> backend_defaultpeer_cleanup(s.defaultpeer), file |-> s.file]
    BY <1>1, <1>3 DEF CleanupOf
  <2> DEFINE d == backend_defaultpeer_cleanup(s.defaultpeer)
  <2>2. d = [s.defaultpeer EXCEPT !.host = {}, !.port = {}, !.config = {}, !.protocol = {}]
    BY DEF backend_defaultpeer_cleanup
  <2> HIDE DEF d
  <2>3. d = [host |-> {}, port |-> {}, framing |-> s.defaultpeer.framing, config |-> {}, protocol |-> {}]
    <3>1. DOMAIN s.defaultpeer = {"host", "port", "framing", "config", "protocol"}
      BY <1>1 DEF OfPeer
    <3> QED
      BY <2>2, <3>1
  <2>4. OfPeer(d, objects)
    BY <1>1, <2>3 DEF OfPeer, AtMostOne
  <2>5. CleanupOf(library, s) = [defaultpeer |-> d, file |-> s.file]
    BY <2>1 DEF d
  <2> QED
    BY <1>1, <1>3, <2>4, <2>5, StoreOf
<1>4. CASE library \notin {"defaultpeer", "file"}
  BY <1>1, <1>4 DEF CleanupOf, OfStore
<1> QED
  BY <1>2, <1>3, <1>4

(* and an option it is given.                                                 *)
LEMMA ConfigureKeeps ==
  ASSUME NEW objects, NEW values, NEW s, OfStore(s, objects, values), NEW library, library # "file",
         NEW key, NEW value
  PROVE  ConfigureOf(library, s, key, value).file = s.file
<1>1. DOMAIN s = {"defaultpeer", "file"}
  BY DEF OfStore
<1>2. CASE library = "defaultpeer"
  <2>1. ConfigureOf(library, s, key, value)
          = [s EXCEPT !.defaultpeer = backend_defaultpeer_configure(s.defaultpeer, key, value)]
    BY <1>2 DEF ConfigureOf
  <2> QED
    BY <1>1, <2>1
<1>3. CASE library # "defaultpeer"
  BY <1>3 DEF ConfigureOf
<1> QED
  BY <1>2, <1>3

Pathed(value) == IF value # <<>> /\ Last(value) = Slash THEN Front(value) ELSE value
FileSet(f, key, value) ==
  [path |-> IF key = "path" THEN {Pathed(value)} ELSE f.path,
   expressions |-> IF key = "expression" THEN Append(f.expressions, value) ELSE f.expressions]
PeerSet(d, key, value) ==
  [host |-> IF key = "host" THEN {value} ELSE d.host,
   port |-> IF key = "port" THEN {value} ELSE d.port,
   framing |-> IF key = "framing" THEN {FramingNamed(value)} ELSE d.framing,
   config |-> IF key = "framing-config" THEN {value} ELSE d.config,
   protocol |-> IF key = "protocol" THEN {value} ELSE d.protocol]

LEMMA ConfigureFile ==
  ASSUME NEW s, OfStore(s, Objects, Values), NEW key, NEW value \in Values
  PROVE  /\ OfStore(ConfigureOf("file", s, key, value), Objects, Values)
         /\ ConfigureOf("file", s, key, value).file = FileSet(s.file, key, value)
<1> DEFINE f == file_configure(s.file, key, value)
<1>1. s = [defaultpeer |-> s.defaultpeer, file |-> s.file] /\ OfPeer(s.defaultpeer, Objects) /\ OfFile(s.file, Values)
  BY DEF OfStore
<1>2. ConfigureOf("file", s, key, value) = [defaultpeer |-> s.defaultpeer, file |-> f]
  BY <1>1 DEF ConfigureOf
<1>3. f = CASE key = "path" -> [s.file EXCEPT !.path = {Pathed(value)}]
            [] key = "expression" -> [s.file EXCEPT !.expressions = Append(s.file.expressions, value)]
            [] OTHER -> s.file
  BY DEF file_configure, Pathed
<1> HIDE DEF f
<1>4. f = FileSet(s.file, key, value)
  BY <1>1, <1>3 DEF OfFile, FileSet
<1>5. OfFile(f, Values)
  <2>1. Append(s.file.expressions, value) \in Seq(Values)
    BY <1>1, AppendProperties DEF OfFile
  <2> QED
    BY <1>1, <1>4, <2>1 DEF OfFile, FileSet, AtMostOne
<1> QED
  BY <1>1, <1>2, <1>4, <1>5, StoreOf

LEMMA ConfigurePeer ==
  ASSUME LibraryInv, FramingsInv, NEW s, OfStore(s, Objects, Values), NEW key, NEW value
  PROVE  /\ OfStore(ConfigureOf("defaultpeer", s, key, value), Objects, Values)
         /\ ConfigureOf("defaultpeer", s, key, value).defaultpeer = PeerSet(s.defaultpeer, key, value)
<1> DEFINE d == backend_defaultpeer_configure(s.defaultpeer, key, value)
<1>1. s = [defaultpeer |-> s.defaultpeer, file |-> s.file] /\ OfPeer(s.defaultpeer, Objects) /\ OfFile(s.file, Values)
  BY DEF OfStore
<1>2. ConfigureOf("defaultpeer", s, key, value) = [defaultpeer |-> d, file |-> s.file]
  BY <1>1 DEF ConfigureOf
<1>3. plugin_framing(framings, value) = FramingNamed(value) /\ FramingNamed(value).object \in Objects
  BY FramingFound DEF LibraryInv, Objects, Attached
<1>4. d = PeerSet(s.defaultpeer, key, value)
  BY <1>1, <1>3 DEF OfPeer, PeerSet, backend_defaultpeer_configure
<1> HIDE DEF d
<1>5. OfPeer(d, Objects)
  BY <1>1, <1>3, <1>4 DEF OfPeer, PeerSet, AtMostOne
<1> QED
  BY <1>1, <1>2, <1>4, <1>5, StoreOf

LEMMA ConfigureIs ==
  ASSUME LibraryInv, FramingsInv, NEW s, OfStore(s, Objects, Values), NEW library, NEW key, NEW value \in Values
  PROVE  OfStore(ConfigureOf(library, s, key, value), Objects, Values)
<1>1. library \notin {"defaultpeer", "file"} => ConfigureOf(library, s, key, value) = s
  BY DEF ConfigureOf
<1> QED
  BY <1>1, ConfigureFile, ConfigurePeer

StoreInv ==
  /\ pc # "done" => OfStore(store, Objects, Values)
  /\ backend.library # "file" => store.file.expressions = <<>>

(* What is left when the backend so far has been cleaned up: no expressions   *)
(* in any case.                                                               *)
LEMMA CleanedIs ==
  ASSUME BaseInv, StoreInv, pc # "done"
  PROVE  OfStore(Cleaned, Objects, Values) /\ Cleaned.file.expressions = <<>>
<1>1. OfStore(store, Objects, Values)
  BY DEF StoreInv
<1>2. CASE backend.library = "file"
  <2>1. "cleanup" \in backend.symbols
    BY <1>2, PluginsAssumption DEF BaseInv, Libraries, Symbols
  <2>2. Cleaned = CleanupOf("file", store)
    BY <1>2, <2>1 DEF Cleaned
  <2>3. CleanupOf("file", store).file = [path |-> {}, expressions |-> <<>>]
    BY <1>1, CleanupIs
  <2> QED
    BY <1>1, <2>2, <2>3, CleanupIs
<1>3. CASE backend.library # "file"
  <2>1. store.file.expressions = <<>>
    BY <1>3 DEF StoreInv
  <2>2. CASE "cleanup" \in backend.symbols
    <3>1. Cleaned = CleanupOf(backend.library, store)
      BY <2>2 DEF Cleaned
    <3>2. CleanupOf(backend.library, store).file = store.file
      BY <1>1, <1>3, CleanupIs
    <3> QED
      BY <1>1, <2>1, <3>1, <3>2, CleanupIs
  <2>3. CASE "cleanup" \notin backend.symbols
    BY <1>1, <2>1, <2>3 DEF Cleaned
  <2> QED
    BY <2>2, <2>3
<1> QED
  BY <1>2, <1>3

LEMMA InitedIs ==
  ASSUME NEW objects, NEW values, NEW s, OfStore(s, objects, values), NEW library,
         s.file.expressions = <<>>
  PROVE  OfStore(InitOf(library, s), objects, values) /\ InitOf(library, s).file.expressions = <<>>
<1>1. CASE library = "file"
  <2> DEFINE f == [path |-> {<<>>}, expressions |-> s.file.expressions]
  <2>1. InitOf("file", s).file = f
    BY InitFile
  <2> QED
    BY <1>1, <2>1, InitIs
<1>2. CASE library # "file"
  <2>1. InitOf(library, s).file = s.file
    BY <1>2, InitKeeps
  <2> QED
    BY <2>1, InitIs
<1> QED
  BY <1>1, <1>2

LEMMA StoreStays ==
  ASSUME NEW objects, NEW values, NEW s, OfStore(s, objects, values), NEW more, objects \subseteq more
  PROVE  OfStore(s, more, values)
<1>1. OfPeer(s.defaultpeer, objects) => OfPeer(s.defaultpeer, more)
  <2> DEFINE d == s.defaultpeer
  <2> HIDE DEF d
  <2>1. OfPeer(d, objects) => OfPeer(d, more)
    BY DEF OfPeer
  <2> QED
    BY <2>1 DEF d
<1> QED
  BY <1>1 DEF OfStore

LEMMA StoreStep == BaseInv /\ FreshInv /\ LibraryInv /\ StoreInv /\ [Next]_vars => StoreInv'
<1> SUFFICES ASSUME BaseInv, FreshInv, LibraryInv, StoreInv, [Next]_vars
             PROVE  StoreInv'
  OBVIOUS
<1>1. call' = call /\ directory' = directory /\ Values' = Values
  BY Rigid DEF Values
<1>2. ASSUME pc # "done"
      PROVE  OfStore(store, Objects, Values)
  BY <1>2 DEF StoreInv
<1>3. ASSUME attached' = attached, backend' = backend, store' = store, pc # "done" \/ pc' = "done"
      PROVE  StoreInv'
  <2>1. Objects' = Objects
    BY <1>3 DEF Objects
  <2> QED
    BY <1>1, <1>3, <2>1 DEF StoreInv
<1>4. ASSUME attached' = attached, backend' = backend, pc # "done", store' = Cleaned
      PROVE  StoreInv'
  <2>1. Objects' = Objects
    BY <1>4 DEF Objects
  <2> QED
    BY <1>1, <1>4, <2>1, CleanedIs DEF StoreInv
<1>5. CASE \E object \in DOMAIN FramingPlugins : LoadFraming(object)
  <2>1. PICK object \in DOMAIN FramingPlugins : LoadFraming(object)
    BY <1>5
  <2>2. /\ object \in directory \ Damaged /\ attached' = Append(attached, object)
        /\ pc = "plugins" /\ store' = store /\ backend' = backend
    BY <2>1 DEF LoadFraming, Unattached
  <2>3. \A o : Attached(o) => Attached(o)'
    BY <1>1, <2>2, Attaches DEF LibraryInv
  <2>4. Objects \subseteq Objects'
    BY <2>3 DEF Attached, Objects
  <2> QED
    BY <1>1, <1>2, <2>2, <2>4, StoreStays DEF StoreInv
<1>6. CASE InitDefault
  <2>1. /\ store' = InitOf(backend.library, store) /\ attached' = attached /\ backend' = backend
        /\ pc = "plugins"
    BY <1>6 DEF InitDefault
  <2>2. Objects' = Objects /\ backend.library = "defaultpeer"
    BY <2>1 DEF Objects, FreshInv
  <2>3. store.file.expressions = <<>>
    BY <2>2 DEF StoreInv
  <2> QED
    BY <1>1, <1>2, <2>1, <2>2, <2>3, InitedIs DEF StoreInv
<1>7. CASE BackendMissing
  BY <1>4, <1>7 DEF BackendMissing, Reads
<1>8. CASE BackendIncomplete \/ BackendLoaded
  <2>1. /\ Line.value \in Available /\ attached' = Append(attached, Line.value) /\ pc = "options"
        /\ store' \in {Cleaned, InitOf(Line.value, Cleaned)}
    BY <1>8 DEF BackendIncomplete, BackendLoaded, Replace, Reads
  <2>2. OfStore(Cleaned, Objects, Values) /\ Cleaned.file.expressions = <<>>
    BY <2>1, CleanedIs
  <2>3. OfStore(store', Objects, Values) /\ store'.file.expressions = <<>>
    BY <2>1, <2>2, InitedIs
  <2>4. \A o : Attached(o) => Attached(o)'
    BY <1>1, <2>1, Attaches DEF LibraryInv, Available
  <2>5. Objects \subseteq Objects'
    BY <2>4 DEF Attached, Objects
  <2> QED
    BY <1>1, <2>3, <2>5, StoreStays DEF StoreInv
<1>9. CASE BackendOption
  <2>1. /\ store' = ConfigureOf(backend.library, store, Line.key, Line.value) /\ attached' = attached
        /\ backend' = backend /\ pc = "options" /\ at < Len(call.lines)
    BY <1>9 DEF BackendOption, Reads
  <2>2. Line.value \in Values
    <3>1. at + 1 \in 1 .. Len(call.lines)
      BY <2>1 DEF BaseInv
    <3> QED
      BY <3>1 DEF Line, Values
  <2>3. Objects' = Objects /\ FramingsInv
    BY <2>1 DEF Objects, LibraryInv
  <2>4. OfStore(store', Objects, Values)
    BY <1>2, <2>1, <2>2, <2>3, ConfigureIs
  <2>5. backend.library # "file" => store'.file = store.file
    BY <1>2, <2>1, <2>2, <2>3, ConfigureKeeps
  <2> QED
    BY <1>1, <2>1, <2>3, <2>4, <2>5 DEF StoreInv
<1>10. CASE CleanupBackend
  BY <1>4, <1>10 DEF CleanupBackend
<1>11. CASE plugin_cleanup
  BY <1>11 DEF plugin_cleanup, StoreInv
<1>12. CASE LoadFramingFails \/ NoFile \/ Listen \/ SectionHeader \/ Malformed \/ CoreOption
  BY <1>3, <1>12 DEF LoadFramingFails, NoFile, Listen, SectionHeader, Malformed, CoreOption, Reads
<1>13. CASE BackendOptionUnknown \/ \E request \in Requests : Connect(request) \/ ConnectCrashes(request)
  BY <1>3, <1>13 DEF BackendOptionUnknown, Reads, Connect, ConnectCrashes
<1>14. CASE Disconnect \/ client_cleanup \/ Ended \/ UNCHANGED vars
  BY <1>3, <1>14 DEF Disconnect, client_cleanup, Ended, vars
<1> QED
  BY <1>5, <1>6, <1>7, <1>8, <1>9, <1>10, <1>11, <1>12, <1>13, <1>14 DEF Next

-----------------------------------------------------------------------------
(* query has at most one answer.                                              *)
LEMMA OneAnswer ==
  ASSUME NEW path, NEW expressions, NEW request, Len(expressions) \in Nat
  PROVE  AtMostOne(query(path, expressions, request))
<1> DEFINE N == Len(expressions)
           tried == Tried(path, expressions, request)
           P == {k \in 0 .. N : AtMostOne(tried[k].lines)}
<1>1. TriedBy(tried, path, expressions, request)
  BY TriedSteps
<1>2. query(path, expressions, request) = tried[N].lines
  BY DEF query
<1> HIDE DEF tried
<1>3. 0 \in P
  BY <1>1 DEF TriedBy, AtMostOne
<1>4. ASSUME NEW k \in 1 .. N, k - 1 \in P PROVE k \in P
  <2>1. tried[k] = TriedNext(k, tried[k - 1], path, expressions, request)
    BY <1>1 DEF TriedBy
  <2>2. \A before : AtMostOne(before.lines) => AtMostOne(TriedNext(k, before, path, expressions, request).lines)
    BY DEF AtMostOne, TriedNext
  <2>3. AtMostOne(tried[k].lines)
    BY <1>4, <2>1, <2>2
  <2> QED
    BY <2>3
<1>5. \A k \in 0 .. N : k \in P
  <2> HIDE DEF P
  <2> QED
    BY <1>3, <1>4, UpTo
<1> QED
  BY <1>2, <1>5

-----------------------------------------------------------------------------
(* The clients: each has at most one peer, whose framing is still attached.   *)
Connected(c, objects) ==
  /\ c.request \in Requests /\ AtMostOne(c.to) /\ (c.open => c.to # {})
  /\ \A t \in c.to : t.framing.object \in objects

ClientInv ==
  /\ \A c \in client : Connected(c, Objects)
  /\ pc \in {"libraries", "done"} => client = {}

LEMMA QueryIs ==
  ASSUME LibraryInv, FramingsInv, OfStore(store, Objects, Values), NEW library, NEW request
  PROVE  /\ AtMostOne(QueryOf(library, request).host)
         /\ \A f \in QueryOf(library, request).framing : f.object \in Objects
<1>1. OfPeer(store.defaultpeer, Objects) /\ OfFile(store.file, Values)
  BY DEF OfStore
<1>2. CASE library = "defaultpeer"
  <2> DEFINE d == store.defaultpeer
             p == QueryOf(library, request)
  <2>1. p = backend_defaultpeer_query(d, request)
    BY <1>2 DEF QueryOf
  <2> HIDE DEF d
  <2>2. p.host = d.host /\ p.framing = d.framing
    BY <2>1 DEF backend_defaultpeer_query
  <2>3. OfPeer(d, Objects)
    BY <1>1 DEF d
  <2> HIDE DEF p
  <2>4. AtMostOne(p.host) /\ \A f \in p.framing : f.object \in Objects
    BY <2>2, <2>3 DEF OfPeer
  <2> QED
    BY <2>4 DEF p
<1>3. CASE library = "file"
  <2> DEFINE f == store.file
             p == QueryOf(library, request)
             found == UNION {query(path, f.expressions, request) : path \in f.path}
             name(line) == IF line.framing = {} THEN "auto" ELSE CHOOSE n \in line.framing : TRUE
  <2>1. p = file_query(f, request)
    BY <1>3 DEF QueryOf
  <2>2. AtMostOne(f.path) /\ Len(f.expressions) \in Nat
    BY <1>1, LenProperties DEF OfFile
  <2> HIDE DEF f
  <2>3. /\ p.host = {line.host : line \in found}
        /\ p.framing = {plugin_framing(framings, name(line)) : line \in found}
    BY <2>1 DEF file_query
  <2>4. \A path : AtMostOne(query(path, f.expressions, request))
    BY <2>2, OneAnswer
  <2>5. AtMostOne(found)
    BY <2>2, <2>4 DEF AtMostOne
  <2> HIDE DEF found, name, p
  <2>6. AtMostOne(p.host)
    BY <2>3, <2>5 DEF AtMostOne
  <2>7. \A n : plugin_framing(framings, n).object \in Objects
    BY FramingFound DEF LibraryInv, Objects, Attached
  <2>8. \A x \in p.framing : x.object \in Objects
    BY <2>3, <2>7
  <2> QED
    BY <2>6, <2>8 DEF p
<1>4. CASE library \notin {"defaultpeer", "file"}
  <2>1. QueryOf(library, request) = NoPeer(request)
    BY <1>4 DEF QueryOf
  <2> QED
    BY <2>1 DEF NoPeer, AtMostOne
<1> QED
  BY <1>2, <1>3, <1>4

LEMMA ConnectIs ==
  ASSUME NEW peer, AtMostOne(peer.host), \A f \in peer.framing : f.object \in Objects
  PROVE  /\ AtMostOne(client_connect(peer))
         /\ \A t \in client_connect(peer) : t.framing.object \in Objects
<1> DEFINE framing == IF peer.framing = {} THEN [object |-> "builtin", name |-> "auto"]
                      ELSE CHOOSE f \in peer.framing : TRUE
<1>1. framing.object \in Objects
  BY DEF Objects
<1>2. \A t \in client_connect(peer) : t.framing = framing
  <2> DEFINE transport(host) == IF host.scheme = "" THEN "tcp" ELSE host.scheme
             inet(host) == transport(host) \in {"tcp", "udp"}
             inferred(host) == inet(host) /\ peer.port = {}
             port(host) == IF inferred(host) THEN host.port ELSE IF inet(host) THEN peer.port ELSE {}
             rest(host) == IF inferred(host) THEN {} ELSE host.port
             socket(host) == [transport |-> transport(host), name |-> host.name, port |-> port(host),
                              rest |-> rest(host), framing |-> framing,
                              config |-> peer.config, protocol |-> peer.protocol]
  <2>1. \A t \in client_connect(peer) : \E host : t = socket(host)
    BY DEF client_connect
  <2> HIDE DEF transport, port, rest, framing
  <2>2. \A host : socket(host).framing = framing
    OBVIOUS
  <2> HIDE DEF socket
  <2> QED
    BY <2>1, <2>2
<1> HIDE DEF framing
<1>3. AtMostOne(client_connect(peer))
  BY DEF client_connect, AtMostOne
<1> QED
  BY <1>1, <1>2, <1>3

LEMMA ClientStep == BaseInv /\ LibraryInv /\ StoreInv /\ ClientInv /\ [Next]_vars => ClientInv'
<1> SUFFICES ASSUME BaseInv, LibraryInv, StoreInv, ClientInv, [Next]_vars
             PROVE  ClientInv'
  OBVIOUS
<1>1. call' = call /\ directory' = directory
  BY Rigid
<1>2. ASSUME attached' = attached, client' = client \/ client' = {},
             pc' \in {"libraries", "done"} => client' = {}
      PROVE  ClientInv'
  <2>1. Objects' = Objects
    BY <1>2 DEF Objects
  <2> QED
    BY <1>2, <2>1 DEF ClientInv, Connected
<1>3. ASSUME NEW object \in directory \ Damaged, attached' = Append(attached, object),
             client' = client, pc' \notin {"libraries", "done"}
      PROVE  ClientInv'
  <2>1. \A o : Attached(o) => Attached(o)'
    BY <1>1, <1>3, Attaches DEF LibraryInv
  <2>2. Objects \subseteq Objects'
    BY <2>1 DEF Attached, Objects
  <2> QED
    BY <1>3, <2>2 DEF ClientInv, Connected
<1>4. CASE \E object \in DOMAIN FramingPlugins : LoadFraming(object)
  BY <1>3, <1>4 DEF LoadFraming, Unattached
<1>5. CASE BackendIncomplete \/ BackendLoaded
  BY <1>3, <1>5 DEF BackendIncomplete, BackendLoaded, Replace, Reads, Available, AfterLine
<1>6. CASE \E request \in Requests : Connect(request)
  <2>1. PICK request \in Requests : Connect(request)
    BY <1>6
  <2> DEFINE to == client_connect(QueryOf(backend.library, request))
  <2>2. AtMostOne(to) /\ \A t \in to : t.framing.object \in Objects
    BY <2>1, QueryIs, ConnectIs DEF Connect, LibraryInv, StoreInv
  <2>3. PICK open \in BOOLEAN :
          /\ open => \E t \in to : t.rest = {}
          /\ client' = {[request |-> request, to |-> to, open |-> open]}
    BY <2>1 DEF Connect
  <2>4. Objects' = Objects /\ pc' = "serve"
    BY <2>1 DEF Connect, Objects
  <2> HIDE DEF to
  <2>5. open => to # {}
    BY <2>3
  <2>6. Connected([request |-> request, to |-> to, open |-> open], Objects)
    BY <2>2, <2>5 DEF Connected
  <2> QED
    BY <2>3, <2>4, <2>6 DEF ClientInv
<1>7. CASE plugin_cleanup
  BY <1>7 DEF plugin_cleanup, ClientInv
<1>8. CASE LoadFramingFails \/ InitDefault \/ NoFile \/ Listen \/ SectionHeader \/ Malformed \/ CoreOption
  BY <1>2, <1>8 DEF LoadFramingFails, InitDefault, NoFile, Listen, SectionHeader, Malformed, CoreOption, Reads
<1>9. CASE BackendOption \/ BackendOptionUnknown \/ BackendMissing
  BY <1>2, <1>9 DEF BackendOption, BackendOptionUnknown, BackendMissing, Reads, AfterLine
<1>10. CASE \E request \in Requests : ConnectCrashes(request)
  BY <1>2, <1>10 DEF ConnectCrashes
<1>11. CASE Disconnect \/ CleanupBackend \/ client_cleanup \/ Ended \/ UNCHANGED vars
  BY <1>2, <1>11 DEF Disconnect, CleanupBackend, client_cleanup, Ended, vars, ClientInv
<1> QED
  BY <1>4, <1>5, <1>6, <1>7, <1>8, <1>9, <1>10, <1>11 DEF Next

-----------------------------------------------------------------------------
IInv == BaseInv /\ FreshInv /\ LibraryInv /\ StoreInv /\ ClientInv

LEMMA StoreInit == Init => StoreInv /\ ClientInv
<1> SUFFICES ASSUME Init
             PROVE  StoreInv /\ ClientInv
  OBVIOUS
<1> DEFINE d == [host |-> {}, port |-> {}, framing |-> {}, config |-> {}, protocol |-> {}]
           f == [path |-> {}, expressions |-> <<>>]
<1>1. OfPeer(d, Objects) /\ OfFile(f, Values)
  BY DEF OfPeer, OfFile, AtMostOne
<1>2. f.expressions = <<>>
  OBVIOUS
<1>3. store = [defaultpeer |-> d, file |-> f] /\ client = {}
  BY DEF Init
<1> HIDE DEF d, f
<1> QED
  BY <1>1, <1>2, <1>3, StoreOf DEF StoreInv, ClientInv

LEMMA Inductive == Spec => []IInv
<1>1. Init => IInv
  BY BaseInit, LibraryInit, StoreInit DEF IInv
<1>2. IInv /\ [Next]_vars => IInv'
  BY BaseStep, LibraryStep, StoreStep, ClientStep DEF IInv
<1> QED
  BY <1>1, <1>2, PTL DEF Spec

(* The phases, the backend and the counters are of their types, the objects   *)
(* attached could be loaded, the program's own framings are there until they  *)
(* are freed, and a client has at most one call of network_socket.            *)
THEOREM TypeCorrect == Spec => []TypeOK
<1>1. IInv => TypeOK
  <2> SUFFICES ASSUME IInv
               PROVE  TypeOK
    OBVIOUS
  <2> USE DEF IInv
  <2>1. /\ pc \in {"plugins", "options", "serve", "clients", "libraries", "done", "failed", "crashed"}
        /\ at \in 0 .. Len(call.lines) /\ section \in {"core", "backend"}
        /\ backend.library \in Libraries
    BY DEF BaseInv, Phases
  <2>2. backend.symbols \subseteq Symbols
    BY PluginsAssumption DEF BaseInv, Libraries
  <2>3. \A i \in DOMAIN attached : attached[i] \in directory \ Damaged
    BY LenProperties, ElementOfSeq DEF LibraryInv, AttachedInv
  <2>4. BuiltinFramings \subseteq DOMAIN framings \/ pc = "done"
    BY DEF LibraryInv, FramingsInv, Names
  <2>5. ASSUME NEW f \in client
        PROVE  f.request \in Requests /\ Cardinality(f.to) <= 1 /\ (f.open => f.to # {})
    <3>1. f.request \in Requests /\ AtMostOne(f.to) /\ (f.open => f.to # {})
      BY DEF ClientInv, Connected
    <3>2. f.to = {} \/ \E t \in f.to : f.to = {t}
      BY <3>1 DEF AtMostOne
    <3>3. Cardinality({}) = 0 /\ \A t : Cardinality({t}) = 1
      BY FS_EmptySet, FS_Singleton
    <3>4. Cardinality(f.to) \in {0, 1}
      BY <3>2, <3>3
    <3>5. Cardinality(f.to) <= 1
      <4> DEFINE n == Cardinality(f.to)
      <4>1. n \in {0, 1}
        BY <3>4
      <4> HIDE DEF n
      <4>2. n <= 1
        BY <4>1
      <4> QED
        BY <4>2 DEF n
    <3> QED
      BY <3>1, <3>5
  <2> QED
    BY <2>1, <2>2, <2>3, <2>4, <2>5 DEF TypeOK
<1> QED
  BY <1>1, Inductive, PTL

(* As long as a client is there, so is the object its framing function is in: *)
(* the clients are closed before the plugins are.                             *)
THEOREM FramingsLive == Spec => []FramingAttached
<1>1. IInv => FramingAttached
  BY DEF IInv, ClientInv, Connected, Objects, FramingAttached
<1> QED
  BY <1>1, Inductive, PTL
=============================================================================
