------------------------------- MODULE Config -------------------------------
(* main() but for its loop: the plugins it loads, the options it reads from a *)
(* file or its arguments, the backend they name and configure, the peers that *)
(* backend gives to clients, and the shutdown.                                *)
(*                                                                            *)
(* Pointers that may be NULL are sets of at most one element.  A function is  *)
(* [object, name]: the shared object it is in, "builtin" for the program's.   *)
EXTENDS BackendFile, FiniteSets

CONSTANTS
  FramingPlugins,  \* the framings each shared object registers when it is loaded
  BackendPlugins,  \* the shared objects backend_*: [symbols, current], the second for the API version
  Damaged,         \* the shared objects that cannot be loaded
  Directories,     \* what may be in the plugin path: sets of shared objects
  Configurations,  \* how the program may be called: [source: "file" or "arguments", lines], numbered
  Requests,        \* what clients may ask: [endpoint, protocols, cookies, headers]
  Lower            \* the protocols' names in lower case

Symbols == {"init", "configure", "query", "cleanup"}

(* An object is a framing plugin or a backend_*, the program itself neither;  *)
(* what a backend may have are the symbols of ws_backend, and the backend     *)
(* file of this repository has them all.                                      *)
ASSUME PluginsAssumption ==
  /\ DOMAIN FramingPlugins \cap DOMAIN BackendPlugins = {}
  /\ "builtin" \notin DOMAIN FramingPlugins \cup DOMAIN BackendPlugins
  /\ "defaultpeer" \notin DOMAIN BackendPlugins
  /\ \A b \in DOMAIN BackendPlugins : BackendPlugins[b].symbols \subseteq Symbols
  /\ "file" \in DOMAIN BackendPlugins => BackendPlugins["file"].symbols = Symbols
ASSUME ConfigurationsAssumption ==
  \A i \in DOMAIN Configurations : Len(Configurations[i].lines) \in Nat

VARIABLES
  pc,        \* main()'s phase
  directory, \* what is in the plugin path
  call,      \* how the program was called
  at,        \* lines or arguments read
  section,   \* config_section
  core,      \* config: host, port, ping_interval; {} as long as not set
  backend,   \* config.backend: the library its functions are from, and which of them it has
  attached,  \* attached_library, in the order loaded
  framings,  \* framing_function by framing_function_name
  store,     \* the static variables of the backends this repository has
  calls,     \* how often the backends were initialized and cleaned up
  client     \* the last client: its request, the call of network_socket made for it, whether it is open

vars == <<pc, directory, call, at, section, core, backend, attached, framings, store, calls, client>>

Libraries == DOMAIN BackendPlugins \cup {"defaultpeer"}
Strict == call.source = "file"

-----------------------------------------------------------------------------
(* The framing library.                                                       *)
BuiltinFramings == {"auto", "binary", "separator", "newline"}

(* Mutation: a name that is taken is kept by who has it.                      *)
plugin_register_framingKeeps(library, object, names) ==
  [n \in DOMAIN library \cup names |->
     IF n \in DOMAIN library THEN library[n] ELSE [object |-> object, name |-> n]]

plugin_register_framing(library, object, names) ==
  [n \in DOMAIN library \cup names |->
     IF n \in names THEN [object |-> object, name |-> n] ELSE library[n]]

plugin_framing(library, name) == library[IF name \in DOMAIN library THEN name ELSE "auto"]

(* The default backend.                                                       *)
backend_defaultpeer_init(d) ==
  [d EXCEPT !.host = IF @ = {} THEN {[scheme |-> "tcp", name |-> "localhost", port |-> {}]} ELSE @,
            !.port = IF @ = {} THEN {"5900"} ELSE @,
            !.framing = {}, !.config = {}]

backend_defaultpeer_keys == {"host", "port", "protocol", "framing", "framing-config"}
backend_defaultpeer_configure(d, key, value) ==
  CASE key = "host" -> [d EXCEPT !.host = {value}]
    [] key = "port" -> [d EXCEPT !.port = {value}]
    [] key = "protocol" -> [d EXCEPT !.protocol = {value}]
    [] key = "framing" -> [d EXCEPT !.framing = {plugin_framing(framings, value)}]
    [] key = "framing-config" -> [d EXCEPT !.config = {value}]
    [] OTHER -> d

backend_defaultpeer_cleanup(d) ==
  [d EXCEPT !.host = {}, !.port = {}, !.config = {}, !.protocol = {}]

backend_defaultpeer_query(d, request) ==
  LET count == Len(request.protocols)
      same == {i \in 1 .. count : \E p \in d.protocol : Lower[request.protocols[i]] = Lower[p]}
  IN [host |-> d.host, port |-> d.port, framing |-> d.framing, config |-> d.config,
      protocol |-> IF d.protocol = {"*"} THEN 0 ELSE IF same = {} THEN count ELSE Min(same) - 1]

(* The backend file, but for its query, which is in BackendFile.              *)
file_init(f) == [f EXCEPT !.path = {<<>>}]
file_keys == {"path", "expression"}
file_configure(f, key, value) ==
  CASE key = "path" ->
         [f EXCEPT !.path = {IF value # <<>> /\ Last(value) = Slash THEN Front(value) ELSE value}]
    [] key = "expression" -> [f EXCEPT !.expressions = Append(@, value)]
    [] OTHER -> f

(* Mutation: the expressions are freed but still counted.                     *)
file_cleanupPathOnly(f) == [f EXCEPT !.path = {}]

file_cleanup(f) == [path |-> {}, expressions |-> <<>>]

file_query(f, request) ==
  LET found == UNION {query(path, f.expressions, request) : path \in f.path}
  IN [host |-> {line.host : line \in found},
      port |-> {},
      framing |-> {plugin_framing(framings, IF line.framing = {} THEN "auto"
                                            ELSE CHOOSE n \in line.framing : TRUE) : line \in found},
      config |-> UNION {line.config : line \in found},
      protocol |-> IF found = {} THEN Len(request.protocols)
                   ELSE ProtocolOf(CHOOSE line \in found : TRUE, request.protocols)]

(* The functions of whatever backend there is; others have nothing in store.  *)
InitOf(library, s) ==
  CASE library = "defaultpeer" -> [s EXCEPT !.defaultpeer = backend_defaultpeer_init(@)]
    [] library = "file" -> [s EXCEPT !.file = file_init(@)]
    [] OTHER -> s
ConfigureOf(library, s, key, value) ==
  CASE library = "defaultpeer" -> [s EXCEPT !.defaultpeer = backend_defaultpeer_configure(@, key, value)]
    [] library = "file" -> [s EXCEPT !.file = file_configure(@, key, value)]
    [] OTHER -> s
CleanupOf(library, s) ==
  CASE library = "defaultpeer" -> [s EXCEPT !.defaultpeer = backend_defaultpeer_cleanup(@)]
    [] library = "file" -> [s EXCEPT !.file = file_cleanup(@)]
    [] OTHER -> s
Accepts(library, key) ==
  CASE library = "defaultpeer" -> key \in backend_defaultpeer_keys
    [] library = "file" -> key \in file_keys
    [] OTHER -> TRUE
NoPeer(request) ==
  [host |-> {}, port |-> {}, framing |-> {}, config |-> {}, protocol |-> Len(request.protocols)]
QueryOf(library, request) ==
  CASE library = "defaultpeer" -> backend_defaultpeer_query(store.defaultpeer, request)
    [] library = "file" -> file_query(store.file, request)
    [] OTHER -> NoPeer(request)

-----------------------------------------------------------------------------
Init ==
  /\ pc = "plugins"
  /\ directory \in Directories /\ \E i \in DOMAIN Configurations : call = Configurations[i]
  /\ at = 0 /\ section = "core"
  /\ core = [port |-> {}, listen |-> {}, ping |-> {}]
  /\ backend = [library |-> "defaultpeer", symbols |-> Symbols]
  /\ attached = <<>>
  /\ framings = plugin_register_framing(<<>>, "builtin", BuiltinFramings)
  /\ store = [defaultpeer |-> [host |-> {}, port |-> {}, framing |-> {}, config |-> {}, protocol |-> {}],
              file |-> [path |-> {}, expressions |-> <<>>]]
  /\ calls = [l \in Libraries |-> [init |-> 0, cleanup |-> 0]]
  /\ client = {}

(* Objects of the plugin path are attached in the order readdir has them, but *)
(* for the backends; one that cannot be ends the program.                     *)
Unattached == (directory \cap DOMAIN FramingPlugins) \ {attached[i] : i \in DOMAIN attached}

(* Mutation: an object that could not be loaded is attached all the same.     *)
LoadFramingUnchecked(object) ==
  /\ pc = "plugins" /\ object \in Unattached
  /\ attached' = Append(attached, object)
  /\ framings' = plugin_register_framing(framings, object, FramingPlugins[object])
  /\ UNCHANGED <<pc, directory, call, at, section, core, backend, store, calls, client>>

LoadFraming(object) ==
  /\ pc = "plugins" /\ object \in Unattached \ Damaged
  /\ attached' = Append(attached, object)
  /\ framings' = plugin_register_framing(framings, object, FramingPlugins[object])
  /\ UNCHANGED <<pc, directory, call, at, section, core, backend, store, calls, client>>

LoadFramingFails ==
  /\ pc = "plugins" /\ Unattached \cap Damaged # {}
  /\ pc' = "failed"
  /\ UNCHANGED <<directory, call, at, section, core, backend, attached, framings, store, calls, client>>

InitDefault ==
  /\ pc = "plugins" /\ Unattached = {}
  /\ store' = InitOf(backend.library, store)
  /\ calls' = [calls EXCEPT ![backend.library].init = @ + 1]
  /\ pc' = "options"
  /\ UNCHANGED <<directory, call, at, section, core, backend, attached, framings, client>>

-----------------------------------------------------------------------------
(* The options.  A line of a file is a header ("[core]", "[backend]") or an   *)
(* option, an argument is an option of either section ("core" for -p, -l, -k  *)
(* and -b, "backend" for -c) or malformed.  What a file's option is for, the  *)
(* header above it says.                                                      *)
Line == call.lines[at + 1]
Reads == pc = "options" /\ at < Len(call.lines) /\ at' = at + 1
IsOption(s) == IF Strict THEN Line.kind = "option" /\ section = s ELSE Line.kind = s
IsBackend == IsOption("core") /\ Line.key = "backend"
AfterLine(ok) == pc' = IF Strict /\ ~ok THEN "failed" ELSE pc

NoFile ==
  /\ pc = "options" /\ Strict /\ at = 0
  /\ pc' = "failed"
  /\ UNCHANGED <<directory, call, at, section, core, backend, attached, framings, store, calls, client>>

SectionHeader ==
  /\ Reads /\ Line.kind \in {"[core]", "[backend]"}
  /\ section' = IF Line.kind = "[core]" THEN "core" ELSE "backend"
  /\ UNCHANGED <<pc, directory, call, core, backend, attached, framings, store, calls, client>>

Malformed ==
  /\ Reads /\ Line.kind = "malformed"
  /\ pc' = "failed"
  /\ UNCHANGED <<directory, call, section, core, backend, attached, framings, store, calls, client>>

CoreOption ==
  /\ Reads /\ IsOption("core") /\ Line.key # "backend"
  /\ core' = [k \in DOMAIN core |-> IF k = Line.key THEN {Line.value} ELSE core[k]]
  /\ UNCHANGED <<pc, directory, call, section, backend, attached, framings, store, calls, client>>

(* What the cleanup of the backend so far leaves, if it has one.              *)
Cleaned == IF "cleanup" \in backend.symbols THEN CleanupOf(backend.library, store) ELSE store
CleanupCounted ==
  IF "cleanup" \in backend.symbols THEN [calls EXCEPT ![backend.library].cleanup = @ + 1] ELSE calls

(* A backend's name stands for the object backend_<name> of the path.         *)
Available == (directory \cap DOMAIN BackendPlugins) \ Damaged

BackendMissing ==
  /\ Reads /\ IsBackend /\ Line.value \notin Available
  /\ store' = Cleaned
  /\ calls' = CleanupCounted
  /\ AfterLine(FALSE)
  /\ UNCHANGED <<directory, call, section, core, backend, attached, framings, client>>

Replace(name) ==
  /\ attached' = Append(attached, name)
  /\ backend' = [library |-> name, symbols |-> BackendPlugins[name].symbols]

(* A required symbol is missing: the functions have been replaced already.    *)
BackendIncomplete ==
  /\ Reads /\ IsBackend /\ Line.value \in Available
  /\ ~({"init", "query"} \subseteq BackendPlugins[Line.value].symbols)
  /\ Replace(Line.value)
  /\ store' = Cleaned
  /\ calls' = CleanupCounted
  /\ AfterLine(FALSE)
  /\ UNCHANGED <<directory, call, section, core, framings, client>>

(* Mutation: the backend so far is not cleaned up.                            *)
BackendLoadedOver ==
  /\ Reads /\ IsBackend /\ Line.value \in Available
  /\ {"init", "query"} \subseteq BackendPlugins[Line.value].symbols
  /\ Replace(Line.value)
  /\ store' = InitOf(Line.value, store)
  /\ calls' = [calls EXCEPT ![Line.value].init = @ + 1]
  /\ AfterLine(BackendPlugins[Line.value].current)
  /\ UNCHANGED <<directory, call, section, core, framings, client>>

BackendLoaded ==
  /\ Reads /\ IsBackend /\ Line.value \in Available
  /\ {"init", "query"} \subseteq BackendPlugins[Line.value].symbols
  /\ Replace(Line.value)
  /\ store' = InitOf(Line.value, Cleaned)
  /\ calls' = [CleanupCounted EXCEPT ![Line.value].init = @ + 1]
  /\ AfterLine(BackendPlugins[Line.value].current)
  /\ UNCHANGED <<directory, call, section, core, framings, client>>

BackendOption ==
  /\ Reads /\ IsOption("backend") /\ "configure" \in backend.symbols
  /\ store' = ConfigureOf(backend.library, store, Line.key, Line.value)
  /\ AfterLine(Accepts(backend.library, Line.key))
  /\ UNCHANGED <<directory, call, section, core, backend, attached, framings, calls, client>>

(* The arguments' loop tests whether there is a configure, the file's calls   *)
(* it.                                                                        *)
BackendOptionUnknown ==
  /\ Reads /\ IsOption("backend") /\ "configure" \notin backend.symbols
  /\ pc' = IF Strict THEN "crashed" ELSE pc
  /\ UNCHANGED <<directory, call, section, core, backend, attached, framings, store, calls, client>>

Listen ==
  /\ pc = "options" /\ at = Len(call.lines)
  /\ pc' \in {"serve", "failed"}
  /\ UNCHANGED <<directory, call, at, section, core, backend, attached, framings, store, calls, client>>

-----------------------------------------------------------------------------
(* The calls of network_socket, at most one, for the peer of a backend.  A    *)
(* port behind the host's name is taken off only if there is no other.        *)
client_connect(peer) ==
  LET transport(host) == IF host.scheme = "" THEN "tcp" ELSE host.scheme
      inet(host) == transport(host) \in {"tcp", "udp"}
      inferred(host) == inet(host) /\ peer.port = {}
  IN {[transport |-> transport(host),
       name |-> host.name,
       port |-> IF inferred(host) THEN host.port ELSE IF inet(host) THEN peer.port ELSE {},
       rest |-> IF inferred(host) THEN {} ELSE host.port,
       framing |-> IF peer.framing = {} THEN [object |-> "builtin", name |-> "auto"]
                   ELSE CHOOSE f \in peer.framing : TRUE,
       config |-> peer.config, protocol |-> peer.protocol] :
        host \in {h \in peer.host : /\ transport(h) \notin {"fifotx", "fiforx"}
                                    /\ inferred(h) => h.port # {}}}

(* A query that is not there, that has expressions but (cleaned up before)    *)
(* no path, or that finds no end of the host in the line it takes, takes the  *)
(* program down.                                                              *)
QueryCrashes(request) ==
  \/ "query" \notin backend.symbols
  \/ /\ backend.library = "file" /\ store.file.expressions # <<>>
     /\ \A path \in store.file.path :
          \E line \in query(path, store.file.expressions, request) : line.short

Connect(request) ==
  /\ pc = "serve" /\ client = {} /\ ~QueryCrashes(request)
  /\ LET to == client_connect(QueryOf(backend.library, request)) IN
     \E open \in BOOLEAN :
       /\ open => \E t \in to : t.rest = {}
       /\ client' = {[request |-> request, to |-> to, open |-> open]}
  /\ UNCHANGED <<pc, directory, call, at, section, core, backend, attached, framings, store, calls>>

ConnectCrashes(request) ==
  /\ pc = "serve" /\ client = {} /\ QueryCrashes(request)
  /\ pc' = "crashed"
  /\ UNCHANGED <<directory, call, at, section, core, backend, attached, framings, store, calls, client>>

Disconnect ==
  /\ pc = "serve" /\ client # {}
  /\ client' = {}
  /\ UNCHANGED <<pc, directory, call, at, section, core, backend, attached, framings, store, calls>>

-----------------------------------------------------------------------------
(* The shutdown: the backend, then the clients, then the plugins.             *)

(* Mutation: the clients are left to the end of the process.                  *)
CleanupBackendSkipsClients ==
  /\ pc = "serve"
  /\ store' = Cleaned /\ calls' = CleanupCounted
  /\ pc' = "libraries"
  /\ UNCHANGED <<directory, call, at, section, core, backend, attached, framings, client>>

CleanupBackend ==
  /\ pc = "serve"
  /\ store' = Cleaned /\ calls' = CleanupCounted
  /\ pc' = "clients"
  /\ UNCHANGED <<directory, call, at, section, core, backend, attached, framings, client>>

client_cleanup ==
  /\ pc = "clients"
  /\ client' = {}
  /\ pc' = "libraries"
  /\ UNCHANGED <<directory, call, at, section, core, backend, attached, framings, store, calls>>

plugin_cleanup ==
  /\ pc = "libraries"
  /\ attached' = <<>> /\ framings' = <<>>
  /\ pc' = "done"
  /\ UNCHANGED <<directory, call, at, section, core, backend, store, calls, client>>

Ended == pc \in {"done", "failed", "crashed"} /\ UNCHANGED vars

Next ==
  \/ \E object \in DOMAIN FramingPlugins : LoadFraming(object)
  \/ LoadFramingFails \/ InitDefault
  \/ NoFile \/ SectionHeader \/ Malformed \/ CoreOption
  \/ BackendMissing \/ BackendIncomplete \/ BackendLoaded
  \/ BackendOption \/ BackendOptionUnknown \/ Listen
  \/ \E request \in Requests : Connect(request) \/ ConnectCrashes(request)
  \/ Disconnect
  \/ CleanupBackend \/ client_cleanup \/ plugin_cleanup
  \/ Ended

Spec == Init /\ [][Next]_vars
-----------------------------------------------------------------------------
(* Reference: what the lines read so far mean by the documentation.           *)
ReadLines == 1 .. at
SectionOf(i) ==
  LET headers == {h \in 1 .. i : call.lines[h].kind \in {"[core]", "[backend]"}} IN
  CASE ~Strict -> call.lines[i].kind
    [] Strict /\ headers = {} -> "core"
    [] Strict /\ headers # {} -> IF call.lines[Max(headers)].kind = "[core]" THEN "core" ELSE "backend"
Options(s) == {i \in ReadLines : SectionOf(i) = s /\ call.lines[i].kind \notin {"[core]", "[backend]"}}
BackendLines == {i \in Options("core") : call.lines[i].key = "backend"}

(* "Options will be applied in the order specified to the backend loaded at   *)
(* the time", and a second backend loses them (README.md).                    *)
Chosen == IF BackendLines = {} THEN "defaultpeer" ELSE call.lines[Max(BackendLines)].value
Applied == {i \in Options("backend") : \A b \in BackendLines : b < i}
Among(lines, key) == {i \in lines : call.lines[i].key = key}
LastOf(lines, key) ==
  {call.lines[i].value : i \in {j \in Among(lines, key) : \A k \in Among(lines, key) : k <= j}}

(* The framing of a name is that of the object loaded last that has it.       *)
Provider(name) ==
  LET having == {i \in DOMAIN attached :
                   attached[i] \in DOMAIN FramingPlugins /\ name \in FramingPlugins[attached[i]]}
  IN IF having = {} THEN "builtin" ELSE attached[Max(having)]
Known(name) ==
  name \in BuiltinFramings \/ \E i \in DOMAIN attached :
                                attached[i] \in DOMAIN FramingPlugins /\ name \in FramingPlugins[attached[i]]
FramingNamed(name) ==
  LET known == IF Known(name) THEN name ELSE "auto" IN [object |-> Provider(known), name |-> known]

(* The program runs with the backend that was asked for: a file's backend is  *)
(* loaded, complete and of this version, or the program has not come here.    *)
(* Arguments may have named one that is not, and their errors are dropped.    *)
Loadable(name) ==
  /\ name \in Available
  /\ {"init", "query"} \subseteq BackendPlugins[name].symbols
  /\ BackendPlugins[name].current
AsAsked == Strict \/ \A i \in BackendLines : Loadable(call.lines[i].value)

-----------------------------------------------------------------------------
(* The phases, the backend's functions and the counters are of their types.   *)
TypeOK ==
  /\ pc \in {"plugins", "options", "serve", "clients", "libraries", "done", "failed", "crashed"}
  /\ at \in 0 .. Len(call.lines) /\ section \in {"core", "backend"}
  /\ backend.library \in Libraries /\ backend.symbols \subseteq Symbols
  /\ \A i \in DOMAIN attached : attached[i] \in directory \ Damaged
  /\ BuiltinFramings \subseteq DOMAIN framings \/ pc = "done"
  /\ \A f \in client : f.request \in Requests /\ Cardinality(f.to) <= 1 /\ (f.open => f.to # {})

(* When the program serves, it has the options it was given, and its backend  *)
(* those given behind its own line and no other (config_file_line, line 28;   *)
(* the backends' init, configure and cleanup).                                *)
ConfigurationApplied ==
  pc = "serve" /\ AsAsked =>
    /\ \A key \in DOMAIN core : core[key] = LastOf(Options("core"), key)
    /\ backend.library = Chosen
    /\ Chosen = "file" =>
         /\ LET given == Among(Applied, "expression") IN
            /\ Len(store.file.expressions) = Cardinality(given)
            /\ \A i \in given : store.file.expressions[Cardinality({j \in given : j <= i})] = call.lines[i].value
         /\ Among(Applied, "path") = {} => store.file.path = {<<>>}
         /\ \A value \in LastOf(Applied, "path") :
              store.file.path = {IF value # <<>> /\ Last(value) = Slash THEN Front(value) ELSE value}
    /\ Chosen = "defaultpeer" =>
         /\ \A key \in {"host", "port"} :
              Among(Applied, key) # {} => store.defaultpeer[key] = LastOf(Applied, key)
         /\ store.defaultpeer.protocol = LastOf(Applied, "protocol")
         /\ store.defaultpeer.config = LastOf(Applied, "framing-config")
         /\ store.defaultpeer.framing = {FramingNamed(name) : name \in LastOf(Applied, "framing")}

(* A backend is cleaned up once for each time it was initialized, before the  *)
(* next one is and at the end: "called once for the release of all            *)
(* backend-internal resources" (websocksy.h, line 187).                       *)
BackendsReleased ==
  AsAsked /\ pc \in {"options", "serve", "clients", "libraries", "done"} =>
    \A l \in Libraries :
      LET used == calls[l].init - calls[l].cleanup IN
      \/ l # "defaultpeer" /\ "cleanup" \notin BackendPlugins[l].symbols
      \/ used = IF l = backend.library /\ pc \in {"options", "serve"} THEN 1 ELSE 0

(* No client has a framing function of an object that is not attached any     *)
(* more: ws_close calls it to free its state (websocksy.c, line 406 before    *)
(* line 407).                                                                 *)
FramingAttached ==
  \A c \in client : \A t \in c.to : c.open =>
    t.framing.object = "builtin" \/ \E i \in DOMAIN attached : attached[i] = t.framing.object

(* The peers the documentation has for a request, none or one: for file the   *)
(* first line of the files that matches.                                      *)
Target(host, port, framing, config, protocol) ==
  [transport |-> IF host.scheme = "" THEN "tcp" ELSE host.scheme, name |-> host.name,
   port |-> IF host.scheme \notin {"", "tcp", "udp"} THEN {} ELSE IF port = {} THEN host.port ELSE port,
   rest |-> {}, framing |-> framing, config |-> config, protocol |-> protocol]
Connectable(t) == t.transport \notin {"fifotx", "fiforx"} /\ (t.transport \in {"tcp", "udp"} => t.port # {})
FileTargets(request) ==
  {t \in {Target(line.host, {}, FramingNamed(IF line.framing = {} THEN "auto" ELSE CHOOSE n \in line.framing : TRUE),
                 line.config, ProtocolOf(line, request.protocols)) :
            line \in UNION {DocAnswer(path, store.file.expressions, request) : path \in store.file.path}} :
     Connectable(t)}

(* For the default backend its options (README.md, lines 134 to 139): without *)
(* a protocol none for a client that names one, and the port of the host      *)
(* where no other is given.                                                   *)
Unnegotiated(request) == Among(Applied, "protocol") = {} /\ request.protocols # <<>>
HostHasPort == \E host \in LastOf(Applied, "host") : host.port # {}
DefaultTargets(request) ==
  LET given(key, default) == IF Among(Applied, key) = {} THEN {default} ELSE LastOf(Applied, key)
      port(host) == IF Among(Applied, "port") = {} /\ host.port # {} THEN host.port ELSE given("port", "5900")
      count == Len(request.protocols)
      same == {i \in 1 .. count : \E p \in LastOf(Applied, "protocol") : Lower[request.protocols[i]] = Lower[p]}
  IN {t \in {Target(host, port(host),
                    FramingNamed(CHOOSE n \in given("framing", "auto") : TRUE),
                    LastOf(Applied, "framing-config"),
                    CASE LastOf(Applied, "protocol") = {"*"} -> 0
                      [] OTHER -> IF same = {} THEN count ELSE Min(same) - 1) :
               host \in given("host", [scheme |-> "tcp", name |-> "localhost", port |-> {}])} :
       Connectable(t) /\ ~Unnegotiated(request)}

(* A client is bridged to the peer the documentation has for its request, and *)
(* if there is none, to none; for the default backend in the calls and for    *)
(* the requests in which its code does what the documentation says.  It does  *)
(* not refuse a client that names a protocol where none is configured         *)
(* (builtins.c, line 84), and does not take a port off its host (line 29).    *)
Serving(library) == pc = "serve" /\ AsAsked /\ backend.library = library
RightPeer ==
  \A c \in client :
    /\ Serving("file") => c.to = FileTargets(c.request)
    /\ Serving("defaultpeer") /\ ~HostHasPort /\ ~Unnegotiated(c.request) =>
         c.to = DefaultTargets(c.request)

(* When RightPeer can be said for all plugins, files and requests: no object  *)
(* takes the name "auto", which a client without a framing has from the       *)
(* program (websocksy.c, line 149); only a host that is taken for an inet one *)
(* names a port; and the backend file is asked as its documentation takes it  *)
(* for granted.                                                               *)
AutoIsBuiltin == \A object \in DOMAIN FramingPlugins : "auto" \notin FramingPlugins[object]
PortsAreInet ==
  \A p \in DOMAIN Files : \A j \in DOMAIN Files[p] :
    Files[p][j].host.port # {} => Files[p][j].host.scheme \in {"", "tcp", "udp"}
AskedPlainly(request) == \A path \in store.file.path : PlainQuery(path, store.file.expressions, request)
AsDocumented ==
  /\ backend.library = "defaultpeer" => AutoIsBuiltin
  /\ backend.library = "file" => PortsAreInet /\ \A c \in client : AskedPlainly(c.request)
=============================================================================
