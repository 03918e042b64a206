---------------------------- MODULE OptionsProof ----------------------------
(* What the options do, for every file and all arguments: which section an    *)
(* option is of, which backend runs, what it has been given, and that each    *)
(* backend is cleaned up as often as it was initialized.                      *)
EXTENDS ConfigProof

HeaderKinds == {"[core]", "[backend]"}
Headers(i) == {h \in 1 .. i : call.lines[h].kind \in HeaderKinds}
Under(i) == IF Headers(i) = {} THEN "core"
            ELSE IF call.lines[Max(Headers(i))].kind = "[core]" THEN "core" ELSE "backend"

(* config_section is what the last header has set it to.                      *)
SectionInv == Strict => section = Under(at)

LEMMA SectionIs ==
  ASSUME NEW i
  PROVE  SectionOf(i) = IF Strict THEN Under(i) ELSE call.lines[i].kind
<1>1. Headers(i) = {h \in 1 .. i : call.lines[h].kind \in {"[core]", "[backend]"}}
  BY DEF Headers, HeaderKinds
<1>2. CASE ~Strict
  BY <1>2 DEF SectionOf
<1>3. CASE Strict /\ Headers(i) = {}
  BY <1>1, <1>3 DEF SectionOf, Under
<1>4. CASE Strict /\ Headers(i) # {}
  BY <1>1, <1>4 DEF SectionOf, Under
<1> QED
  BY <1>2, <1>3, <1>4

(* A line more: it is under the header before it, or a header itself.         *)
LEMMA NextLine ==
  ASSUME BaseInv, at < Len(call.lines)
  PROVE  /\ at + 1 \in 1 .. Len(call.lines)
         /\ Line.kind \notin HeaderKinds => Under(at + 1) = Under(at)
         /\ Line.kind \in HeaderKinds =>
              Under(at + 1) = IF Line.kind = "[core]" THEN "core" ELSE "backend"
<1>1. at \in Nat /\ at + 1 \in 1 .. Len(call.lines)
  BY DEF BaseInv
<1>2. \A h : h \in Headers(at + 1) <=> \/ h \in Headers(at)
                                       \/ h = at + 1 /\ Line.kind \in HeaderKinds
  BY <1>1 DEF Headers, Line
<1>3. CASE Line.kind \notin HeaderKinds
  <2>1. Headers(at + 1) = Headers(at)
    BY <1>2, <1>3
  <2> QED
    BY <1>1, <1>3, <2>1 DEF Under
<1>4. CASE Line.kind \in HeaderKinds
  <2> DEFINE H == Headers(at + 1)
  <2>1. at + 1 \in H /\ H \in SUBSET (0 .. at + 1)
    BY <1>1, <1>2, <1>4 DEF Headers
  <2>2. at + 1 \in Nat
    BY <1>1
  <2> HIDE DEF H
  <2>3. Max(H) \in H /\ \A k \in H : k <= Max(H)
    BY <2>1, <2>2, LargestIn
  <2>4. Max(H) = at + 1
    <3> DEFINE m == Max(H)
    <3>1. m \in 0 .. at + 1 /\ at + 1 <= m
      BY <2>1, <2>3
    <3> HIDE DEF m
    <3>2. m = at + 1
      BY <1>1, <3>1
    <3> QED
      BY <3>2 DEF m
  <2> QED
    BY <1>1, <1>4, <2>1, <2>4 DEF Under, H, Line
<1> QED
  BY <1>3, <1>4

LEMMA SectionInit == Init => SectionInv
<1>1. Init => Headers(at) = {}
  BY DEF Init, Headers
<1> QED
  BY <1>1 DEF Init, SectionInv, Under

LEMMA SectionStep == BaseInv /\ SectionInv /\ [Next]_vars => SectionInv'
<1> SUFFICES ASSUME BaseInv, SectionInv, [Next]_vars
             PROVE  SectionInv'
  OBVIOUS
<1>1. call' = call
  BY Rigid
<1>2. \A i : Under(i)' = Under(i)
  BY <1>1 DEF Under, Headers
<1>3. ASSUME at' = at, section' = section
      PROVE  SectionInv'
  <2>1. Under(at)' = Under(at)
    BY <1>1, <1>3 DEF Under, Headers
  <2> QED
    BY <1>1, <1>3, <2>1 DEF SectionInv, Strict
<1>4. ASSUME at' = at + 1, at < Len(call.lines),
             \/ Line.kind \notin HeaderKinds /\ section' = section
             \/ Line.kind \in HeaderKinds /\ section' = IF Line.kind = "[core]" THEN "core" ELSE "backend"
             \/ ~Strict
      PROVE  SectionInv'
  <2>1. Under(at)' = Under(at + 1)
    BY <1>1, <1>4 DEF Under, Headers
  <2> QED
    BY <1>1, <1>4, <2>1, NextLine DEF SectionInv, Strict
<1>5. CASE SectionHeader
  BY <1>4, <1>5 DEF SectionHeader, Reads, HeaderKinds
<1>6. CASE Malformed
  BY <1>4, <1>6 DEF Malformed, Reads, HeaderKinds
<1>7. ASSUME NEW s, IsOption(s)
      PROVE  ~Strict \/ Line.kind \notin HeaderKinds
  BY <1>7 DEF IsOption, HeaderKinds
<1>8. CASE CoreOption \/ BackendMissing \/ BackendIncomplete \/ BackendLoaded
  <2>1. IsOption("core") /\ Reads /\ section' = section
    BY <1>8 DEF CoreOption, BackendMissing, BackendIncomplete, BackendLoaded, IsBackend
  <2> QED
    BY <1>4, <1>7, <2>1 DEF Reads
<1>9. CASE BackendOption \/ BackendOptionUnknown
  <2>1. IsOption("backend") /\ Reads /\ section' = section
    BY <1>9 DEF BackendOption, BackendOptionUnknown
  <2> QED
    BY <1>4, <1>7, <2>1 DEF Reads
<1>10. CASE \/ \E object \in DOMAIN FramingPlugins : LoadFraming(object)
            \/ \E request \in Requests : Connect(request) \/ ConnectCrashes(request)
  BY <1>3, <1>10 DEF LoadFraming, Connect, ConnectCrashes
<1>11. CASE LoadFramingFails \/ InitDefault \/ NoFile \/ Listen \/ Disconnect
  BY <1>3, <1>11 DEF LoadFramingFails, InitDefault, NoFile, Listen, Disconnect
<1>12. CASE CleanupBackend \/ client_cleanup \/ plugin_cleanup \/ Ended \/ UNCHANGED vars
  BY <1>3, <1>12 DEF CleanupBackend, client_cleanup, plugin_cleanup, Ended, vars
<1> QED
  BY <1>5, <1>6, <1>8, <1>9, <1>10, <1>11, <1>12 DEF Next

-----------------------------------------------------------------------------
(* The lines read so far, by their sections.                                  *)
LEMMA OptionsAre ==
  ASSUME BaseInv
  PROVE  /\ at \in Nat /\ \A s : Options(s) \in SUBSET (1 .. at)
         /\ BackendLines \subseteq Options("core") /\ Applied \subseteq Options("backend")
BY DEF BaseInv, Options, ReadLines, BackendLines, Applied

LEMMA OptionsKept ==
  ASSUME call' = call, \A s : Options(s)' = Options(s)
  PROVE  BackendLines' = BackendLines /\ Applied' = Applied
<1>1. BackendLines' = BackendLines
  BY DEF BackendLines
<1> QED
  BY <1>1 DEF Applied

LEMMA OptionsSame ==
  ASSUME call' = call, at' = at
  PROVE  \A s : Options(s)' = Options(s)
<1>1. \A i : SectionOf(i)' = SectionOf(i)
  BY DEF SectionOf, Strict
<1> QED
  BY <1>1 DEF Options, ReadLines

LEMMA OptionsGrow ==
  ASSUME BaseInv, call' = call, at' = at + 1, at < Len(call.lines), NEW s
  PROVE  Options(s)' = Options(s) \cup (IF SectionOf(at + 1) = s /\ Line.kind \notin HeaderKinds
                                       THEN {at + 1} ELSE {})
<1>1. \A i : SectionOf(i)' = SectionOf(i)
  BY DEF SectionOf, Strict
<1>2. at \in Nat
  BY DEF BaseInv
<1>3. \A i : i \in Options(s)' <=> /\ i \in 1 .. at + 1 /\ SectionOf(i) = s
                                   /\ call.lines[i].kind \notin HeaderKinds
  BY <1>1 DEF Options, ReadLines, HeaderKinds
<1>4. \A i : i \in Options(s) <=> /\ i \in 1 .. at /\ SectionOf(i) = s
                                  /\ call.lines[i].kind \notin HeaderKinds
  BY DEF Options, ReadLines, HeaderKinds
<1>5. \A i : i \in 1 .. at + 1 <=> i \in 1 .. at \/ i = at + 1
  BY <1>2
<1> HIDE DEF Line
<1>6. \A i : i \in Options(s)' <=>
               \/ i \in Options(s)
               \/ i = at + 1 /\ SectionOf(i) = s /\ Line.kind \notin HeaderKinds
  BY <1>3, <1>4, <1>5 DEF Line
<1> QED
  BY <1>6

(* An option is of the section it is applied to.                              *)
LEMMA OptionRead ==
  ASSUME BaseInv, SectionInv, NEW s \in {"core", "backend"}, Reads, IsOption(s), call' = call
  PROVE  /\ Options(s)' = Options(s) \cup {at + 1}
         /\ \A t : t # s => Options(t)' = Options(t)
<1>1. at' = at + 1 /\ at < Len(call.lines)
  BY DEF Reads
<1>2. SectionOf(at + 1) = IF Strict THEN Under(at + 1) ELSE Line.kind
  BY SectionIs DEF Line
<1>3. Line.kind \notin HeaderKinds /\ SectionOf(at + 1) = s
  <2>1. CASE Strict
    <3>1. Line.kind = "option" /\ section = s
      BY <2>1 DEF IsOption
    <3> QED
      BY <1>1, <1>2, <2>1, <3>1, NextLine DEF SectionInv, HeaderKinds
  <2>2. CASE ~Strict
    BY <1>2, <2>2 DEF IsOption, HeaderKinds
  <2> QED
    BY <2>1, <2>2
<1> QED
  BY <1>1, <1>3, OptionsGrow

LEMMA HeaderRead ==
  ASSUME BaseInv, Reads, Line.kind \in HeaderKinds, call' = call
  PROVE  \A t : Options(t)' = Options(t)
BY OptionsGrow DEF Reads

(* The backends named so far, and a backend's options behind it.              *)
LEMMA BackendRead ==
  ASSUME BaseInv, SectionInv, Reads, IsBackend, call' = call
  PROVE  /\ BackendLines' = BackendLines \cup {at + 1} /\ Applied' = {}
         /\ \A i \in BackendLines : i <= at
<1>1. Options("core")' = Options("core") \cup {at + 1} /\ Options("backend")' = Options("backend")
  BY OptionRead DEF IsBackend
<1>2. at \in Nat /\ Options("core") \in SUBSET (1 .. at) /\ Options("backend") \in SUBSET (1 .. at)
      /\ BackendLines \subseteq Options("core")
  BY OptionsAre
<1>3. \A i : i \in BackendLines' <=> i \in BackendLines \/ i = at + 1
  BY <1>1 DEF BackendLines, IsBackend, Line
<1>4. \A i \in Options("backend") : ~(at + 1 < i)
  BY <1>2
<1>5. Applied' = {}
  BY <1>1, <1>3, <1>4 DEF Applied
<1>6. \A i \in BackendLines : i <= at
  BY <1>2
<1> QED
  BY <1>3, <1>5, <1>6

LEMMA CoreRead ==
  ASSUME BaseInv, SectionInv, Reads, IsOption("core"), Line.key # "backend", call' = call
  PROVE  BackendLines' = BackendLines /\ Applied' = Applied
<1>1. Options("core")' = Options("core") \cup {at + 1} /\ Options("backend")' = Options("backend")
  BY OptionRead
<1>2. BackendLines' = BackendLines
  BY <1>1 DEF BackendLines, Line
<1> QED
  BY <1>1, <1>2 DEF Applied

LEMMA AppliedRead ==
  ASSUME BaseInv, SectionInv, Reads, IsOption("backend"), call' = call
  PROVE  /\ BackendLines' = BackendLines /\ Applied' = Applied \cup {at + 1}
         /\ Applied \in SUBSET (1 .. at)
<1>1. Options("core")' = Options("core") /\ Options("backend")' = Options("backend") \cup {at + 1}
  BY OptionRead
<1>2. BackendLines' = BackendLines
  BY <1>1 DEF BackendLines
<1>3. at \in Nat /\ BackendLines \in SUBSET (1 .. at) /\ Applied \in SUBSET (1 .. at)
  BY OptionsAre
<1>4. \A b \in BackendLines : b < at + 1
  BY <1>3
<1>5. \A i : i \in Applied' <=> i \in Applied \/ i = at + 1
  BY <1>1, <1>2, <1>4 DEF Applied
<1> QED
  BY <1>2, <1>3, <1>5

-----------------------------------------------------------------------------
(* How often the backends were initialized and cleaned up.                    *)
Counters == [Libraries -> [init : Nat, cleanup : Nat]]
HasCleanup(l) == l = "defaultpeer" \/ "cleanup" \in BackendPlugins[l].symbols

CallsInv == calls \in Counters /\ BackendsReleased

LEMMA CountedIs ==
  ASSUME BaseInv, calls \in Counters
  PROVE  /\ CleanupCounted \in Counters
         /\ \A l \in Libraries :
              /\ CleanupCounted[l].init = calls[l].init
              /\ CleanupCounted[l].cleanup = IF l = backend.library /\ HasCleanup(l)
                                            THEN calls[l].cleanup + 1 ELSE calls[l].cleanup
<1> DEFINE b == backend.library
<1>1. b \in Libraries /\ ("cleanup" \in backend.symbols <=> HasCleanup(b))
  BY DEF BaseInv, HasCleanup, Symbols
<1>2. CASE HasCleanup(b)
  <2>1. CleanupCounted = [calls EXCEPT ![b].cleanup = @ + 1]
    BY <1>1, <1>2 DEF CleanupCounted
  <2> HIDE DEF b
  <2>2. CleanupCounted = [calls EXCEPT ![b] = [calls[b] EXCEPT !.cleanup = calls[b].cleanup + 1]]
    BY <2>1
  <2> DEFINE r == [calls[b] EXCEPT !.cleanup = calls[b].cleanup + 1]
  <2>3. r = [init |-> calls[b].init, cleanup |-> calls[b].cleanup + 1] /\ r \in [init : Nat, cleanup : Nat]
    <3>1. calls[b] \in [init : Nat, cleanup : Nat]
      BY <1>1 DEF Counters
    <3> QED
      BY <3>1
  <2>4. CleanupCounted = [calls EXCEPT ![b] = r]
    BY <2>2
  <2> HIDE DEF r
  <2>5. CleanupCounted \in Counters
    BY <1>1, <2>3, <2>4 DEF Counters
  <2>6. \A l \in Libraries : CleanupCounted[l] = IF l = b THEN r ELSE calls[l]
    BY <1>1, <2>4 DEF Counters
  <2> QED
    BY <1>1, <1>2, <2>3, <2>5, <2>6 DEF b
<1>3. CASE ~HasCleanup(b)
  BY <1>1, <1>3 DEF CleanupCounted
<1> QED
  BY <1>2, <1>3

Inited(c, b) == [c EXCEPT ![b].init = @ + 1]

LEMMA InitCounted ==
  ASSUME NEW c \in Counters, NEW b \in Libraries
  PROVE  /\ Inited(c, b) \in Counters
         /\ \A l \in Libraries : /\ Inited(c, b)[l].cleanup = c[l].cleanup
                               /\ Inited(c, b)[l].init = IF l = b THEN c[l].init + 1 ELSE c[l].init
<1> DEFINE d == Inited(c, b)
           r == [c[b] EXCEPT !.init = c[b].init + 1]
<1>1. r = [init |-> c[b].init + 1, cleanup |-> c[b].cleanup] /\ r \in [init : Nat, cleanup : Nat]
  <2>1. c[b] \in [init : Nat, cleanup : Nat]
    BY DEF Counters
  <2> QED
    BY <2>1
<1>2. d = [c EXCEPT ![b] = r]
  BY DEF Inited
<1> HIDE DEF r, d
<1>3. d \in Counters
  BY <1>1, <1>2 DEF Counters
<1>4. \A l \in Libraries : d[l] = IF l = b THEN r ELSE c[l]
  BY <1>2 DEF Counters
<1> QED
  BY <1>1, <1>3, <1>4 DEF d

(* A backend that runs was loaded whole and of this version: an error ends    *)
(* the program in a file, and makes the arguments' backend not the one asked  *)
(* for.                                                                       *)
LEMMA AskedFor ==
  ASSUME BaseInv, SectionInv, Reads, IsBackend, call' = call, directory' = directory
  PROVE  /\ AsAsked' => AsAsked
         /\ ~Strict /\ AsAsked' => Loadable(Line.value)
<1>1. BackendLines' = BackendLines \cup {at + 1} /\ Strict' = Strict
  BY BackendRead DEF Strict
<1>2. \A n : Loadable(n)' = Loadable(n)
  BY DEF Loadable, Available
<1>3. AsAsked' <=> Strict \/ \A i \in BackendLines' : Loadable(call.lines[i].value)
  BY <1>1, <1>2 DEF AsAsked
<1> QED
  BY <1>1, <1>3 DEF AsAsked, Line

LEMMA AskedSame ==
  ASSUME BackendLines' = BackendLines, call' = call, directory' = directory
  PROVE  AsAsked' = AsAsked
<1>1. \A n : Loadable(n)' = Loadable(n)
  BY DEF Loadable, Available
<1> QED
  BY <1>1 DEF AsAsked, Strict

Used(c, l) == c[l].init - c[l].cleanup
Released(c, library) == \A l \in Libraries : HasCleanup(l) => Used(c, l) = IF l = library THEN 1 ELSE 0
AllReleased(c) == \A l \in Libraries : HasCleanup(l) => Used(c, l) = 0

LEMMA ReleasedIs ==
  BackendsReleased <=>
    /\ AsAsked /\ pc \in {"options", "serve"} => Released(calls, backend.library)
    /\ AsAsked /\ pc \in {"clients", "libraries", "done"} => AllReleased(calls)
BY DEF BackendsReleased, HasCleanup, Released, AllReleased, Used

LEMMA AllCleaned ==
  ASSUME BaseInv, calls \in Counters, Released(calls, backend.library)
  PROVE  AllReleased(CleanupCounted)
<1> SUFFICES ASSUME NEW l \in Libraries, HasCleanup(l)
             PROVE  Used(CleanupCounted, l) = 0
  BY DEF AllReleased
<1>1. calls[l].init \in Nat /\ calls[l].cleanup \in Nat
  BY DEF Counters
<1>2. calls[l].init - calls[l].cleanup = IF l = backend.library THEN 1 ELSE 0
  BY DEF Released, Used
<1>3. /\ CleanupCounted[l].init = calls[l].init
      /\ CleanupCounted[l].cleanup = IF l = backend.library THEN calls[l].cleanup + 1 ELSE calls[l].cleanup
  BY CountedIs
<1> QED
  BY <1>1, <1>2, <1>3 DEF Used

LEMMA OneMore ==
  ASSUME NEW c \in Counters, AllReleased(c), NEW b \in Libraries
  PROVE  Released(Inited(c, b), b)
<1> DEFINE d == Inited(c, b)
<1>1. \A l \in Libraries : /\ d[l].cleanup = c[l].cleanup
                           /\ d[l].init = IF l = b THEN c[l].init + 1 ELSE c[l].init
  BY InitCounted
<1> HIDE DEF d
<1>2. ASSUME NEW l \in Libraries, HasCleanup(l)
      PROVE  Used(d, l) = IF l = b THEN 1 ELSE 0
  <2>1. c[l].init \in Nat /\ c[l].cleanup \in Nat
    BY DEF Counters
  <2>2. c[l].init - c[l].cleanup = 0
    BY <1>2 DEF AllReleased, Used
  <2> QED
    BY <1>1, <2>1, <2>2 DEF Used
<1> QED
  BY <1>2 DEF Released, d

LEMMA CallsInit == Init => CallsInv
<1> SUFFICES ASSUME Init
             PROVE  CallsInv
  OBVIOUS
<1>1. calls \in Counters
  BY DEF Init, Counters
<1>2. pc = "plugins"
  BY DEF Init
<1> QED
  BY <1>1, <1>2, ReleasedIs DEF CallsInv

LEMMA CallsStep == BaseInv /\ FreshInv /\ SectionInv /\ CallsInv /\ [Next]_vars => CallsInv'
<1> SUFFICES ASSUME BaseInv, FreshInv, SectionInv, CallsInv, [Next]_vars
             PROVE  CallsInv'
  OBVIOUS
<1>1. call' = call /\ directory' = directory
  BY Rigid
<1>2. HasCleanup("defaultpeer") /\ \A l : HasCleanup(l)' = HasCleanup(l)
  BY DEF HasCleanup
<1>3. BackendsReleased' <=>
        /\ AsAsked' /\ pc' \in {"options", "serve"} => Released(calls', backend'.library)
        /\ AsAsked' /\ pc' \in {"clients", "libraries", "done"} => AllReleased(calls')
  BY DEF BackendsReleased, HasCleanup, Released, AllReleased, Used, Libraries
<1>4. ASSUME calls' = calls, backend' = backend, AsAsked' => AsAsked,
             pc' \in {"options", "serve"} => pc \in {"options", "serve"},
             pc' \in {"clients", "libraries", "done"} => pc \in {"clients", "libraries", "done"}
      PROVE  CallsInv'
  BY <1>3, <1>4, ReleasedIs DEF CallsInv, Counters, Libraries
<1>5. CASE InitDefault
  <2>1. calls' = Inited(calls, "defaultpeer") /\ backend' = backend /\ pc' = "options"
    BY <1>5 DEF InitDefault, FreshInv, Inited
  <2>2. AllReleased(calls) /\ backend.library = "defaultpeer" /\ "defaultpeer" \in Libraries
    BY <1>5 DEF InitDefault, FreshInv, AllReleased, Used, Libraries
  <2>3. calls' \in Counters /\ Released(calls', "defaultpeer")
    BY <2>1, <2>2, InitCounted, OneMore DEF CallsInv
  <2> QED
    BY <1>3, <2>1, <2>2, <2>3 DEF CallsInv, Counters, Libraries
<1>6. CASE SectionHeader
  <2>1. Line.kind \in HeaderKinds /\ Reads
    BY <1>6 DEF SectionHeader, HeaderKinds
  <2>2. BackendLines' = BackendLines
    BY <1>1, <2>1, HeaderRead, OptionsKept
  <2> QED
    BY <1>1, <1>4, <1>6, <2>2, AskedSame DEF SectionHeader
<1>7. CASE CoreOption
  <2>1. BackendLines' = BackendLines
    BY <1>1, <1>7, CoreRead DEF CoreOption
  <2> QED
    BY <1>1, <1>4, <1>7, <2>1, AskedSame DEF CoreOption
<1>8. CASE BackendOption \/ BackendOptionUnknown
  <2>1. BackendLines' = BackendLines
    BY <1>1, <1>8, AppliedRead DEF BackendOption, BackendOptionUnknown
  <2> QED
    BY <1>1, <1>4, <1>8, <2>1, AskedSame DEF BackendOption, BackendOptionUnknown, Reads, AfterLine
<1>9. CASE BackendMissing \/ BackendIncomplete
  <2>1. Reads /\ IsBackend /\ calls' = CleanupCounted /\ AfterLine(FALSE) /\ ~Loadable(Line.value)
    BY <1>9 DEF BackendMissing, BackendIncomplete, Loadable
  <2>2. Strict \/ ~AsAsked'
    BY <1>1, <2>1, AskedFor
  <2>3. pc' \in {"options", "failed"} /\ (Strict => pc' = "failed")
    BY <2>1 DEF Reads, AfterLine
  <2>4. calls' \in Counters
    BY <2>1, CountedIs DEF CallsInv
  <2> QED
    BY <1>3, <2>2, <2>3, <2>4 DEF CallsInv, Counters, Libraries
<1>10. CASE BackendLoaded
  <2> DEFINE b == Line.value
  <2>1. /\ Reads /\ IsBackend /\ b \in DOMAIN BackendPlugins
        /\ calls' = Inited(CleanupCounted, b) /\ backend'.library = b
        /\ pc = "options" /\ pc' \in {"options", "failed"}
    BY <1>10 DEF BackendLoaded, Inited, Replace, Available, AfterLine, Reads
  <2>2. AsAsked' => AsAsked
    BY <1>1, <2>1, AskedFor
  <2>3. b \in Libraries /\ CleanupCounted \in Counters
    BY <2>1, CountedIs DEF CallsInv, Libraries
  <2> HIDE DEF b
  <2>4. calls' \in Counters
    BY <2>1, <2>3, InitCounted
  <2>5. AsAsked => AllReleased(CleanupCounted)
    BY <2>1, AllCleaned, ReleasedIs DEF CallsInv
  <2>6. AsAsked' => Released(calls', backend'.library)
    BY <2>1, <2>2, <2>3, <2>5, OneMore
  <2> QED
    BY <1>3, <2>1, <2>4, <2>6 DEF CallsInv, Counters, Libraries
<1>11. ASSUME at' = at
       PROVE  AsAsked' = AsAsked
  BY <1>1, <1>11, OptionsSame, OptionsKept, AskedSame
<1>12. CASE CleanupBackend
  <2>1. pc = "serve" /\ pc' = "clients" /\ calls' = CleanupCounted /\ at' = at
    BY <1>12 DEF CleanupBackend
  <2>2. calls' \in Counters
    BY <2>1, CountedIs DEF CallsInv
  <2>3. AsAsked' => AllReleased(calls')
    BY <1>11, <2>1, AllCleaned, ReleasedIs DEF CallsInv
  <2> QED
    BY <1>3, <2>1, <2>2, <2>3 DEF CallsInv, Counters, Libraries
<1>13. CASE Malformed
  BY <1>3, <1>13 DEF Malformed, CallsInv, Counters, Libraries
<1>14. CASE \/ \E object \in DOMAIN FramingPlugins : LoadFraming(object)
            \/ \E request \in Requests : Connect(request) \/ ConnectCrashes(request)
  BY <1>4, <1>11, <1>14 DEF LoadFraming, Connect, ConnectCrashes
<1>15. CASE LoadFramingFails \/ NoFile \/ Listen \/ Disconnect
  BY <1>4, <1>11, <1>15 DEF LoadFramingFails, NoFile, Listen, Disconnect
<1>16. CASE client_cleanup \/ plugin_cleanup \/ Ended \/ UNCHANGED vars
  BY <1>4, <1>11, <1>16 DEF client_cleanup, plugin_cleanup, Ended, vars
<1> QED
  BY <1>5, <1>6, <1>7, <1>8, <1>9, <1>10, <1>12, <1>13, <1>14, <1>15, <1>16 DEF Next

(* While the program runs with the backend it was asked to, the one that runs *)
(* has been initialized once more than cleaned up, all others as often: none  *)
(* is left behind, and none is cleaned up twice.                              *)
THEOREM Releases == Spec => []BackendsReleased
<1> DEFINE I == BaseInv /\ FreshInv /\ SectionInv /\ CallsInv
<1>1. Init => I
  BY BaseInit, SectionInit, CallsInit
<1>2. I /\ [Next]_vars => I'
  BY BaseStep, SectionStep, CallsStep
<1>3. I => BackendsReleased
  BY DEF CallsInv
<1> QED
  BY <1>1, <1>2, <1>3, PTL DEF Spec

-----------------------------------------------------------------------------
(* A value given again takes the place of the one before.                     *)
LEMMA LastOfMore ==
  ASSUME NEW n \in Nat, NEW L \in SUBSET (0 .. n), NEW m, m = n + 1, NEW key
  PROVE  /\ call.lines[m].key = key => /\ Among(L \cup {m}, key) = Among(L, key) \cup {m}
                                       /\ LastOf(L \cup {m}, key) = {call.lines[m].value}
         /\ call.lines[m].key # key => /\ Among(L \cup {m}, key) = Among(L, key)
                                       /\ LastOf(L \cup {m}, key) = LastOf(L, key)
<1> DEFINE M == L \cup {m}
           last(A) == {j \in A : \A k \in A : k <= j}
<1>1. Among(M, key) = Among(L, key) \cup (IF call.lines[m].key = key THEN {m} ELSE {})
  BY DEF Among
<1>2. \A k \in Among(L, key) : k \in 0 .. n
  BY DEF Among
<1>3. LastOf(M, key) = {call.lines[i].value : i \in last(Among(M, key))}
  BY DEF LastOf
<1>4. CASE call.lines[m].key = key
  <2>1. last(Among(M, key)) = {m}
    <3>1. m \in Among(M, key) /\ \A k \in Among(M, key) : k \in 0 .. n \/ k = m
      BY <1>1, <1>2, <1>4
    <3> HIDE DEF M
    <3>2. m \in last(Among(M, key))
      BY <3>1
    <3>3. \A j \in last(Among(M, key)) : j = m
      <4>1. \A j \in last(Among(M, key)) : m <= j /\ (j \in 0 .. n \/ j = m)
        BY <3>1
      <4>2. \A j : m <= j /\ (j \in 0 .. n \/ j = m) => j = m
        OBVIOUS
      <4> QED
        BY <4>1, <4>2
    <3> QED
      BY <3>2, <3>3
  <2> HIDE DEF last, M
  <2> QED
    BY <1>1, <1>3, <1>4, <2>1 DEF M
<1>5. CASE call.lines[m].key # key
  <2>1. Among(M, key) = Among(L, key)
    BY <1>1, <1>5
  <2> HIDE DEF M
  <2>2. LastOf(M, key) = LastOf(L, key)
    BY <2>1 DEF LastOf
  <2> QED
    BY <1>1, <1>5, <2>2 DEF M
<1> QED
  BY <1>4, <1>5

LEMMA LastOfNext ==
  ASSUME at \in Nat, NEW L, L \in SUBSET (0 .. at), NEW key
  PROVE  /\ Line.key = key => /\ Among(L \cup {at + 1}, key) = Among(L, key) \cup {at + 1}
                              /\ LastOf(L \cup {at + 1}, key) = {Line.value}
         /\ Line.key # key => /\ Among(L \cup {at + 1}, key) = Among(L, key)
                              /\ LastOf(L \cup {at + 1}, key) = LastOf(L, key)
<1> DEFINE m == at + 1
<1>1. m = at + 1 /\ Line = call.lines[m]
  BY DEF Line
<1> HIDE DEF m
<1> QED
  BY <1>1, LastOfMore

LEMMA LastOfNone == \A key : LastOf({}, key) = {} /\ Among({}, key) = {}
BY DEF LastOf, Among

(* The core's options: each has its last value.                               *)
Cores == {"port", "listen", "ping"}
CoreInv ==
  pc \in {"options", "serve"} =>
    DOMAIN core = Cores /\ \A key \in Cores : core[key] = LastOf(Options("core"), key)

LEMMA CoreStep == BaseInv /\ FreshInv /\ SectionInv /\ CoreInv /\ [Next]_vars => CoreInv'
<1> SUFFICES ASSUME BaseInv, FreshInv, SectionInv, CoreInv, [Next]_vars
             PROVE  CoreInv'
  OBVIOUS
<1>1. call' = call
  BY Rigid
<1>2. \A key : LastOf(Options("core"), key)' = LastOf(Options("core")', key)
  BY <1>1 DEF LastOf, Among
<1>3. ASSUME core' = core, Options("core")' = Options("core"),
             pc' \in {"options", "serve"} => pc \in {"options", "serve"}
      PROVE  CoreInv'
  BY <1>2, <1>3 DEF CoreInv
<1>4. at \in Nat /\ Options("core") \in SUBSET (0 .. at)
  BY OptionsAre
<1>5. ASSUME Reads, IsOption("core"), NEW key
      PROVE  LastOf(Options("core"), key)' = IF Line.key = key THEN {Line.value} ELSE LastOf(Options("core"), key)
  <2>1. Options("core")' = Options("core") \cup {at + 1}
    BY <1>1, <1>5, OptionRead
  <2>2. /\ Line.key = key => LastOf(Options("core") \cup {at + 1}, key) = {Line.value}
        /\ Line.key # key => LastOf(Options("core") \cup {at + 1}, key) = LastOf(Options("core"), key)
    BY <1>4, LastOfNext
  <2> QED
    BY <1>2, <2>1, <2>2
<1>6. CASE InitDefault
  <2>1. pc = "plugins" /\ core' = core /\ at' = at
    BY <1>6 DEF InitDefault
  <2>2. core = [port |-> {}, listen |-> {}, ping |-> {}] /\ at = 0
    BY <2>1 DEF FreshInv
  <2>3. Options("core") = {}
    BY <2>2 DEF Options, ReadLines
  <2>4. Options("core")' = {}
    BY <1>1, <2>1, <2>3, OptionsSame
  <2> QED
    BY <1>2, <2>1, <2>2, <2>4, LastOfNone DEF CoreInv, Cores
<1>7. CASE SectionHeader
  <2>1. Line.kind \in HeaderKinds /\ Reads
    BY <1>7 DEF SectionHeader, HeaderKinds
  <2> QED
    BY <1>1, <1>3, <1>7, <2>1, HeaderRead DEF SectionHeader
<1>8. CASE CoreOption
  <2>1. /\ Reads /\ IsOption("core") /\ pc' = pc /\ pc = "options"
        /\ core' = [k \in DOMAIN core |-> IF k = Line.key THEN {Line.value} ELSE core[k]]
    BY <1>8 DEF CoreOption, Reads
  <2> QED
    BY <1>5, <2>1 DEF CoreInv
<1>9. CASE BackendMissing \/ BackendIncomplete \/ BackendLoaded
  <2>1. Reads /\ IsOption("core") /\ Line.key = "backend" /\ core' = core /\ pc = "options"
    BY <1>9 DEF BackendMissing, BackendIncomplete, BackendLoaded, IsBackend, Reads
  <2>2. \A key \in Cores : LastOf(Options("core"), key)' = LastOf(Options("core"), key)
    BY <1>5, <2>1 DEF Cores
  <2> QED
    BY <2>1, <2>2 DEF CoreInv
<1>10. CASE BackendOption \/ BackendOptionUnknown
  <2>1. Reads /\ IsOption("backend") /\ core' = core /\ pc = "options"
    BY <1>10 DEF BackendOption, BackendOptionUnknown, Reads
  <2>2. Options("core")' = Options("core")
    BY <1>1, <2>1, OptionRead
  <2> QED
    BY <1>3, <2>1, <2>2
<1>11. CASE Malformed
  BY <1>11 DEF Malformed, CoreInv
<1>12. at' = at => Options("core")' = Options("core")
  BY <1>1, OptionsSame
<1>13. CASE \/ \E object \in DOMAIN FramingPlugins : LoadFraming(object)
            \/ \E request \in Requests : Connect(request) \/ ConnectCrashes(request)
  BY <1>3, <1>12, <1>13 DEF LoadFraming, Connect, ConnectCrashes
<1>14. CASE LoadFramingFails \/ NoFile \/ Listen \/ Disconnect
  BY <1>3, <1>12, <1>14 DEF LoadFramingFails, NoFile, Listen, Disconnect
<1>15. CASE CleanupBackend \/ client_cleanup \/ plugin_cleanup \/ Ended \/ UNCHANGED vars
  BY <1>3, <1>12, <1>15 DEF CleanupBackend, client_cleanup, plugin_cleanup, Ended, vars
<1> QED
  BY <1>6, <1>7, <1>8, <1>9, <1>10, <1>11, <1>13, <1>14, <1>15 DEF Next

-----------------------------------------------------------------------------
(* What the backend file has been given by the lines of L: each expression,   *)
(* at its rank, and the last path.                                            *)
Rank(i, A) == Cardinality({j \in A : j <= i})
ListedIn(e, A) ==
  Len(e) = Cardinality(A) /\ \A i \in A : e[Rank(i, A)] = call.lines[i].value
FileGiven(f, L) ==
  /\ ListedIn(f.expressions, Among(L, "expression"))
  /\ Among(L, "path") = {} => f.path = {<<>>}
  /\ \A value \in LastOf(L, "path") : f.path = {Pathed(value)}

LEMMA ListedNext ==
  ASSUME NEW n \in Nat, NEW A \in SUBSET (1 .. n), NEW m, m = n + 1,
         NEW S, NEW e \in Seq(S), call.lines[m].value \in S, ListedIn(e, A)
  PROVE  ListedIn(Append(e, call.lines[m].value), A \cup {m})
<1> DEFINE B == A \cup {m}
           v == call.lines[m].value
           f == Append(e, v)
<1>1. IsFiniteSet(1 .. n)
  BY FS_Interval
<1>2. IsFiniteSet(A) /\ Cardinality(A) \in Nat
  BY <1>1, FS_Subset, FS_CardinalityType
<1>3. m \notin A /\ \A i \in A : i < m
  OBVIOUS
<1>4. Cardinality(B) = Cardinality(A) + 1
  BY <1>2, <1>3, FS_AddElement
<1>5. Len(e) \in Nat /\ Len(f) = Len(e) + 1 /\ f[Len(e) + 1] = v
      /\ \A k \in 1 .. Len(e) : f[k] = e[k]
  BY LenProperties, AppendProperties
<1>6. Len(e) = Cardinality(A) /\ \A i \in A : e[Rank(i, A)] = call.lines[i].value
  BY DEF ListedIn
<1>7. ASSUME NEW i \in A
      PROVE  Rank(i, B) = Rank(i, A) /\ Rank(i, A) \in 1 .. Cardinality(A)
  <2> DEFINE C == {j \in A : j <= i}
  <2>1. {j \in B : j <= i} = C
    BY <1>3
  <2>2. i \in C /\ C \subseteq A
    OBVIOUS
  <2>3. IsFiniteSet(C) /\ Cardinality(C) \in Nat /\ Cardinality(C) <= Cardinality(A) /\ Cardinality(C) # 0
    <3> HIDE DEF C
    <3>1. IsFiniteSet(C) /\ Cardinality(C) <= Cardinality(A)
      BY <1>2, <2>2, FS_Subset
    <3>2. Cardinality(C) \in Nat
      BY <3>1, FS_CardinalityType
    <3>3. Cardinality(C) # 0
      BY <2>2, <3>1, FS_EmptySet
    <3> QED
      BY <3>1, <3>2, <3>3
  <2>4. Rank(i, A) = Cardinality(C) /\ Rank(i, B) = Cardinality(C)
    BY <2>1 DEF Rank
  <2> QED
    BY <1>2, <2>3, <2>4
<1>8. Rank(m, B) = Cardinality(A) + 1
  <2>1. \A j \in B : j <= m
    <3>1. m \in Nat /\ \A j \in A : j <= m
      BY <1>3
    <3> QED
      BY <3>1
  <2> HIDE DEF B
  <2>2. {j \in B : j <= m} = B
    BY <2>1
  <2> QED
    BY <1>4, <2>2 DEF Rank
<1> HIDE DEF B, f, v
<1>9. Len(f) = Cardinality(B)
  BY <1>4, <1>5, <1>6
<1>10. f[Rank(m, B)] = v
  BY <1>5, <1>6, <1>8
<1>11. \A i \in A : f[Rank(i, B)] = call.lines[i].value
  BY <1>5, <1>6, <1>7
<1>12. \A i \in B : f[Rank(i, B)] = call.lines[i].value
  BY <1>10, <1>11 DEF B, v
<1> QED
  BY <1>9, <1>12 DEF ListedIn, B, f, v

LEMMA FileInited == FileGiven([path |-> {<<>>}, expressions |-> <<>>], {})
<1>1. ListedIn(<<>>, {})
  BY FS_EmptySet DEF ListedIn
<1> QED
  BY <1>1, LastOfNone DEF FileGiven

LEMMA FileConfigured ==
  ASSUME at \in Nat, NEW L, L \in SUBSET (1 .. at), NEW S, NEW f, f.expressions \in Seq(S),
         Line.value \in S, FileGiven(f, L),
         NEW g, g = FileSet(f, Line.key, Line.value)
  PROVE  FileGiven(g, L \cup {at + 1})
<1> DEFINE M == L \cup {at + 1}
<1>1. L \in SUBSET (0 .. at)
  OBVIOUS
<1>2. /\ g.path = IF Line.key = "path" THEN {Pathed(Line.value)} ELSE f.path
      /\ g.expressions = IF Line.key = "expression" THEN Append(f.expressions, Line.value) ELSE f.expressions
  BY DEF FileSet
<1>3. ListedIn(g.expressions, Among(M, "expression"))
  <2>1. CASE Line.key = "expression"
    <3> DEFINE m == at + 1
    <3>1. Among(M, "expression") = Among(L, "expression") \cup {at + 1}
      BY <1>1, <2>1, LastOfNext
    <3>2. m = at + 1 /\ Line = call.lines[m]
      BY DEF Line
    <3>3. Among(L, "expression") \in SUBSET (1 .. at) /\ ListedIn(f.expressions, Among(L, "expression"))
      BY DEF Among, FileGiven
    <3> HIDE DEF m
    <3>4. ListedIn(Append(f.expressions, Line.value), Among(L, "expression") \cup {m})
      BY <3>2, <3>3, ListedNext
    <3> QED
      BY <1>2, <2>1, <3>1, <3>2, <3>4
  <2>2. CASE Line.key # "expression"
    <3>1. Among(M, "expression") = Among(L, "expression")
      BY <1>1, <2>2, LastOfNext
    <3> QED
      BY <1>2, <2>2, <3>1 DEF FileGiven
  <2> QED
    BY <2>1, <2>2
<1>4. CASE Line.key = "path"
  <2>1. Among(M, "path") = Among(L, "path") \cup {at + 1} /\ LastOf(M, "path") = {Line.value}
    BY <1>1, <1>4, LastOfNext
  <2>2. Among(M, "path") # {}
    BY <2>1
  <2> QED
    BY <1>2, <1>3, <1>4, <2>1, <2>2 DEF FileGiven
<1>5. CASE Line.key # "path"
  <2>1. Among(M, "path") = Among(L, "path") /\ LastOf(M, "path") = LastOf(L, "path")
    BY <1>1, <1>5, LastOfNext
  <2> QED
    BY <1>2, <1>3, <1>5, <2>1 DEF FileGiven
<1> QED
  BY <1>4, <1>5

(* What the default backend has been given by the lines of L: the last value  *)
(* of each option, or what it is without, and the framing function of the     *)
(* last name.                                                                 *)
PeerGiven(d, L) ==
  /\ d.host = IF Among(L, "host") = {} THEN {[scheme |-> "tcp", name |-> "localhost", port |-> {}]}
              ELSE LastOf(L, "host")
  /\ d.port = IF Among(L, "port") = {} THEN {"5900"} ELSE LastOf(L, "port")
  /\ d.protocol = LastOf(L, "protocol") /\ d.config = LastOf(L, "framing-config")
  /\ d.framing = {FramingNamed(name) : name \in LastOf(L, "framing")}

LEMMA PeerConfigured ==
  ASSUME at \in Nat, NEW L, L \in SUBSET (1 .. at), NEW d, PeerGiven(d, L),
         NEW e, e = PeerSet(d, Line.key, Line.value)
  PROVE  PeerGiven(e, L \cup {at + 1})
<1> DEFINE M == L \cup {at + 1}
<1>1. L \in SUBSET (0 .. at)
  OBVIOUS
<1>2. ASSUME NEW key
      PROVE  /\ Line.key = key => LastOf(M, key) = {Line.value} /\ Among(M, key) # {}
             /\ Line.key # key => Among(M, key) = Among(L, key) /\ LastOf(M, key) = LastOf(L, key)
  <2>1. /\ Line.key = key => LastOf(M, key) = {Line.value} /\ Among(M, key) = Among(L, key) \cup {at + 1}
        /\ Line.key # key => Among(M, key) = Among(L, key) /\ LastOf(M, key) = LastOf(L, key)
    BY <1>1, LastOfNext
  <2> QED
    BY <2>1
<1>3. /\ e.host = IF Line.key = "host" THEN {Line.value} ELSE d.host
      /\ e.port = IF Line.key = "port" THEN {Line.value} ELSE d.port
      /\ e.framing = IF Line.key = "framing" THEN {FramingNamed(Line.value)} ELSE d.framing
      /\ e.config = IF Line.key = "framing-config" THEN {Line.value} ELSE d.config
      /\ e.protocol = IF Line.key = "protocol" THEN {Line.value} ELSE d.protocol
  BY DEF PeerSet
<1> HIDE DEF M
<1>4. e.protocol = LastOf(M, "protocol")
  BY <1>2, <1>3 DEF PeerGiven
<1>5. e.config = LastOf(M, "framing-config")
  BY <1>2, <1>3 DEF PeerGiven
<1>6. e.host = IF Among(M, "host") = {} THEN {[scheme |-> "tcp", name |-> "localhost", port |-> {}]}
               ELSE LastOf(M, "host")
  <2>1. CASE Line.key = "host"
    BY <1>2, <1>3, <2>1
  <2>2. CASE Line.key # "host"
    BY <1>2, <1>3, <2>2 DEF PeerGiven
  <2> QED
    BY <2>1, <2>2
<1>7. e.port = IF Among(M, "port") = {} THEN {"5900"} ELSE LastOf(M, "port")
  <2>1. CASE Line.key = "port"
    BY <1>2, <1>3, <2>1
  <2>2. CASE Line.key # "port"
    BY <1>2, <1>3, <2>2 DEF PeerGiven
  <2> QED
    BY <2>1, <2>2
<1>8. e.framing = {FramingNamed(name) : name \in LastOf(M, "framing")}
  <2>1. CASE Line.key = "framing"
    BY <1>2, <1>3, <2>1
  <2>2. CASE Line.key # "framing"
    BY <1>2, <1>3, <2>2 DEF PeerGiven
  <2> QED
    BY <2>1, <2>2
<1> QED
  BY <1>4, <1>5, <1>6, <1>7, <1>8 DEF PeerGiven, M

(* The backend that runs is the last one named, if all that were named could  *)
(* be loaded, and has been given what stands behind its line.                 *)
Asked == \A i \in BackendLines : Loadable(call.lines[i].value)
ChosenInv ==
  pc \in {"options", "serve"} =>
    /\ Strict => Asked
    /\ Asked => /\ backend.library = Chosen
                /\ backend.library = "file" => FileGiven(store.file, Applied)
                /\ backend.library = "defaultpeer" => PeerGiven(store.defaultpeer, Applied)

LEMMA ChosenPrimed ==
  ASSUME call' = call, directory' = directory
  PROVE  /\ Asked' <=> \A i \in BackendLines' : Loadable(call.lines[i].value)
         /\ Strict' = Strict
         /\ Chosen' = IF BackendLines' = {} THEN "defaultpeer" ELSE call.lines[Max(BackendLines')].value
         /\ FileGiven(store.file, Applied)' <=> FileGiven(store'.file, Applied')
         /\ attached' = attached =>
              (PeerGiven(store.defaultpeer, Applied)' <=> PeerGiven(store'.defaultpeer, Applied'))
<1>1. \A n : Loadable(n)' = Loadable(n)
  BY DEF Loadable, Available
<1>2. \A key : LastOf(Applied, key)' = LastOf(Applied', key) /\ Among(Applied, key)' = Among(Applied', key)
  BY DEF LastOf, Among
<1>3. Asked' <=> \A i \in BackendLines' : Loadable(call.lines[i].value)
  BY <1>1 DEF Asked
<1>4. FileGiven(store.file, Applied)' <=> FileGiven(store'.file, Applied')
  BY <1>2 DEF FileGiven, ListedIn, Rank, Pathed
<1>5. ASSUME attached' = attached
      PROVE  PeerGiven(store.defaultpeer, Applied)' <=> PeerGiven(store'.defaultpeer, Applied')
  <2>1. \A n : FramingNamed(n)' = FramingNamed(n)
    BY <1>5 DEF FramingNamed, Provider, Known
  <2> QED
    BY <1>2, <2>1 DEF PeerGiven
<1> QED
  BY <1>3, <1>4, <1>5 DEF Strict, Chosen

LEMMA ChosenSame ==
  ASSUME ChosenInv, call' = call, directory' = directory, BackendLines' = BackendLines, Applied' = Applied,
         store' = store, backend' = backend, attached' = attached,
         pc' \in {"options", "serve"} => pc \in {"options", "serve"}
  PROVE  ChosenInv'
<1>1. Asked' = Asked /\ Chosen' = Chosen /\ Strict' = Strict
  BY ChosenPrimed DEF Asked, Chosen
<1> QED
  BY <1>1, ChosenPrimed DEF ChosenInv

(* The default backend, when it has been initialized, has nothing but its     *)
(* defaults.                                                                  *)
LEMMA PeerInited ==
  ASSUME FreshInv, StoreInv, pc = "plugins"
  PROVE  PeerGiven(InitOf("defaultpeer", store).defaultpeer, {})
<1> DEFINE e == InitOf("defaultpeer", store).defaultpeer
<1>1. OfStore(store, Objects, Values)
  BY DEF StoreInv
<1>2. store.defaultpeer.protocol = {} /\ store.defaultpeer.host = {} /\ store.defaultpeer.port = {}
  BY DEF FreshInv
<1>3. /\ e.framing = {} /\ e.config = {} /\ e.protocol = store.defaultpeer.protocol
      /\ e.host = {[scheme |-> "tcp", name |-> "localhost", port |-> {}]} /\ e.port = {"5900"}
  BY <1>1, <1>2, InitPeer
<1> HIDE DEF e
<1> QED
  BY <1>2, <1>3, LastOfNone DEF PeerGiven, e

LEMMA ChosenStep == IInv /\ SectionInv /\ ChosenInv /\ [Next]_vars => ChosenInv'
<1> SUFFICES ASSUME BaseInv, FreshInv, LibraryInv, StoreInv, SectionInv, ChosenInv, [Next]_vars
             PROVE  ChosenInv'
  BY DEF IInv
<1>1. call' = call /\ directory' = directory
  BY Rigid
<1>2. ASSUME at' = at
      PROVE  BackendLines' = BackendLines /\ Applied' = Applied
  BY <1>1, <1>2, OptionsSame, OptionsKept
<1>3. CASE InitDefault
  <2>1. /\ pc = "plugins" /\ at' = at /\ backend' = backend /\ attached' = attached
        /\ store' = InitOf(backend.library, store)
    BY <1>3 DEF InitDefault
  <2>2. backend.library = "defaultpeer" /\ at = 0
    BY <2>1 DEF FreshInv
  <2>3. BackendLines = {} /\ Applied = {}
    BY <2>2 DEF BackendLines, Applied, Options, ReadLines
  <2>4. PeerGiven(store'.defaultpeer, Applied')
    BY <1>2, <2>1, <2>2, <2>3, PeerInited
  <2>5. Asked' /\ Chosen' = "defaultpeer" /\ backend'.library = "defaultpeer"
    BY <1>1, <1>2, <2>1, <2>2, <2>3, ChosenPrimed
  <2> QED
    BY <1>1, <2>1, <2>4, <2>5, ChosenPrimed DEF ChosenInv
<1>4. CASE SectionHeader
  <2>1. Line.kind \in HeaderKinds /\ Reads
    BY <1>4 DEF SectionHeader, HeaderKinds
  <2>2. BackendLines' = BackendLines /\ Applied' = Applied
    BY <1>1, <2>1, HeaderRead, OptionsKept
  <2> QED
    BY <1>1, <1>4, <2>2, ChosenSame DEF SectionHeader
<1>5. CASE CoreOption
  <2>1. BackendLines' = BackendLines /\ Applied' = Applied
    BY <1>1, <1>5, CoreRead DEF CoreOption
  <2> QED
    BY <1>1, <1>5, <2>1, ChosenSame DEF CoreOption
<1>6. ASSUME Reads, IsBackend
      PROVE  Asked' <=> Asked /\ Loadable(Line.value)
  <2>1. BackendLines' = BackendLines \cup {at + 1}
    BY <1>1, <1>6, BackendRead
  <2> QED
    BY <1>1, <2>1, ChosenPrimed DEF Asked, Line
<1>7. CASE BackendMissing \/ BackendIncomplete
  <2>1. Reads /\ IsBackend /\ AfterLine(FALSE) /\ ~Loadable(Line.value)
    BY <1>7 DEF BackendMissing, BackendIncomplete, Loadable
  <2>2. ~Asked' /\ (Strict => pc' = "failed") /\ Strict' = Strict
    BY <1>1, <1>6, <2>1, ChosenPrimed DEF AfterLine
  <2> QED
    BY <2>2 DEF ChosenInv
<1>8. CASE BackendLoaded
  <2> DEFINE b == Line.value
  <2>1. /\ Reads /\ IsBackend /\ b \in DOMAIN BackendPlugins /\ b \in Available
        /\ {"init", "query"} \subseteq BackendPlugins[b].symbols
        /\ store' = InitOf(b, Cleaned) /\ backend'.library = b
        /\ pc = "options" /\ AfterLine(BackendPlugins[b].current)
    BY <1>8 DEF BackendLoaded, Replace, Available, Reads
  <2>2. BackendLines' = BackendLines \cup {at + 1} /\ Applied' = {} /\ \A i \in BackendLines : i <= at
    BY <1>1, <2>1, BackendRead
  <2>3. b # "defaultpeer"
    BY <2>1, PluginsAssumption
  <2>4. Loadable(b) <=> BackendPlugins[b].current
    BY <2>1 DEF Loadable
  <2>5. Strict' /\ pc' \in {"options", "serve"} => Asked'
    BY <1>1, <1>6, <2>1, <2>4, ChosenPrimed DEF AfterLine, ChosenInv
  <2>6. Chosen' = b
    <3> DEFINE m == Max(BackendLines')
    <3>1. at + 1 \in Nat /\ BackendLines' \in SUBSET (0 .. at + 1) /\ at + 1 \in BackendLines'
      BY <2>2, OptionsAre
    <3>2. m \in BackendLines' /\ \A k \in BackendLines' : k <= m
      BY <3>1, LargestIn
    <3>3. m \in 0 .. at + 1 /\ at + 1 <= m
      BY <3>1, <3>2
    <3> HIDE DEF m
    <3>4. m = at + 1
      BY <3>1, <3>3
    <3>5. Chosen' = call.lines[m].value
      BY <1>1, <3>1, ChosenPrimed DEF m
    <3> QED
      BY <3>4, <3>5 DEF Line
  <2>7. b = "file" => FileGiven(store'.file, Applied')
    <3>1. OfStore(Cleaned, Objects, Values) /\ Cleaned.file.expressions = <<>>
      BY <2>1, CleanedIs
    <3>2. InitOf("file", Cleaned).file = [path |-> {<<>>}, expressions |-> Cleaned.file.expressions]
      BY <3>1, InitFile
    <3>3. InitOf("file", Cleaned).file = [path |-> {<<>>}, expressions |-> <<>>]
      BY <3>1, <3>2
    <3> HIDE DEF b
    <3> QED
      BY <2>1, <2>2, <3>3, FileInited
  <2> HIDE DEF b
  <2> QED
    BY <1>1, <2>1, <2>3, <2>5, <2>6, <2>7, ChosenPrimed DEF ChosenInv
<1>9. CASE BackendOption
  <2>1. /\ Reads /\ IsOption("backend") /\ attached' = attached /\ backend' = backend
        /\ store' = ConfigureOf(backend.library, store, Line.key, Line.value)
        /\ pc = "options" /\ at < Len(call.lines)
    BY <1>9 DEF BackendOption, Reads
  <2>2. BackendLines' = BackendLines /\ Applied' = Applied \cup {at + 1} /\ Applied \in SUBSET (1 .. at)
    BY <1>1, <2>1, AppliedRead
  <2>3. OfStore(store, Objects, Values) /\ FramingsInv /\ Line.value \in Values /\ at \in Nat
    <3>1. at + 1 \in 1 .. Len(call.lines) /\ at \in Nat
      BY <2>1 DEF BaseInv
    <3> QED
      BY <2>1, <3>1 DEF StoreInv, LibraryInv, Line, Values
  <2>4. CASE backend.library = "file"
    <3>1. store' = ConfigureOf("file", store, Line.key, Line.value)
      BY <2>1, <2>4
    <3>2. store'.file = FileSet(store.file, Line.key, Line.value)
      BY <2>3, <3>1, ConfigureFile
    <3>3. store.file.expressions \in Seq(Values)
      BY <2>3 DEF OfStore, OfFile
    <3>4. FileGiven(store.file, Applied) => FileGiven(store'.file, Applied')
      BY <2>2, <2>3, <3>2, <3>3, FileConfigured
    <3>5. Asked' = Asked /\ Chosen' = Chosen /\ Strict' = Strict
      BY <1>1, <2>2, ChosenPrimed DEF Asked, Chosen
    <3> QED
      BY <1>1, <2>1, <2>4, <3>4, <3>5, ChosenPrimed DEF ChosenInv
  <2>5. CASE backend.library = "defaultpeer"
    <3>1. store' = ConfigureOf("defaultpeer", store, Line.key, Line.value)
      BY <2>1, <2>5
    <3>2. store'.defaultpeer = PeerSet(store.defaultpeer, Line.key, Line.value)
      BY <2>3, <3>1, ConfigurePeer
    <3>3. PeerGiven(store.defaultpeer, Applied) => PeerGiven(store'.defaultpeer, Applied')
      BY <2>2, <2>3, <3>2, PeerConfigured
    <3>4. Asked' = Asked /\ Chosen' = Chosen /\ Strict' = Strict
      BY <1>1, <2>2, ChosenPrimed DEF Asked, Chosen
    <3> QED
      BY <1>1, <2>1, <2>5, <3>3, <3>4, ChosenPrimed DEF ChosenInv
  <2>6. CASE backend.library \notin {"file", "defaultpeer"}
    <3>1. Asked' = Asked /\ Chosen' = Chosen /\ Strict' = Strict
      BY <1>1, <2>2, ChosenPrimed DEF Asked, Chosen
    <3> QED
      BY <2>1, <2>6, <3>1 DEF ChosenInv
  <2> QED
    BY <2>4, <2>5, <2>6
<1>10. CASE BackendOptionUnknown
  <2>1. /\ Reads /\ IsOption("backend") /\ backend' = backend /\ pc = "options"
        /\ "configure" \notin backend.symbols
    BY <1>10 DEF BackendOptionUnknown, Reads
  <2>2. backend.library \notin {"file", "defaultpeer"}
    BY <2>1, PluginsAssumption DEF BaseInv, Libraries, Symbols
  <2>3. BackendLines' = BackendLines
    BY <1>1, <2>1, AppliedRead
  <2>4. Asked' = Asked /\ Chosen' = Chosen /\ Strict' = Strict
    BY <1>1, <2>3, ChosenPrimed DEF Asked, Chosen
  <2> QED
    BY <2>1, <2>2, <2>4 DEF ChosenInv
<1>11. CASE Malformed
  BY <1>11 DEF Malformed, ChosenInv
<1>12. CASE \E object \in DOMAIN FramingPlugins : LoadFraming(object)
  BY <1>12 DEF LoadFraming, ChosenInv
<1>13. CASE \E request \in Requests : Connect(request) \/ ConnectCrashes(request)
  BY <1>1, <1>2, <1>13, ChosenSame DEF Connect, ConnectCrashes
<1>14. CASE LoadFramingFails \/ NoFile \/ Listen \/ Disconnect
  BY <1>1, <1>2, <1>14, ChosenSame DEF LoadFramingFails, NoFile, Listen, Disconnect
<1>15. CASE CleanupBackend \/ client_cleanup \/ plugin_cleanup
  BY <1>15 DEF CleanupBackend, client_cleanup, plugin_cleanup, ChosenInv
<1>16. CASE Ended \/ UNCHANGED vars
  BY <1>1, <1>2, <1>16, ChosenSame DEF Ended, vars
<1> QED
  BY <1>3, <1>4, <1>5, <1>7, <1>8, <1>9, <1>10, <1>11, <1>12, <1>13, <1>14, <1>15, <1>16 DEF Next

(* When the program serves, the core has the last value of each of its        *)
(* options, and the backend is the last one named and has what was given      *)
(* behind its line: its expressions in their order, the last of what it has   *)
(* one of, and the framing function of the object loaded last that has it.    *)
THEOREM Configured == Spec => []ConfigurationApplied
<1> DEFINE I == IInv /\ SectionInv /\ CoreInv /\ ChosenInv
<1>1. Init => I
  <2>1. Init => CoreInv /\ ChosenInv
    BY DEF Init, CoreInv, ChosenInv
  <2>2. Init => IInv
    BY BaseInit, LibraryInit, StoreInit DEF IInv
  <2> QED
    BY <2>1, <2>2, SectionInit
<1>2. I /\ [Next]_vars => I'
  <2>1. IInv /\ [Next]_vars => IInv'
    BY BaseStep, LibraryStep, StoreStep, ClientStep DEF IInv
  <2> QED
    BY <2>1, SectionStep, CoreStep, ChosenStep DEF IInv
<1>3. I => ConfigurationApplied
  <2> SUFFICES ASSUME CoreInv, ChosenInv, pc = "serve", AsAsked
               PROVE  /\ \A key \in DOMAIN core : core[key] = LastOf(Options("core"), key)
                      /\ backend.library = Chosen
                      /\ Chosen = "file" => FileGiven(store.file, Applied)
                      /\ Chosen = "defaultpeer" => PeerGiven(store.defaultpeer, Applied)
    <3>1. ASSUME /\ \A key \in DOMAIN core : core[key] = LastOf(Options("core"), key)
                 /\ backend.library = Chosen
                 /\ Chosen = "file" => FileGiven(store.file, Applied)
                 /\ Chosen = "defaultpeer" => PeerGiven(store.defaultpeer, Applied)
          PROVE  ConfigurationApplied
      <4>1. ASSUME Chosen = "file", NEW given, given = Among(Applied, "expression")
            PROVE  /\ Len(store.file.expressions) = Cardinality(given)
                   /\ \A i \in given :
                        store.file.expressions[Cardinality({j \in given : j <= i})] = call.lines[i].value
        BY <3>1, <4>1 DEF FileGiven, ListedIn, Rank
      <4>2. ASSUME Chosen = "file"
            PROVE  /\ Among(Applied, "path") = {} => store.file.path = {<<>>}
                   /\ \A value \in LastOf(Applied, "path") :
                        store.file.path = {IF value # <<>> /\ Last(value) = Slash THEN Front(value) ELSE value}
        BY <3>1, <4>2 DEF FileGiven, Pathed
      <4>3. ASSUME Chosen = "defaultpeer"
            PROVE  /\ \A key \in {"host", "port"} :
                        Among(Applied, key) # {} => store.defaultpeer[key] = LastOf(Applied, key)
                   /\ store.defaultpeer.protocol = LastOf(Applied, "protocol")
                   /\ store.defaultpeer.config = LastOf(Applied, "framing-config")
                   /\ store.defaultpeer.framing = {FramingNamed(name) : name \in LastOf(Applied, "framing")}
        BY <3>1, <4>3 DEF PeerGiven
      <4> QED
        BY <3>1, <4>1, <4>2, <4>3, Zenon DEF ConfigurationApplied
    <3> QED
      BY <3>1 DEF ConfigurationApplied
  <2>1. Asked
    BY DEF ChosenInv, Asked, AsAsked
  <2> QED
    BY <2>1 DEF CoreInv, ChosenInv
<1> QED
  BY <1>1, <1>2, <1>3, PTL DEF Spec

-----------------------------------------------------------------------------
(* A client has what its backend answers its request with, as long as the     *)
(* program serves.                                                            *)
PeerInv ==
  /\ pc \in {"plugins", "options"} => client = {}
  /\ pc = "serve" => \A c \in client : c.to = client_connect(QueryOf(backend.library, c.request))

LEMMA PeerStep == BaseInv /\ PeerInv /\ [Next]_vars => PeerInv'
<1> SUFFICES ASSUME BaseInv, PeerInv, [Next]_vars
             PROVE  PeerInv'
  OBVIOUS
<1>1. ASSUME backend' = backend, store' = store, framings' = framings, NEW request
      PROVE  QueryOf(backend.library, request)' = QueryOf(backend.library, request)
  BY <1>1 DEF QueryOf, backend_defaultpeer_query, file_query
<1>2. ASSUME backend' = backend, store' = store, framings' = framings, pc' = pc, client' \in {client, {}}
      PROVE  PeerInv'
  <2>1. CASE client' = {}
    BY <2>1 DEF PeerInv
  <2>2. CASE client' = client
    BY <1>1, <1>2, <2>2 DEF PeerInv
  <2> QED
    BY <1>2, <2>1, <2>2
<1>3. ASSUME client' = client, pc \in {"plugins", "options"}
      PROVE  PeerInv'
  BY <1>3 DEF PeerInv
<1>4. ASSUME pc' \notin {"plugins", "options", "serve"}
      PROVE  PeerInv'
  BY <1>4 DEF PeerInv
<1>5. CASE \E request \in Requests : Connect(request)
  <2>1. PICK request \in Requests : Connect(request)
    BY <1>5
  <2> DEFINE to == client_connect(QueryOf(backend.library, request))
             c(open) == [request |-> request, to |-> to, open |-> open]
  <2>2. PICK open \in BOOLEAN : client' = {c(open)}
    BY <2>1 DEF Connect
  <2>3. pc' = "serve" /\ client_connect(QueryOf(backend.library, request))' = to
    <3>1. pc' = "serve" /\ backend' = backend /\ store' = store /\ framings' = framings
      BY <2>1 DEF Connect
    <3> QED
      BY <1>1, <3>1
  <2> HIDE DEF to
  <2>4. c(open).request = request /\ c(open).to = to
    BY <2>2
  <2> HIDE DEF c
  <2> QED
    BY <2>2, <2>3, <2>4 DEF PeerInv
<1>6. CASE \E object \in DOMAIN FramingPlugins : LoadFraming(object)
  BY <1>3, <1>6 DEF LoadFraming
<1>7. CASE LoadFramingFails \/ InitDefault \/ NoFile \/ SectionHeader \/ Malformed \/ CoreOption
  BY <1>3, <1>7 DEF LoadFramingFails, InitDefault, NoFile, SectionHeader, Malformed, CoreOption, Reads
<1>8. CASE BackendMissing \/ BackendIncomplete \/ BackendLoaded \/ BackendOption \/ BackendOptionUnknown
  BY <1>3, <1>8 DEF BackendMissing, BackendIncomplete, BackendLoaded, BackendOption, BackendOptionUnknown, Reads
<1>9. CASE Listen
  BY <1>3, <1>9 DEF Listen
<1>10. CASE \E request \in Requests : ConnectCrashes(request)
  BY <1>4, <1>10 DEF ConnectCrashes
<1>11. CASE CleanupBackend \/ client_cleanup \/ plugin_cleanup
  BY <1>4, <1>11 DEF CleanupBackend, client_cleanup, plugin_cleanup
<1>12. CASE Disconnect
  <2>1. pc' = pc /\ client' = {} /\ backend' = backend /\ store' = store /\ framings' = framings
    BY <1>12 DEF Disconnect
  <2> QED
    BY <1>2, <2>1
<1>13. CASE Ended \/ UNCHANGED vars
  <2>1. pc' = pc /\ client' = client /\ backend' = backend /\ store' = store /\ framings' = framings
    BY <1>13 DEF Ended, vars
  <2> QED
    BY <1>2, <2>1
<1> QED
  BY <1>5, <1>6, <1>7, <1>8, <1>9, <1>10, <1>11, <1>12, <1>13 DEF Next

-----------------------------------------------------------------------------
(* The call of network_socket for a host, and what is behind its name.        *)
Transport(host) == IF host.scheme = "" THEN "tcp" ELSE host.scheme
Inet(host) == Transport(host) \in {"tcp", "udp"}
Piped(host) == Transport(host) \in {"fifotx", "fiforx"}
FramingOf(peer) == IF peer.framing = {} THEN [object |-> "builtin", name |-> "auto"]
                   ELSE CHOOSE f \in peer.framing : TRUE
Socket(peer, host) ==
  [transport |-> Transport(host), name |-> host.name,
   port |-> IF Inet(host) /\ peer.port = {} THEN host.port ELSE IF Inet(host) THEN peer.port ELSE {},
   rest |-> IF Inet(host) /\ peer.port = {} THEN {} ELSE host.port,
   framing |-> FramingOf(peer), config |-> peer.config, protocol |-> peer.protocol]

LEMMA SocketIs ==
  ASSUME NEW peer, NEW host, peer.host = {host}
  PROVE  client_connect(peer) = IF ~Piped(host) /\ (Inet(host) /\ peer.port = {} => host.port # {})
                                THEN {Socket(peer, host)} ELSE {}
<1> DEFINE named == {x \in peer.host : /\ Transport(x) \notin {"fifotx", "fiforx"}
                                       /\ Inet(x) /\ peer.port = {} => x.port # {}}
<1>1. client_connect(peer) = {Socket(peer, h) : h \in named}
  BY Zenon DEF client_connect, Socket, Transport, Inet, FramingOf
<1>2. named = IF ~Piped(host) /\ (Inet(host) /\ peer.port = {} => host.port # {}) THEN {host} ELSE {}
  BY DEF Piped
<1> HIDE DEF named
<1>3. CASE named = {host}
  <2>1. client_connect(peer) = {Socket(peer, host)}
    BY <1>1, <1>3
  <2>2. {host} # {}
    OBVIOUS
  <2> QED
    BY <1>2, <1>3, <2>1, <2>2
<1>4. CASE named = {}
  <2>1. client_connect(peer) = {}
    BY <1>1, <1>4
  <2>2. {host} # {}
    OBVIOUS
  <2> QED
    BY <1>2, <1>4, <2>1, <2>2
<1> QED
  BY <1>2, <1>3, <1>4

LEMMA NoSocket == ASSUME NEW peer, peer.host = {} PROVE client_connect(peer) = {}
BY DEF client_connect

LEMMA TargetIs ==
  ASSUME NEW peer, NEW host, NEW target, target = Target(host, peer.port, FramingOf(peer), peer.config, peer.protocol)
  PROVE  /\ Socket(peer, host).rest = IF Inet(host) /\ peer.port = {} THEN {} ELSE host.port
         /\ Socket(peer, host).rest = {} => target = Socket(peer, host)
         /\ Connectable(target) <=> ~Piped(host) /\ (Inet(host) => ~(peer.port = {} /\ host.port = {}))
<1>1. Inet(host) <=> host.scheme \in {"", "tcp", "udp"}
  BY DEF Inet, Transport
<1> DEFINE port == IF host.scheme \notin {"", "tcp", "udp"} THEN {} ELSE IF peer.port = {} THEN host.port ELSE peer.port
<1>2. port = IF ~Inet(host) THEN {} ELSE IF peer.port = {} THEN host.port ELSE peer.port
  BY <1>1
<1>3. port = IF Inet(host) /\ peer.port = {} THEN host.port ELSE IF Inet(host) THEN peer.port ELSE {}
  BY <1>2
<1>4. target = [transport |-> Transport(host), name |-> host.name, port |-> port, rest |-> {},
                framing |-> FramingOf(peer), config |-> peer.config, protocol |-> peer.protocol]
  BY DEF Target, Transport
<1> HIDE DEF port
<1> DEFINE rest == IF Inet(host) /\ peer.port = {} THEN {} ELSE host.port
<1>5. Socket(peer, host) = [transport |-> Transport(host), name |-> host.name, port |-> port, rest |-> rest,
                            framing |-> FramingOf(peer), config |-> peer.config, protocol |-> peer.protocol]
  BY <1>3 DEF Socket
<1>6. Socket(peer, host).rest = rest
  <2> HIDE DEF rest
  <2> QED
    BY <1>5
<1>7. rest = {} => target = Socket(peer, host)
  <2> HIDE DEF rest
  <2> QED
    BY <1>4, <1>5
<1>8. target.transport = Transport(host) /\ target.port = port
  BY <1>4
<1>9. Connectable(target) <=> ~Piped(host) /\ (Inet(host) => ~(peer.port = {} /\ host.port = {}))
  BY <1>2, <1>8 DEF Connectable, Piped, Inet
<1> QED
  BY <1>6, <1>7, <1>9

(* An answer of the files is a line of one of them.                           *)
LEMMA AnswersAreLines ==
  ASSUME NEW path, NEW expressions, NEW request, NEW line \in DocAnswer(path, expressions, request)
  PROVE  \E p \in DOMAIN Files : \E j \in DOMAIN Files[p] : line = Files[p][j]
<1>1. PICK e \in DOMAIN expressions :
        /\ DocComplete(path, expressions[e], request) /\ Matching(path, expressions[e], request) # {}
        /\ line = AnswerOf(path, expressions[e], request)
  BY DEF DocAnswer, AnswerOf, Matching, LinesOf
<1> DEFINE p == DocPath(path, expressions[e], request)
           M == Matching(path, expressions[e], request)
<1>2. p \in DOMAIN Files
  BY <1>1 DEF DocComplete
<1> HIDE DEF p
<1>3. M \subseteq DOMAIN Files[p] /\ line = Files[p][Min(M)]
  BY <1>1 DEF Matching, LinesOf, AnswerOf, p
<1>4. DOMAIN Files[p] \subseteq Nat
  BY <1>2, FilesAssumption, SeqIs
<1> HIDE DEF M
<1>5. M # {}
  BY <1>1 DEF M
<1>6. Min(M) \in M
  BY <1>3, <1>4, <1>5, SmallestIn
<1> QED
  BY <1>2, <1>3, <1>6

(* The backend file: its answer, if the files have one, names the target.     *)
FramingName(line) == IF line.framing = {} THEN "auto" ELSE CHOOSE n \in line.framing : TRUE
TargetOf(line, request) ==
  Target(line.host, {}, FramingNamed(FramingName(line)), line.config, ProtocolOf(line, request.protocols))

LEMMA FileConnects ==
  ASSUME LibraryInv, FramingsInv, OfStore(store, Objects, Values), NEW request,
         AskedPlainly(request), PortsAreInet
  PROVE  client_connect(QueryOf("file", request)) = FileTargets(request)
<1> DEFINE paths == store.file.path
           given == store.file.expressions
           found == UNION {query(path, given, request) : path \in paths}
           documented == UNION {DocAnswer(path, given, request) : path \in paths}
           answer == QueryOf("file", request)
<1>1. AtMostOne(paths) /\ Len(given) \in Nat /\ DOMAIN given = 1 .. Len(given)
  BY LenProperties DEF OfStore, OfFile
<1>2. answer = file_query(store.file, request)
  BY DEF QueryOf
<1>3. /\ answer.host = {line.host : line \in found} /\ answer.port = {}
      /\ answer.framing = {plugin_framing(framings, FramingName(line)) : line \in found}
      /\ answer.config = UNION {line.config : line \in found}
      /\ answer.protocol = IF found = {} THEN Len(request.protocols)
                         ELSE ProtocolOf(CHOOSE line \in found : TRUE, request.protocols)
  <2> HIDE DEF answer
  <2> QED
    BY <1>2 DEF file_query, FramingName
<1>4. FileTargets(request) = {t \in {TargetOf(line, request) : line \in documented} : Connectable(t)}
  BY Zenon DEF FileTargets, TargetOf, FramingName
<1> HIDE DEF paths, given, answer
<1>5. found = documented
  <2>1. \A path \in paths : query(path, given, request) = DocAnswer(path, given, request)
    BY <1>1, QueryAnswers DEF paths, given, AskedPlainly
  <2> QED
    BY <2>1
<1>6. AtMostOne(found)
  <2>1. \A path : AtMostOne(query(path, given, request))
    BY <1>1, OneAnswer
  <2>2. ASSUME NEW x \in found, NEW y \in found PROVE x = y
    <3>1. PICK p \in paths : x \in query(p, given, request)
      OBVIOUS
    <3>2. PICK q \in paths : y \in query(q, given, request)
      OBVIOUS
    <3>3. p = q
      BY <1>1 DEF AtMostOne
    <3> QED
      BY <2>1, <3>1, <3>2, <3>3 DEF AtMostOne
  <2> QED
    BY <2>2 DEF AtMostOne
<1>7. \A line \in found : line.host.port # {} => line.host.scheme \in {"", "tcp", "udp"}
  <2>1. \A line \in documented : \E p \in DOMAIN Files : \E j \in DOMAIN Files[p] : line = Files[p][j]
    <3>1. ASSUME NEW line \in documented
          PROVE  \E p \in DOMAIN Files : \E j \in DOMAIN Files[p] : line = Files[p][j]
      <4>1. PICK path \in paths : line \in DocAnswer(path, given, request)
        OBVIOUS
      <4>2. PICK expressions : expressions = given
        OBVIOUS
      <4>3. line \in DocAnswer(path, expressions, request)
        BY <4>1, <4>2
      <4> HIDE DEF documented
      <4> QED
        BY <4>3, AnswersAreLines
    <3> QED
      BY <3>1
  <2> QED
    BY <1>5, <2>1 DEF PortsAreInet
<1> HIDE DEF found, documented
<1>8. CASE found = {}
  <2>1. client_connect(answer) = {}
    <3>1. answer.host = {}
      BY <1>3, <1>8
    <3> QED
      BY <3>1, NoSocket
  <2>2. FileTargets(request) = {}
    BY <1>4, <1>5, <1>8
  <2> QED
    BY <2>1, <2>2 DEF answer
<1>9. ASSUME NEW line \in found
      PROVE  client_connect(answer) = FileTargets(request)
  <2> DEFINE goal == TargetOf(line, request)
             machine == line.host
  <2>1. found = {line}
    BY <1>6, <1>9 DEF AtMostOne
  <2>2. /\ answer.host = {machine} /\ answer.port = {} /\ answer.config = line.config
        /\ answer.framing = {plugin_framing(framings, FramingName(line))}
        /\ answer.protocol = ProtocolOf(line, request.protocols)
    BY <1>3, <2>1
  <2>3. plugin_framing(framings, FramingName(line)) = FramingNamed(FramingName(line))
    BY FramingFound DEF LibraryInv
  <2>4. FramingOf(answer) = FramingNamed(FramingName(line))
    BY <2>2, <2>3 DEF FramingOf
  <2>5. goal = Target(machine, answer.port, FramingNamed(FramingName(line)), answer.config, answer.protocol)
    BY <2>2 DEF TargetOf
  <2>6. FileTargets(request) = IF Connectable(goal) THEN {goal} ELSE {}
    <3>1. {TargetOf(x, request) : x \in documented} = {goal}
      BY <1>5, <2>1
    <3> HIDE DEF goal
    <3> QED
      BY <1>4, <3>1
  <2>7. Inet(machine) \/ machine.port = {}
    BY <1>7 DEF Inet, Transport
  <2> HIDE DEF goal, machine
  <2>8. goal = Target(machine, answer.port, FramingOf(answer), answer.config, answer.protocol)
    BY <2>4, <2>5
  <2>9. /\ Socket(answer, machine).rest = {} /\ goal = Socket(answer, machine)
        /\ Connectable(goal) <=> ~Piped(machine) /\ (Inet(machine) /\ answer.port = {} => machine.port # {})
    <3>1. /\ Socket(answer, machine).rest = IF Inet(machine) /\ answer.port = {} THEN {} ELSE machine.port
          /\ Socket(answer, machine).rest = {} => goal = Socket(answer, machine)
          /\ Connectable(goal) <=> ~Piped(machine) /\ (Inet(machine) => ~(answer.port = {} /\ machine.port = {}))
      BY <2>8, TargetIs
    <3> QED
      BY <2>2, <2>7, <3>1
  <2>10. client_connect(answer) = IF Connectable(goal) THEN {goal} ELSE {}
    BY <2>2, <2>9, SocketIs
  <2> QED
    BY <2>6, <2>10
<1> QED
  BY <1>8, <1>9 DEF answer

(* The default backend: its options, or what it is without them, name the     *)
(* target.                                                                    *)
LEMMA LastOfIs ==
  ASSUME NEW n \in Nat, NEW L \in SUBSET (1 .. n), NEW key
  PROVE  /\ Among(L, key) = {} => LastOf(L, key) = {}
         /\ Among(L, key) # {} => \E value : LastOf(L, key) = {value}
<1> DEFINE A == Among(L, key)
           last == {j \in A : \A k \in A : k <= j}
<1>1. A \in SUBSET (0 .. n)
  <2>1. \A i \in 1 .. n : i \in 0 .. n
    OBVIOUS
  <2> QED
    BY <2>1 DEF Among
<1>2. LastOf(L, key) = {call.lines[i].value : i \in last}
  BY DEF LastOf
<1>3. CASE A = {}
  <2>1. last = {}
    BY <1>3
  <2> HIDE DEF last
  <2>2. LastOf(L, key) = {}
    BY <1>2, <2>1
  <2> QED
    BY <1>3, <2>2
<1>4. CASE A # {}
  <2> HIDE DEF A
  <2>1. Max(A) \in A /\ \A k \in A : k <= Max(A)
    BY <1>1, <1>4, LargestIn
  <2> DEFINE m == Max(A)
  <2>2. \A j \in last : j = m
    <3>1. ASSUME NEW j \in last PROVE j = m
      <4>1. j \in A /\ m <= j /\ j <= m
        BY <2>1, <3>1
      <4>2. j \in 0 .. n /\ m \in 0 .. n
        BY <1>1, <2>1, <4>1
      <4> HIDE DEF m
      <4> QED
        BY <4>1, <4>2
    <3> QED
      BY <3>1
  <2>3. last = {m}
    BY <2>1, <2>2
  <2> HIDE DEF last, m
  <2>4. LastOf(L, key) = {call.lines[m].value}
    BY <1>2, <2>3
  <2> QED
    BY <1>4, <2>4 DEF A
<1> QED
  BY <1>3, <1>4

LEMMA AutoIs ==
  ASSUME AutoIsBuiltin
  PROVE  FramingNamed("auto") = [object |-> "builtin", name |-> "auto"]
<1>1. Known("auto")
  BY DEF Known, BuiltinFramings
<1>2. Provider("auto") = "builtin"
  <2>1. Having("auto") = {}
    BY DEF Having, AutoIsBuiltin
  <2>2. Provider("auto") = IF Having("auto") = {} THEN "builtin" ELSE attached[Max(Having("auto"))]
    BY DEF Provider, Having
  <2> QED
    BY <2>1, <2>2
<1> QED
  BY <1>1, <1>2 DEF FramingNamed

LEMMA DefaultConnects ==
  ASSUME AutoIsBuiltin, BaseInv, PeerGiven(store.defaultpeer, Applied), ~HostHasPort,
         NEW request, ~Unnegotiated(request)
  PROVE  client_connect(QueryOf("defaultpeer", request)) = DefaultTargets(request)
<1> DEFINE d == store.defaultpeer
           answer == QueryOf("defaultpeer", request)
           hosts == IF Among(Applied, "host") = {} THEN {[scheme |-> "tcp", name |-> "localhost", port |-> {}]}
                    ELSE LastOf(Applied, "host")
           ports == IF Among(Applied, "port") = {} THEN {"5900"} ELSE LastOf(Applied, "port")
           names == IF Among(Applied, "framing") = {} THEN {"auto"} ELSE LastOf(Applied, "framing")
           protocols == LastOf(Applied, "protocol")
           configs == LastOf(Applied, "framing-config")
           count == Len(request.protocols)
           same == {i \in 1 .. count : \E p \in protocols : Lower[request.protocols[i]] = Lower[p]}
           protocol == CASE protocols = {"*"} -> 0 [] OTHER -> IF same = {} THEN count ELSE Min(same) - 1
           function == FramingNamed(CHOOSE n \in names : TRUE)
           port(host) == IF Among(Applied, "port") = {} /\ host.port # {} THEN host.port ELSE ports
<1>1. DefaultTargets(request)
        = {t \in {Target(host, port(host), function, configs, protocol) : host \in hosts} :
             Connectable(t) /\ ~Unnegotiated(request)}
  BY Zenon DEF DefaultTargets
<1>2. answer = backend_defaultpeer_query(d, request)
  BY DEF QueryOf
<1>3. d.host = hosts /\ d.port = ports /\ d.config = configs /\ d.protocol = protocols
  BY DEF PeerGiven
<1>4. d.framing = {FramingNamed(name) : name \in LastOf(Applied, "framing")}
  BY DEF PeerGiven
<1>5. \A key : /\ Among(Applied, key) = {} => LastOf(Applied, key) = {}
               /\ Among(Applied, key) # {} => \E value : LastOf(Applied, key) = {value}
  <2>1. at \in Nat /\ Applied \in SUBSET (1 .. at)
    BY OptionsAre
  <2> QED
    BY <2>1, LastOfIs
<1>6. (\E machine : hosts = {machine}) /\ ports # {}
  <2>1. \E machine : hosts = {machine}
    BY <1>5
  <2>2. \E number : ports = {number}
    BY <1>5
  <2> HIDE DEF hosts, ports
  <2> QED
    BY <2>1, <2>2
<1>7. FramingOf(answer) = function
  <2>1. answer.framing = {FramingNamed(name) : name \in LastOf(Applied, "framing")}
    <3> HIDE DEF answer, d
    <3> QED
      BY <1>2, <1>4 DEF backend_defaultpeer_query
  <2> HIDE DEF answer
  <2>2. CASE Among(Applied, "framing") = {}
    <3>1. answer.framing = {}
      BY <1>5, <2>1, <2>2
    <3>2. FramingOf(answer) = FramingNamed("auto")
      BY <3>1, AutoIs DEF FramingOf
    <3>3. names = {"auto"}
      BY <2>2
    <3> HIDE DEF names
    <3> QED
      BY <3>2, <3>3
  <2>3. CASE Among(Applied, "framing") # {}
    <3>1. PICK name : LastOf(Applied, "framing") = {name}
      BY <1>5, <2>3
    <3>2. answer.framing = {FramingNamed(name)}
      BY <2>1, <3>1
    <3>3. FramingOf(answer) = FramingNamed(name)
      BY <3>2 DEF FramingOf
    <3>4. names = {name}
      BY <2>3, <3>1
    <3> HIDE DEF names
    <3> QED
      BY <3>3, <3>4
  <2> QED
    BY <2>2, <2>3
<1>15. \A host \in hosts : host.port = {}
  <2>1. \A host \in LastOf(Applied, "host") : host.port = {}
    BY DEF HostHasPort
  <2> QED
    BY <2>1
<1> HIDE DEF d, hosts, ports, protocols, configs, function
<1>8. answer.host = hosts /\ answer.port = ports /\ answer.config = configs /\ answer.protocol = protocol
  <2>1. answer.protocol = IF d.protocol = {"*"} THEN 0 ELSE IF same = {} THEN count ELSE Min(same) - 1
    <3> HIDE DEF answer
    <3> QED
      BY <1>2, <1>3 DEF backend_defaultpeer_query
  <2>2. answer.host = d.host /\ answer.port = d.port /\ answer.config = d.config
    <3> HIDE DEF answer
    <3> QED
      BY <1>2 DEF backend_defaultpeer_query
  <2> HIDE DEF same, count
  <2> QED
    BY <1>3, <2>1, <2>2
<1> HIDE DEF answer, protocol
<1>9. PICK machine : hosts = {machine}
  BY <1>6
<1> DEFINE goal == Target(machine, answer.port, FramingOf(answer), answer.config, answer.protocol)
<1>10. DefaultTargets(request) = IF Connectable(goal) THEN {goal} ELSE {}
  <2>1. goal = Target(machine, ports, function, configs, protocol)
    BY <1>7, <1>8
  <2>2. port(machine) = ports
    BY <1>9, <1>15
  <2> HIDE DEF port
  <2>3. {Target(host, port(host), function, configs, protocol) : host \in hosts} = {goal}
    BY <1>9, <2>1, <2>2
  <2> HIDE DEF goal
  <2> QED
    BY <1>1, <2>3
<1>11. answer.host = {machine} /\ answer.port # {}
  BY <1>6, <1>8, <1>9
<1> HIDE DEF goal, port
<1>12. /\ Socket(answer, machine).rest = {} => goal = Socket(answer, machine)
       /\ Connectable(goal) <=> ~Piped(machine)
  BY <1>11, TargetIs DEF goal
<1>13. client_connect(answer) = IF ~Piped(machine) THEN {Socket(answer, machine)} ELSE {}
  BY <1>11, SocketIs
<1>14. Socket(answer, machine).rest = {}
  <2>1. machine.port = {}
    BY <1>9, <1>15
  <2>2. Socket(answer, machine).rest = IF Inet(machine) /\ answer.port = {} THEN {} ELSE machine.port
    BY <1>11, TargetIs
  <2> QED
    BY <2>1, <2>2
<1> QED
  BY <1>10, <1>12, <1>13, <1>14 DEF answer

(* A client is bridged to the peer that the documentation has for its request *)
(* and to no other: the first line that matches of the files, or the options  *)
(* of the default backend with the framing function of the object loaded last *)
(* that has it, for all plugins, files, calls and requests that are as        *)
(* AsDocumented has them, if its host names no port and there is a protocol   *)
(* or the client asks for none; in the others the default backend does not do *)
(* what the documentation says.                                               *)
THEOREM RightPeers == Spec => [](AsDocumented => RightPeer)
<1> DEFINE I == IInv /\ SectionInv /\ ChosenInv /\ PeerInv
<1>1. Init => I
  <2>1. Init => ChosenInv /\ PeerInv
    BY DEF Init, ChosenInv, PeerInv
  <2>2. Init => IInv
    BY BaseInit, LibraryInit, StoreInit DEF IInv
  <2> QED
    BY <2>1, <2>2, SectionInit
<1>2. I /\ [Next]_vars => I'
  <2>1. IInv /\ [Next]_vars => IInv'
    BY BaseStep, LibraryStep, StoreStep, ClientStep DEF IInv
  <2> QED
    BY <2>1, SectionStep, ChosenStep, PeerStep DEF IInv
<1>3. I => (AsDocumented => RightPeer)
  <2> SUFFICES ASSUME BaseInv, LibraryInv, StoreInv, ChosenInv, PeerInv, AsDocumented,
                      pc = "serve", AsAsked, NEW c \in client
               PROVE  /\ backend.library = "file" => c.to = FileTargets(c.request)
                      /\ backend.library = "defaultpeer" /\ ~HostHasPort /\ ~Unnegotiated(c.request) =>
                           c.to = DefaultTargets(c.request)
    BY DEF RightPeer, Serving, IInv
  <2>1. c.to = client_connect(QueryOf(backend.library, c.request))
    BY DEF PeerInv
  <2>2. FramingsInv /\ OfStore(store, Objects, Values)
    BY DEF LibraryInv, StoreInv
  <2>3. ASSUME backend.library = "file"
        PROVE  c.to = FileTargets(c.request)
    <3>1. PortsAreInet /\ AskedPlainly(c.request)
      BY <2>3 DEF AsDocumented
    <3>2. c.to = client_connect(QueryOf("file", c.request))
      BY <2>1, <2>3
    <3> QED
      BY <2>2, <3>1, <3>2, FileConnects
  <2>4. ASSUME backend.library = "defaultpeer", ~HostHasPort, ~Unnegotiated(c.request)
        PROVE  c.to = DefaultTargets(c.request)
    <3>1. AutoIsBuiltin /\ PeerGiven(store.defaultpeer, Applied)
      <4>1. Asked
        BY DEF ChosenInv, Asked, AsAsked
      <4> QED
        BY <2>4, <4>1 DEF ChosenInv, AsDocumented
    <3>2. c.to = client_connect(QueryOf("defaultpeer", c.request))
      BY <2>1, <2>4
    <3> QED
      BY <2>4, <3>1, <3>2, DefaultConnects
  <2> QED
    BY <2>3, <2>4
<1> QED
  BY <1>1, <1>2, <1>3, PTL DEF Spec
=============================================================================
