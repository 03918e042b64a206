---------------------------- MODULE MCPeerStream ----------------------------
(* Peers for PeerStream: one or more streams for every framing function.      *)
EXTENDS PeerStream

(* A read may end anywhere, or anywhere but inside a separator.               *)
Anywhere(stream) == 1 .. Len(stream)
OutsideOf(sep, stream) ==
  1 .. Len(stream) \ UNION {e - Len(sep) + 1 .. e - 1 : e \in Ends(stream, sep)}

Plain == [framing |-> "auto", configured |-> TRUE, expression |-> <<>>, newline |-> "", size |-> 0, options |-> <<>>,
          stream |-> <<>>, cuts |-> {}, sep |-> <<>>]
Any(function, stream) ==
  [Plain EXCEPT !.framing = function, !.stream = stream, !.cuts = Anywhere(stream)]
(* sep is what the expression or the name of a newline stands for.            *)
Cutting(sep, p) == [p EXCEPT !.sep = sep, !.cuts = OutsideOf(sep, p.stream)]
Separated(expression, sep, stream) ==
  Cutting(sep, [Any("separator", stream) EXCEPT !.expression = expression])
Lines(name, sep, stream) == Cutting(sep, [Any("newline", stream) EXCEPT !.newline = name])
Sized(size, stream) == [Any("fixedlength", stream) EXCEPT !.size = size]
Dynamic(options, stream) == [Any("dynamic32", stream) EXCEPT !.options = options]
With(name, value) == [name |-> name, value |-> value]

(* A two-byte, a three-byte and a four-byte code point and an "a"; none.      *)
Text == <<195, 169, 226, 130, 172, 240, 159, 152, 128, 97>>
Raw == <<97, 255, 98, 195, 98, 240, 159>>
(* \0\, \x0aG, \r\f, \q\\, \xg0                                               *)
NulNul == <<92, 48, 92>>
LfG == <<92, 120, 48, 97, 71>>
CrFf == <<92, 114, 92, 102>>
Slashes == <<92, 113, 92, 92>>
NoHex == <<92, 120, 103, 48>>

(* JSON, of which the first entity may be cut, but not behind a comma:        *)
(* {"a":1}[], [[],[]]"", "a\"b"null, [true], }a                                *)
Json(stream, first, commas) ==
  [Any("json", stream) EXCEPT !.cuts = (1 .. first \ commas) \cup {first + 2, first + 4}]
JsonPeers ==
  {Json(<<123, 34, 97, 34, 58, 49, 125, 91, 93>>, 7, {}),
   Json(<<91, 91, 93, 44, 91, 93, 93, 34, 34>>, 7, {4}),
   Json(<<34, 97, 92, 34, 98, 34, 110, 117, 108, 108>>, 6, {}),
   Json(<<32, 91, 116, 114, 117, 101, 93>>, 7, {}),
   Json(<<125, 97>>, 2, {})}

(* A separator with a bad escape, options of which the second is not reached, *)
(* functions without a configuration.                                         *)
StuckPeers == {[Any("separator", <<1>>) EXCEPT !.expression = NoHex],
               Dynamic(<<With("offset", 1), With("endian", 1)>>, <<7, 0>>)}
BarePeers == {[Any(function, <<1>>) EXCEPT !.configured = FALSE] : function \in Functions}

MCPeers ==
  {Any("auto", Text), Any("auto", Raw), Any("binary", <<1, 2, 3>>), Any("plugin", <<1, 2, 3>>),
   Separated(NulNul, <<0, 0>>, <<1, 0, 0, 0, 0, 2, 0, 3, 0, 0>>),
   Separated(LfG, <<10, 71>>, <<71, 10, 71, 1>>), Separated(<<>>, <<>>, <<1, 2>>),
   Separated(CrFf, <<13, 12>>, <<1, 13, 12, 12>>),
   Separated(Slashes, <<92, 92>>, <<92, 113, 92, 92>>),
   Lines("lf", <<10>>, <<97, 195, 169, 10, 10, 98, 98, 10, 97>>),
   Lines("lf", <<10>>, <<255, 10, 128, 98, 10, 98, 10>>),
   Lines("crlf", <<13, 10>>, <<97, 13, 13, 10, 98, 10, 13, 10, 13, 10>>),
   Lines("lfcr", <<10, 13>>, <<97, 13, 10, 13>>), Lines("cr", <<13>>, <<97, 13, 10, 13>>),
   Lines("unix", <<13, 10>>, <<10, 13, 10, 97>>),
   Sized(0, <<1, 2>>), Sized(3, <<1, 2, 3, 4, 5, 6, 7, 8>>),
   Sized(8, <<1, 2, 3, 4, 5, 6, 7, 8, 9>>),
   Dynamic(<<>>, <<2, 0, 1, 1, 0, 0, 1, 0, 9, 1>>),
   Dynamic(<<With("offset", 1)>>, <<7, 1, 0, 9, 7, 0, 0, 8>>),
   Dynamic(<<With("static", 1)>>, <<1, 0, 8, 9, 0, 0, 8>>),
   Dynamic(<<With("static", -2)>>, <<3, 0, 1, 2, 0, 4, 0, 1, 1, 0>>),
   Dynamic(<<With("endian", 1)>>, <<0, 1, 9, 0, 0, 0, 3, 7, 8, 9>>)}
    \cup JsonPeers \cup StuckPeers \cup BarePeers

(* Lines that a read may cut anywhere.                                        *)
CutLines == {[Any("newline", <<97, 13, 10, 98, 13, 10>>) EXCEPT !.newline = "crlf", !.sep = <<13, 10>>]}
(* A line that is UTF-8, and one that is not.                                 *)
MixedLines == {Lines("lf", <<10>>, <<97, 10, 255, 10>>)}
(* The length fields of these streams mean something, and no line that is not *)
(* UTF-8 follows one that is, but in MixedLines.                              *)
ASSUME Meaningful ==
  /\ \A p \in MCPeers : /\ p.framing = "dynamic32" => Measuring(p)
                        /\ p.framing = "newline" => Unmixing(p)
  /\ \A p \in MixedLines : ~Unmixing(p)

(* JSON that a read may cut anywhere: [1,2]                                   *)
CutJson == {Any("json", <<91, 49, 44, 50, 93>>)}
=============================================================================
