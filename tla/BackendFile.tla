----------------------------- MODULE BackendFile -----------------------------
(* The backend file: how it makes the path of a file from a template and what *)
(* a request brought, and which line of the files it answers with.            *)
(*                                                                            *)
(* Texts are sequences of characters.  A template is a sequence of parts      *)
(* [kind, text]: a character of its own ("char"), or a variable: "endpoint",  *)
(* "cookie" and "header" with a name, or "open", one without its final %.     *)
EXTENDS Integers, Sequences, SequencesExt

CONSTANTS
  Files,    \* the files, by their paths: sequences of [short, host, proto, framing, config]
  MaxPath   \* BACKEND_FILE_MAX_PATH

IsSeq(s) == s \in Seq(Range(s))

(* A file has its lines in their order.                                       *)
ASSUME FilesAssumption == \A p \in DOMAIN Files : IsSeq(Files[p])

Slash == "/"
Sanitized(value) == ReplaceAll(value, Slash, "_")

(* The endpoint as a variable leaves it: a slash at its end is overwritten.   *)
Trimmed(endpoint) ==
  IF Len(endpoint) >= 2 /\ endpoint[Len(endpoint)] = Slash
  THEN SubSeq(endpoint, 1, Len(endpoint) - 1) ELSE endpoint

(* The places a variable's value may be at, the first of which it is taken    *)
(* from: none fails the expression.  A cookie without a value counts only if  *)
(* there is something behind it.                                              *)
Named(pairs, name) == {i \in DOMAIN pairs : pairs[i].name = name}
Cookie(cookies, name) ==
  LET at == Named(cookies, name) IN
  IF at = {} THEN {}
  ELSE LET value == cookies[Min(at)].value
       IN IF value = <<>> /\ Min(at) = Len(cookies) THEN {} ELSE {value}
Header(headers, name) ==
  LET at == Named(headers, name) IN IF at = {} THEN {} ELSE {headers[Min(at)].value}
Value(part, endpoint, request) ==
  CASE part.kind = "endpoint" -> IF endpoint = <<>> THEN {} ELSE {Tail(Trimmed(endpoint))}
    [] part.kind = "cookie" -> Cookie(request.cookies, part.text)
    [] part.kind = "header" -> Header(request.headers, part.text)
    [] part.kind = "open" -> {}

(* How many characters a part takes in the configuration.                     *)
Width(part) == CASE part.kind = "char" -> 1
                 [] part.kind = "endpoint" -> 10
                 [] part.kind = "open" -> 8 + Len(part.text)
                 [] OTHER -> 9 + Len(part.text)
WidthFrom(template, k) ==
  FoldLeft(LAMBDA sum, part : sum + Width(part), 0, SubSeq(template, k, Len(template)))

(* Mutation: what is inserted is not sanitized.                               *)
expression_replaceRaw(path, width, value, behind) ==
  IF width < Len(value) /\ Len(path) + Len(value) + behind >= MaxPath THEN {} ELSE {path \o value}

(* A value takes the place of its variable, if the buffer has room for it and *)
(* for what is behind the variable.                                           *)
expression_replace(path, width, value, behind) ==
  IF width < Len(value) /\ Len(path) + Len(value) + behind >= MaxPath THEN {}
  ELSE {path \o Sanitized(value)}

(* The paths, one or none, that the template makes behind base, and what it   *)
(* leaves of the endpoint for the templates after it.                         *)
expression_resolve(base, template, endpoint, request) ==
  LET made[k \in 0 .. Len(template)] ==
        IF k = 0 THEN [paths |-> {base \o <<Slash>>}, endpoint |-> endpoint]
        ELSE LET part == template[k]
                 before == made[k - 1]
                 values == Value(part, before.endpoint, request)
                 path == CHOOSE p \in before.paths : TRUE
             IN IF before.paths = {} THEN before
                ELSE IF part.kind = "char" THEN [before EXCEPT !.paths = {path \o part.text}]
                ELSE [paths |-> UNION {expression_replace(path, Width(part), v, WidthFrom(template, k + 1)) :
                                         v \in values},
                      endpoint |-> IF part.kind = "endpoint" THEN Trimmed(before.endpoint)
                                   ELSE before.endpoint]
  IN made[Len(template)]

(* A line is taken by its protocol; one without a protocol has none to be     *)
(* ended, and takes the program down if the client names none either.         *)
Taken(line, protocols) ==
  IF line.short THEN protocols = <<>>
  ELSE protocols = <<>> \/ line.proto = "*" \/ line.proto \in {protocols[i] : i \in DOMAIN protocols}
ProtocolOf(line, protocols) ==
  LET at == {i \in DOMAIN protocols : protocols[i] = line.proto}
  IN IF line.proto = "*" THEN 0 ELSE IF at = {} THEN Len(protocols) ELSE Min(at) - 1

(* query: the answers, at most one, of the first file that has one.  Tried is *)
(* what there is of them after the first k expressions.                       *)
Tried(path, expressions, request) ==
  LET tried[k \in 0 .. Len(expressions)] ==
        IF k = 0 THEN [lines |-> {}, endpoint |-> request.endpoint]
        ELSE LET before == tried[k - 1]
                 resolved == expression_resolve(path, expressions[k], before.endpoint, request)
                 open == resolved.paths \cap DOMAIN Files
                 lines == IF open = {} THEN <<>> ELSE Files[CHOOSE p \in open : TRUE]
                 taken == {j \in DOMAIN lines : Taken(lines[j], request.protocols)}
             IN IF before.lines # {} THEN before
                ELSE [lines |-> IF taken = {} THEN {} ELSE {lines[Min(taken)]},
                      endpoint |-> resolved.endpoint]
  IN tried

query(path, expressions, request) == Tried(path, expressions, request)[Len(expressions)].lines

-----------------------------------------------------------------------------
(* The same as the documentation has it (plugins/backend_file.md): all        *)
(* variables of a template are replaced at once, if they all have a value, by *)
(* that value with its slashes replaced; the answer is the first line, in all *)
(* files in the order of their expressions, that matches the client.          *)
Bare(endpoint) ==   \* "minus trailing and leading slashes"
  LET inner == {i \in DOMAIN endpoint : endpoint[i] # Slash}
  IN IF inner = {} THEN <<>> ELSE SubSeq(endpoint, Min(inner), Max(inner))
DocValues(part, request) ==
  CASE part.kind = "char" -> {part.text}
    [] part.kind = "endpoint" -> {Sanitized(Bare(request.endpoint))}
    [] part.kind = "cookie" ->
         {Sanitized(request.cookies[i].value) : i \in Named(request.cookies, part.text)}
    [] part.kind = "header" ->
         {Sanitized(request.headers[i].value) : i \in Named(request.headers, part.text)}
    [] part.kind = "open" -> {}
DocPath(path, template, request) ==
  path \o <<Slash>> \o FlattenSeq([k \in DOMAIN template |->
                                     CHOOSE v \in DocValues(template[k], request) : TRUE])
(* All of a template's variables have a value, and there is a file of its path. *)
DocComplete(path, template, request) ==
  /\ \A k \in DOMAIN template : DocValues(template[k], request) # {}
  /\ DocPath(path, template, request) \in DOMAIN Files
DocAnswer(path, expressions, request) ==
  LET complete == {e \in DOMAIN expressions : DocComplete(path, expressions[e], request)}
      lines(e) == Files[DocPath(path, expressions[e], request)]
      matching(e) == {j \in DOMAIN lines(e) : Taken(lines(e)[j], request.protocols)}
      first == {e \in complete : matching(e) # {} /\ \A d \in complete : d < e => matching(d) = {}}
  IN {lines(e)[Min(matching(e))] : e \in first}

(* What the documentation takes for granted: an endpoint has a slash before   *)
(* it, perhaps one behind it and none beside these; a cookie or a header is   *)
(* there once; and the last cookie has a value.                               *)
IsList(pairs) ==
  /\ IsSeq(pairs) /\ \A i \in DOMAIN pairs : IsSeq(pairs[i].value)
  /\ \A i, j \in DOMAIN pairs : pairs[i].name = pairs[j].name => i = j
IsEndpoint(s) ==
  /\ IsSeq(s) /\ s # <<>> /\ s[1] = Slash
  /\ Len(s) > 1 => s[2] # Slash /\ (s[Len(s)] = Slash => s[Len(s) - 1] # Slash)
PlainRequest(request) ==
  /\ IsEndpoint(request.endpoint) /\ IsList(request.cookies) /\ IsList(request.headers)
  /\ request.cookies # <<>> => Last(request.cookies).value # <<>>

(* If a file has the template's path, the buffer has room, where a value is   *)
(* longer than its variable, for the path so far and the variables behind it. *)
HasRoom(path, template, request) ==
  DocComplete(path, template, request) =>
    \A k \in DOMAIN template : \A value \in DocValues(template[k], request) :
      Width(template[k]) < Len(value) =>
        ~(Len(DocPath(path, SubSeq(template, 1, k), request)) + WidthFrom(template, k + 1) >= MaxPath)
PlainTemplate(template) ==
  /\ IsSeq(template)
  /\ \A k \in DOMAIN template : /\ template[k].kind \in {"char", "endpoint", "cookie", "header", "open"}
                               /\ IsSeq(template[k].text)
PlainQuery(path, expressions, request) ==
  /\ IsSeq(path) /\ PlainRequest(request)
  /\ \A e \in DOMAIN expressions : /\ PlainTemplate(expressions[e])
                                  /\ HasRoom(path, expressions[e], request)
=============================================================================
