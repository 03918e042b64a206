----------------------------- MODULE FramingJson -----------------------------
(* The scanner of the framing plugin json: where the JSON entity at the       *)
(* beginning of a buffer ends.  The functions of the source take a pointer    *)
(* and the bytes left; here they take the place the pointer points at.  They  *)
(* look behind the data, where earlier reads may have left something.         *)
EXTENDS Integers, Sequences, FiniteSetsExt

Digit == 48 .. 57
IsSpace == {9, 10, 11, 12, 13, 32}
Printable == 32 .. 126
Quote == 34
Backslash == 92
Comma == 44
Colon == 58
Opening == [array |-> 91, object |-> 123]
Closing == [array |-> 93, object |-> 125]
Literals == {<<110, 117, 108, 108>>, <<116, 114, 117, 101>>, <<102, 97, 108, 115, 101>>}
NumberBytes == Digit \cup {43, 45, 46, 69, 101}   \* + - . E e
Unfinished == {43, 45, 46, 69, 101}               \* ends no number
AfterNumber == {Comma, 32, Closing.array, Closing.object}

(* A step of the scanner returns the place behind what it found, 0 if data is *)
(* missing, -1 if this is no JSON.  The data in m ends before end.            *)
Byte_at(m, i) == IF i <= Len(m) THEN m[i] ELSE 0
Until(p, end, Stops(_)) == Min({i \in p .. end : i = end \/ Stops(i)})

json_length_string(m, p, end) ==
  LET closes(i) == m[i] = Quote /\ m[i - 1] # Backslash
      stop == Until(p + 1, end, LAMBDA i : m[i] \notin Printable \/ closes(i))
  IN IF p = end THEN 0
     ELSE IF m[p] # Quote THEN -1
     ELSE IF closes(stop) THEN stop + 1
     ELSE IF stop = end THEN 0 ELSE -1

json_length_value(m, p, end) ==
  LET stop == Until(p + 1, end, LAMBDA i : m[i] \notin NumberBytes)
      is(w, k) == k <= Len(w) /\ SubSeq(m, p, p + k - 1) = SubSeq(w, 1, k)
      whole == {w \in Literals : end - p >= Len(w) /\ is(w, Len(w))}
      number == m[p] \in Digit \cup {45}
  IN IF p = end THEN 0
     ELSE IF number /\ m[stop] \in AfterNumber THEN stop
     ELSE IF number /\ stop = end THEN IF m[stop - 1] \in Unfinished THEN 0 ELSE stop
     ELSE IF whole # {} THEN p + Len(CHOOSE w \in whole : TRUE)
     ELSE IF \E w \in Literals : is(w, end - p) THEN 0 ELSE -1

(* json_length, and the loops of json_length_array and json_length_object     *)
(* from their first element or from a later one.                              *)
json_length(m, length) ==
  LET end == length + 1
      skip(p) == IF p >= end THEN p ELSE Until(p, end, LAMBDA i : m[i] \notin IsSpace)
      scan[what \in {"any", "array", "object"}, first \in BOOLEAN, p \in 1 .. end] ==
        LET at == skip(p)
            entity(q) == scan["any", TRUE, q]
            key == json_length_string(m, at, end)
            colon == skip(key)
            value == IF what = "array" THEN entity(at)
                     ELSE IF key <= 0 THEN key
                     ELSE IF colon >= end - 1 THEN 0
                     ELSE IF m[colon] # Colon THEN -1
                     ELSE entity(colon + 1)
            behind == skip(value)
        IN IF what = "any"
           THEN IF at = end THEN 0
                ELSE IF m[at] = Opening.array THEN scan["array", TRUE, at + 1]
                ELSE IF m[at] = Opening.object THEN scan["object", TRUE, at + 1]
                ELSE IF m[at] = Quote THEN json_length_string(m, at, end)
                ELSE json_length_value(m, at, end)
           ELSE IF first /\ m[at] = Closing[what] THEN at + 1
           ELSE IF value <= 0 THEN value
           ELSE IF Byte_at(m, behind) = Closing[what] THEN behind + 1
           ELSE IF behind >= end THEN 0
           ELSE IF m[behind] # Comma THEN -1
           ELSE IF behind + 1 < end THEN scan[what, FALSE, behind + 1]
           ELSE IF m[end] = Closing[what] THEN end + 1 ELSE -1
      found == scan["any", TRUE, 1]
  IN IF found > 0 THEN found - 1 ELSE found

-----------------------------------------------------------------------------
(* What JSON says, without a scanner: an object, array or string at the       *)
(* beginning of s ends where no bracket and no string is open any more; a     *)
(* literal where its letters end.  A quote behind an odd number of            *)
(* backslashes does not end a string.                                         *)
Blanks(s) == Min({k \in 0 .. Len(s) : k = Len(s) \/ s[k + 1] \notin IsSpace})
BeginsJson(s) ==
  LET blanks == Blanks(s)
  IN \/ blanks = Len(s) \/ s[blanks + 1] \in {Quote, Opening.array, Opening.object}
     \/ \E w \in Literals : s[blanks + 1] = w[1]
Entities(s) ==
  LET inside[k \in 0 .. Len(s)] ==   \* of a string, "escaped" behind a backslash in one
        IF k = 0 THEN "no"
        ELSE LET before == inside[k - 1]
             IN CASE before = "escaped" -> "yes"
                  [] before = "no" -> IF s[k] = Quote THEN "yes" ELSE "no"
                  [] before = "yes" /\ s[k] = Quote -> "no"
                  [] OTHER -> IF s[k] = Backslash THEN "escaped" ELSE "yes"
      depth[k \in 0 .. Len(s)] ==
        IF k = 0 THEN 0
        ELSE depth[k - 1] + (IF inside[k - 1] # "no" THEN 0
                             ELSE IF s[k] \in {Opening.array, Opening.object} THEN 1
                             ELSE IF s[k] \in {Closing.array, Closing.object} THEN -1 ELSE 0)
      blanks == Blanks(s)
      starts == IF blanks < Len(s) THEN s[blanks + 1] ELSE 0
  IN IF starts \in {Quote, Opening.array, Opening.object}
     THEN LET ends == {k \in blanks + 2 .. Len(s) : depth[k] = 0 /\ inside[k] = "no"}
          IN IF ends = {} THEN {} ELSE {Min(ends)}
     ELSE {blanks + Len(w) : w \in {l \in Literals : /\ blanks + Len(l) <= Len(s)
                                                     /\ SubSeq(s, blanks + 1, blanks + Len(l)) = l}}
=============================================================================
