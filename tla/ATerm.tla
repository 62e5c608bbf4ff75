------------------------------- MODULE ATerm -------------------------------
(***************************************************************************)
(* The text of a .drv file: WriteDerivation (pkg/derivation/encode.go) and *)
(* ReadDerivation (parser.go, derivation.go).                              *)
(*                                                                         *)
(* A text is a sequence of characters.  A word without special characters, *)
(* such as a store path or the name of a variable, may be one character.   *)
(* What may fail is the set of its results, empty for an error: no caller  *)
(* tells errors apart.  A derivation is a record of the fields of the Go   *)
(* struct, its maps functions from texts, and name its private field.      *)
(***************************************************************************)
EXTENDS Integers, Sequences, FiniteSets

LOCAL INSTANCE SequencesExt

CONSTANTS
  Rank,        \* Rank[c]: where character c stands in the order of bytes
  StorePaths,  \* the texts that storepath.Validate accepts
  JsonNames    \* the names of the texts that are JSON objects, by text

ASSUME ATermAssumption ==
  /\ \A c \in DOMAIN Rank : Rank[c] \in Nat
  /\ \A c, e \in DOMAIN Rank : Rank[c] = Rank[e] => c = e

Quote == "\""
Backslash == "\\"
Derive == "Derive"
NameKey == <<"name">>
JsonKey == <<"__json">>

\* Go's  s < t  on strings.
Less(s, t) ==
  \E i \in 1 .. Len(t) :
    /\ i <= Len(s) + 1 /\ \A j \in 1 .. i - 1 : s[j] = t[j]
    /\ i <= Len(s) => Rank[s[i]] < Rank[t[i]]
-----------------------------------------------------------------------------
(* WriteDerivation. *)

\* stringEscaper, and its inverse table.
Escapes ==
  [c \in {Backslash, "\n", "\r", "\t", Quote} |->
     CASE c = "\n" -> "n" [] c = "\r" -> "r" [] c = "\t" -> "t" [] OTHER -> c]

Escape(s) ==
  FlattenSeq([i \in DOMAIN s |->
                IF s[i] \in DOMAIN Escapes THEN <<Backslash, Escapes[s[i]]>> ELSE <<s[i]>>])

Quoted(s) == <<Quote>> \o s \o <<Quote>>

EscapeString(s) == Quoted(Escape(s))

\* writeArrayElems: the elements, between commas, as they are.
Elems(open, elems, closing) ==
  <<open>> \o FlattenSeq([i \in DOMAIN elems |->
                            IF i > 1 THEN <<",">> \o elems[i] ELSE elems[i]]) \o <<closing>>

Parens(elems) == Elems("(", elems, ")")
Brackets(elems) == Elems("[", elems, "]")
QuotedElems(ss) == Brackets([i \in DOMAIN ss |-> Quoted(ss[i])])

\* The keys of a map, sorted, each written by Op.
SortedElems(f, Op(_)) ==
  LET keys == SetToSortSeq(DOMAIN f, Less)
  IN  Brackets([i \in DOMAIN keys |-> Op(keys[i])])

WriteDerivation(d) ==
  LET output(n) == LET o == d.outputs[n]
                   IN  Parens(<<Quoted(n), Quoted(o.path), Quoted(o.algo), Quoted(o.hash)>>)
      input(p) == Parens(<<Quoted(p), QuotedElems(d.inputs[p])>>)
      variable(k) == Parens(<<Quoted(k), EscapeString(d.env[k])>>)
  IN  <<Derive>> \o Parens(<<SortedElems(d.outputs, output), SortedElems(d.inputs, input),
                             QuotedElems(d.sources), EscapeString(d.platform),
                             EscapeString(d.builder), QuotedElems(d.args),
                             SortedElems(d.env, variable)>>)
-----------------------------------------------------------------------------
(* arrayEach and the two ways to take off quotes. *)

Depth(c) == IF c \in {"(", "["} THEN 1 ELSE IF c \in {")", "]"} THEN -1 ELSE 0

\* Variant: a backslash does not protect the quote behind it.
ScanUnescaped(st, c, i, n) ==
  CASE c = Quote -> [st EXCEPT !.inString = ~ @]
    [] c # Quote /\ st.inString -> st
    [] OTHER ->
         LET cut == (st.count = 1 /\ c = ",") \/ i = n
         IN  [st EXCEPT !.count = @ + Depth(c),
                        !.ends = IF cut THEN Append(@, i) ELSE @]

\* One round of its loop, with the character c at i of n.
Scan(st, c, i, n) ==
  CASE st.escaped -> [st EXCEPT !.escaped = FALSE]
    [] ~ st.escaped /\ c = Backslash -> [st EXCEPT !.escaped = TRUE]
    [] ~ st.escaped /\ c = Quote -> [st EXCEPT !.inString = ~ @]
    [] ~ st.escaped /\ c \notin {Backslash, Quote} /\ st.inString -> st
    [] OTHER ->
         LET cut == (st.count = 1 /\ c = ",") \/ i = n
         IN  [st EXCEPT !.count = @ + Depth(c),
                        !.ends = IF cut THEN Append(@, i) ELSE @]

\* The items it calls back with.  Two characters are an empty array whatever
\* they are; of longer ones only the first and the last are looked at.
Items(t) ==
  LET n == Len(t)
      start == [escaped |-> FALSE, inString |-> FALSE, count |-> 0, ends |-> <<1>>]
      scan[i \in 0 .. n] == IF i = 0 THEN start ELSE Scan(scan[i - 1], t[i], i, n)
      ends == scan[n].ends
  IN  CASE n = 2 -> {<<>>}
        [] n > 2 /\ <<t[1], t[n]>> \in {<<"(", ")">>, <<"[", "]">>} ->
             {[k \in 1 .. Len(ends) - 1 |-> SubSeq(t, ends[k] + 1, ends[k + 1] - 1)]}
        [] OTHER -> {}

\* arrayEach with a callback that yields a value of the k-th item v.
ArrayEach(t, Callback(_, _)) ==
  UNION {IF \E k \in DOMAIN vs : Callback(k, vs[k]) = {} THEN {}
         ELSE {[k \in DOMAIN vs |-> CHOOSE v \in Callback(k, vs[k]) : TRUE]} : vs \in Items(t)}

UnquoteSlice(t) ==
  IF Len(t) >= 2 /\ t[1] = Quote /\ t[Len(t)] = Quote THEN {SubSeq(t, 2, Len(t) - 1)} ELSE {}

\* stringUnescaper: from the left, what is no escape stays.
Unescape(s) ==
  LET n == Len(s)
      plain(c) == CHOOSE e \in DOMAIN Escapes : Escapes[e] = c
      rest[i \in 1 .. n + 1] ==
        IF i > n THEN <<>>
        ELSE IF s[i] = Backslash /\ i < n /\ \E e \in DOMAIN Escapes : Escapes[e] = s[i + 1]
             THEN <<plain(s[i + 1])>> \o rest[i + 2]
             ELSE <<s[i]>> \o rest[i + 1]
  IN  rest[1]

Unquote(t) == {Unescape(s) : s \in UnquoteSlice(t)}
-----------------------------------------------------------------------------
(* parseDerivation. *)

\* The i-th of the values that were there, nothing if there are fewer.
Field(vs, i) == IF i <= Len(vs) THEN vs[i] ELSE <<>>

\* Variant: a key may be the one before it.
InOrderOrEqual(entries) ==
  \A i \in DOMAIN entries :
    entries[i] # <<>> =>
      LET prev == IF i = 1 THEN <<>> ELSE Field(entries[i - 1], 1) IN ~ Less(entries[i][1], prev)

\* The key of every entry is above that of the entry before it; an entry
\* without fields has no key to compare and leaves "" behind.
InOrder(entries) ==
  \A i \in DOMAIN entries :
    entries[i] # <<>> => Less(IF i = 1 THEN <<>> ELSE Field(entries[i - 1], 1), entries[i][1])

\* The map of the entries, the last one of a key staying.
MapOf(entries, Value(_)) ==
  [k \in {Field(e, 1) : e \in ToSet(entries)} |->
     LET i == CHOOSE i \in DOMAIN entries :
                /\ Field(entries[i], 1) = k
                /\ \A j \in i + 1 .. Len(entries) : Field(entries[j], 1) # k
     IN  Value(entries[i])]

StringList(t) == ArrayEach(t, LAMBDA k, v : UnquoteSlice(v))

Outputs(t) ==
  {MapOf(es, LAMBDA e : [path |-> Field(e, 2), algo |-> Field(e, 3), hash |-> Field(e, 4)]) :
     es \in {es \in ArrayEach(t, LAMBDA k, v :
                                   {e \in StringList(v) : Len(e) <= 4 /\ Field(e, 1) # <<>>}) :
               InOrder(es)}}

Inputs(t) ==
  {MapOf(es, LAMBDA e : Field(e, 2)) :
     es \in {es \in ArrayEach(t, LAMBDA k, v :
                 ArrayEach(v, LAMBDA j, w : CASE j = 1 -> UnquoteSlice(w)
                                              [] j = 2 -> StringList(w)
                                              [] OTHER -> {})) :
               InOrder(es)}}

Env(t) ==
  {MapOf(es, LAMBDA e : Field(e, 2)) :
     es \in {es \in ArrayEach(t, LAMBDA k, v :
                 ArrayEach(v, LAMBDA j, w : CASE j = 1 -> UnquoteSlice(w)
                                              [] j = 2 -> Unquote(w)
                                              [] OTHER -> {})) :
               InOrder(es)}}

\* The name within structured attributes.  JSON that is no object with a
\* name is an error; "null", on which the code panics, counts as one.
PrivateName(env) ==
  IF JsonKey \notin DOMAIN env THEN {<<>>}
  ELSE IF env[JsonKey] \in DOMAIN JsonNames THEN {JsonNames[env[JsonKey]]} ELSE {}

ParseDerivation(t) ==
  LET part(k, v) ==
        CASE k = 1 -> Outputs(v) [] k = 2 -> Inputs(v) [] k = 3 -> StringList(v)
          [] k \in {4, 5} -> UnquoteSlice(v) [] k = 6 -> StringList(v) [] k = 7 -> Env(v)
          [] OTHER -> {}
  IN  IF t = <<>> \/ Head(t) # Derive THEN {}
      ELSE UNION {{[outputs |-> Field(f, 1), inputs |-> Field(f, 2), sources |-> Field(f, 3),
                    platform |-> Field(f, 4), builder |-> Field(f, 5), args |-> Field(f, 6),
                    env |-> Field(f, 7), name |-> n] : n \in PrivateName(Field(f, 7))} :
                  f \in ArrayEach(Tail(t), part)}
-----------------------------------------------------------------------------
(* Derivation.Validate. *)

Ascending(ss) == \A i \in 2 .. Len(ss) : ~ Less(ss[i], ss[i - 1])

\* The variables are visited in any order: of a name and of structured
\* attributes the one that comes last decides.
MayHaveName(d) ==
  \/ NameKey \in DOMAIN d.env
  \/ JsonKey \in DOMAIN d.env /\ d.name # <<>>

MayValidate(d) ==
  /\ DOMAIN d.outputs # {} /\ <<>> \notin DOMAIN d.outputs
  /\ \A n \in DOMAIN d.outputs :
       IF d.outputs[n].algo # <<>> THEN DOMAIN d.outputs = {<<"out">>}
                                   ELSE d.outputs[n].path \in StorePaths
  /\ \A p \in DOMAIN d.inputs :
       /\ p \in StorePaths
       /\ d.inputs[p] # <<>> /\ <<>> \notin ToSet(d.inputs[p]) /\ Ascending(d.inputs[p])
  /\ ToSet(d.sources) \subseteq StorePaths /\ Ascending(d.sources)
  /\ d.platform # <<>> /\ d.builder # <<>>
  /\ <<>> \notin DOMAIN d.env /\ MayHaveName(d)

\* The derivations that ReadDerivation may return without an error.
ReadDerivation(t) == {d \in ParseDerivation(t) : MayValidate(d)}
=============================================================================
