------------------------------ MODULE CodecsMC ------------------------------
(***************************************************************************)
(* Instances of the codecs for TLC: what becomes of a text that is typed   *)
(* piece by piece, for one of the readers.                                 *)
(***************************************************************************)
EXTENDS ATerm

LOCAL INSTANCE SequencesExt
LOCAL INSTANCE TLC
LOCAL INSTANCE NarFormat
LOCAL INSTANCE NarInfo WITH
  AbsolutePaths <- {"/nix/store/p"}, BasePaths <- {"p"}
LOCAL INSTANCE NixHash
LOCAL INSTANCE Signature

Store == INSTANCE StorePath

CONSTANTS
  MaxPieces  \* MaxPieces[k]: how many pieces are typed for k

VARIABLES
  kind,  \* what the text is typed for
  text   \* the pieces typed so far

vars == <<kind, text>>

Typed == FlattenSeq(text)
-----------------------------------------------------------------------------
(* Derivations. *)

\* Punctuation and control characters, letters, and words that the code
\* compares with or that no order is asked of.
MCOrder ==
  <<"\n", "\"", "(", ")", ",", "P", "Q", "[", "\\", "]", "__json", "a", "n", "name", "out",
    "Derive">>

MCRank == [c \in ToSet(MCOrder) |-> CHOOSE i \in DOMAIN MCOrder : MCOrder[i] = c]

P == <<"P">>
Q == <<"Q">>

MCStorePaths == {P, Q}
MCJsonNames == (<<"a">> :> <<"n">>) @@ (<<"n">> :> <<>>)

NoMap == <<>>

Out(path, algo, hash) == [path |-> path, algo |-> algo, hash |-> hash]

Simple ==
  [outputs |-> <<"out">> :> Out(P, <<>>, <<>>), inputs |-> NoMap, sources |-> <<>>,
   platform |-> <<"a">>, builder |-> <<"a">>, args |-> <<>>, env |-> NameKey :> <<"a">>,
   name |-> <<>>]

\* A derivation with the string s in some place.
With(place, s) ==
  CASE place = "value" -> [Simple EXCEPT !.env = NameKey :> s]
    [] place = "key" -> [Simple EXCEPT !.env = (NameKey :> <<"a">>) @@ (s :> <<>>)]
    [] place = "argument" -> [Simple EXCEPT !.args = <<s, <<"a">>>>]
    [] place = "platform" -> [Simple EXCEPT !.platform = s]
    [] place = "builder" -> [Simple EXCEPT !.builder = s]
    [] place = "hash" -> [Simple EXCEPT !.outputs = <<"out">> :> Out(<<>>, <<"a">>, s)]
    [] place = "output" ->
         [Simple EXCEPT !.outputs = (<<"out">> :> Out(P, <<>>, <<>>)) @@ (s :> Out(Q, <<>>, <<>>))]
    [] place = "input" -> [Simple EXCEPT !.inputs = P :> <<s>>]

Places == {"value", "key", "argument", "platform", "builder", "hash", "output", "input"}

\* What a string may hold in each place: only the values of variables are
\* escaped and unescaped, platform and builder are escaped and not unescaped.
SpecialIn(place) ==
  CASE place = "value" -> {Backslash, Quote, "\n", ","}
    [] place \in {"platform", "builder"} -> {","}
    [] OTHER -> {"\n", ","}

\* The entry of a field for a key, and one that ends behind the key.
Fields == {"outputs", "inputs", "sources", "env"}

Entry(field, key) ==
  CASE field = "outputs" -> Parens(<<Quoted(key), Quoted(P), Quoted(<<>>), Quoted(<<>>)>>)
    [] field = "inputs" -> Parens(<<Quoted(key), QuotedElems(<<<<"out">>>>)>>)
    [] field = "env" -> Parens(<<Quoted(key), Quoted(<<"a">>)>>)
    [] field = "sources" -> Quoted(key)

ShortEntry(key) == Parens(<<Quoted(key)>>)

\* The text of a derivation with t within the brackets of one field.
Frame(field, t) ==
  LET fixed(f) == CASE f = "outputs" -> <<Entry(f, <<"out">>)>>
                    [] f = "env" -> <<Entry(f, NameKey)>>
                    [] OTHER -> <<>>
      list(f) == Brackets((IF f = field /\ t # <<>> THEN <<t>> ELSE <<>>) \o fixed(f))
  IN  <<Derive>> \o Parens(<<list("outputs"), list("inputs"), list("sources"), Quoted(<<"a">>),
                             Quoted(<<"a">>), Brackets(<<>>), list("env")>>)

\* Whether the elements of s are some of t, in their order.
IsSubsequence(s, t) ==
  FoldLeft(LAMBDA rest, c : IF rest # <<>> /\ Head(rest) = c THEN Tail(rest) ELSE rest,
           s, t) = <<>>

\* Whether a closing bracket has a backslash before it.
HidesBracket(t) ==
  \E i \in 1 .. Len(t) - 1 : t[i] = Backslash /\ t[i + 1] \in {"]", ")"}

\* The words of a text: its characters that are no punctuation.
Words(t) == SelectSeq(t, LAMBDA c : c \notin {",", "(", ")", "[", "]", Quote, Backslash})
-----------------------------------------------------------------------------
(* Store paths and base 32. *)

Hash == SubSeq(Store!Alphabet, 1, 32)
NoHash == [Hash EXCEPT ![7] = "e"]

Digits == {"0", "1", "g", "z", "e"}
-----------------------------------------------------------------------------
(* .narinfo files. *)

Key(data) == [name |-> "k", data |-> data]

Sha(id, size) == [algo |-> "sha256", digest |-> [size |-> size, id |-> id]]

Lines ==
  {Line("StorePath", "/nix/store/p"), Line("Compression", "none"),
   Line("FileHash", Format(Sha("h", 32), "base16", TRUE)),
   Line("FileHash", Format(Sha("h", 32), "base32", FALSE)),
   Line("NarHash", Format(Sha("h", 32), "base32", TRUE)),
   Line("NarHash", Format(Sha("h", 32), "sri", TRUE)),
   Line("NarHash", Format(Sha("i", 31), "base64", TRUE)),
   Line("FileSize", 1), Line("NarSize", 1), Line("NarSize", -1),
   Line("References", <<"p", "p">>), Line("References", <<"q">>),
   Line("Deriver", "unknown-deriver"), Line("Deriver", "p"),
   Line("Sig", SignatureText(Sign(Key("own"), <<"", {}, 0, <<>>>>))),
   Line("Sig", Encode("", <<>>, SignatureSize)), Line("unknown", "p")}

Verified(n) == VerifyFirst(Fingerprint(n), n.Signatures, <<Key("own")>>)
-----------------------------------------------------------------------------
(* Listings. *)

MCStrings == {"a", "ab", "a-"}
MCBytes == [s \in MCStrings |-> CASE s = "a" -> <<97>> [] s = "ab" -> <<97, 98>>
                                  [] s = "a-" -> <<97, 45>>]

Tools == INSTANCE NarTools WITH Strings <- MCStrings, Bytes <- MCBytes

\* The listings of every tree, without and with a name that goes on with a
\* byte smaller than the slash.
ListingsOf(nameLists) ==
  {Listing(t, <<>>) :
     t \in Nodes(2, nameLists, {Leaf("regular", 1, FALSE), Leaf("symlink", 0, FALSE)})}

Listings == ListingsOf({<<"a">>, <<"a", "ab">>}) \cup ListingsOf({<<"a">>, <<"a", "a-">>})

\* What stands below a directory comes before a sibling whose name goes on
\* with a byte smaller than the slash, and its path is the greater string.
Overtaken(listing, path) ==
  \E hdr \in ToSet(listing) :
    /\ Len(hdr.path) >= 2
    /\ LET above == Tools!PathString(Front(hdr.path))
       IN  /\ Len(above) < Len(path) /\ IsPrefix(above, path)
           /\ path[Len(above) + 1] < Tools!Slash
-----------------------------------------------------------------------------
Pieces(k) ==
  CASE k = "value" -> {<<c>> : c \in {"a", "n", Backslash, Quote, "\n", ","}}
    [] k \in Fields ->
         {<<c>> : c \in {",", "(", ")", "[", "]", Backslash}}
           \cup {<<"(", ")">>, Quoted(P), ShortEntry(P), Entry(k, P), Entry(k, Q)}
    [] k = "base32" -> {<<d>> : d \in Digits}
    [] k = "digest" -> {<<b>> : b \in {0, 1, 31, 128, 255}}
    [] k = "path" -> {Store!StoreDir, Hash, NoHash} \cup {<<c>> : c \in {"/", "-", "a", ".", "!"}}
    [] k = "narinfo" -> {<<l>> : l \in Lines}
    [] k = "listing" -> {<<b>> : b \in {45, 47, 97, 98}}

Init ==
  /\ kind \in DOMAIN MaxPieces
  /\ text = <<>>

Type(k) ==
  /\ kind = k
  /\ Len(text) < MaxPieces[k]
  /\ \E p \in Pieces(k) : text' = Append(text, p)
  /\ UNCHANGED kind

Next == \E k \in DOMAIN MaxPieces : Type(k)

Spec == Init /\ [][Next]_vars

MCMaxPieces ==
  [k \in {"value", "base32", "digest", "path", "narinfo", "listing"} \cup Fields |->
     CASE k \in {"value", "digest"} -> 3
       [] k \in {"base32", "path", "listing"} -> 5
       [] OTHER -> 4]
-----------------------------------------------------------------------------
(* What must hold of every text. *)

\* What WriteDerivation writes of a valid derivation ReadDerivation reads
\* back, with quotes, backslashes and newlines in the values of variables,
\* and in the other places with the characters they are written with; and of
\* a text that is cut short, as a download may be, it reads nothing.
WrittenIsRead ==
  kind = "value" =>
    \A place \in Places :
      LET d == With(place, Typed)
          t == WriteDerivation(d)
      IN  MayValidate(d) /\ ToSet(Typed) \subseteq {"a", "n"} \cup SpecialIn(place) =>
            /\ ReadDerivation(t) = {d}
            /\ \A k \in 0 .. Len(t) - 1 : ReadDerivation(SubSeq(t, 1, k)) = {}

\* ReadDerivation invents and moves nothing: the words of the text that is
\* written of a derivation are words of the text it was read from, in their
\* order, and that text reads the same.  It loses nothing either, but where a
\* backslash stands outside of strings before a closing bracket: it hides the
\* bracket that ends the list, and []"P"\] is read as an empty one.
ReadKeepsAll ==
  kind \in Fields =>
    LET t == Frame(kind, Typed)
    IN  \A d \in ReadDerivation(t) :
          /\ IsSubsequence(Words(WriteDerivation(d)), Words(t))
          /\ ReadDerivation(WriteDerivation(d)) = {d}
          /\ Words(WriteDerivation(d)) = Words(t) \/ HidesBracket(t)

\* Base 32 is one to one between digests and the texts that DecodeString
\* accepts; ValidateString tells these among the texts of a length that some
\* digest has, and Is tells the characters that they consist of.
Base32Exact ==
  /\ kind = "base32" =>
       /\ \A d \in Store!DecodeString(Typed) : Store!EncodeToString(d) = Typed
       /\ Len(Typed) = Store!EncodedLen(Store!DecodedLen(Len(Typed))) =>
            (Store!ValidateString(Typed) <=> Store!DecodeString(Typed) # {})
       /\ \A i \in DOMAIN Typed : Store!Is(Typed[i]) <=> Store!ValidateString(<<Typed[i]>>)
  /\ kind = "digest" => Store!DecodeString(Store!EncodeToString(Typed)) = {Typed}

\* A store path that PathRe describes is read and is the text of what was
\* read; what FromString reads of any other text without a slash in it is
\* read again from its own texts, but from the absolute one only if its name
\* is not empty, which FromAbsolutePath refuses and FromString does not.
StorePathsReadBack ==
  kind = "path" =>
    /\ Store!PathRe(Typed) =>
         /\ Store!Validate(Typed)
         /\ \E p \in Store!FromAbsolutePath(Typed) : Store!Absolute(p) = Typed
    /\ \A p \in Store!FromString(Typed) : "/" \notin ToSet(p.name) =>
         /\ Store!FromString(Store!PathText(p)) = {p}
         /\ p.name # <<>> => Store!FromAbsolutePath(Store!Absolute(p)) = {p}

\* A .narinfo that String writes says what the one that was read says, but
\* for a file hash without a file size or a file size without a file hash,
\* which are left out.  Check takes whatever is written of what it takes; what
\* it does not take it takes once written only if the one thing wrong, in a
\* .narinfo that is not compressed, was left out so.  A signature over the
\* fingerprint verifies behind it unless another of the same key stands
\* before.
NarInfoReadBack ==
  kind = "narinfo" =>
    \A n \in {n \in Parse(Typed) : n.NarHash # {}} :
      /\ Parse(Text(n)) =
           {IF n.FileHash # {} /\ n.FileSize # 0 THEN n
                                                 ELSE [n EXCEPT !.FileHash = {}, !.FileSize = 0]}
      /\ \A m \in Parse(Text(n)) :
           /\ Check(n) => Check(m)
           /\ Check(m) /\ ~ Check(n) =>
                n.Compression = "none" /\ (n.FileHash # {} <=> n.FileSize = 0)
      /\ LET sig == Sign(Key("own"), Fingerprint(n))
         IN  \A m \in Parse(Text([n EXCEPT !.Signatures = Append(@, sig)])) :
               Verified(m) <=> n.Signatures = <<>>

\* "We can exit early as soon as we receive a header whose path doesn't have
\* the prefix we're searching for, and the path is lexicographically bigger":
\* ls prints every header below the path asked for, in order and no other,
\* exactly when the path does not part from that of a directory with entries
\* at a byte before the slash.  When it does, it prints nothing at all, so
\* that the claim is wrong there.  cat finds exactly the regular files.
LsAndCatFind ==
  kind = "listing" =>
    \A l \in Listings :
      /\ \A r \in BOOLEAN :
           Tools!Ls(l, Typed, r) =
             IF Overtaken(l, Typed) THEN <<>>
             ELSE SelectSeq(l, LAMBDA hdr : Tools!Shown(hdr, Typed, r))
      /\ Tools!Cat(l, Typed) =
           {hdr \in ToSet(l) : Tools!PathOf(hdr) = Typed /\ hdr.type = "regular"}
=============================================================================
