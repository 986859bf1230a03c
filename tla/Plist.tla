-------------------------------- MODULE Plist --------------------------------
(***************************************************************************)
(* Property lists as files: how objects are written as XML and read back   *)
(* (externalize and internalize), and how a file is replaced.  Everything  *)
(* flappy keeps between runs goes through here.                            *)
(*                                                                         *)
(* A document is a sequence of tags and texts; white space is left out.  A *)
(* character is its code, an entity such as &amp; the negative code of     *)
(* what it stands for, a digit of base64 its value and a written number    *)
(* the number.                                                             *)
(***************************************************************************)
EXTENDS Proplib, TLC

LOCAL S == INSTANCE SequencesExt

CONSTANTS Width,        \* bits of a number, 64 in the code
          Spell(_)      \* Spell(k): the characters of key k

ASSUME PlistAssumption == Width \in Nat \ {0}

VARIABLES file,      \* the file: its contents, and whether they are on the disk
          save       \* a thread's replacement of the file, under way

pvars == <<heap, symtree, numtree, hand, iter, call, work, dying, ops, file, save>>

NoSave == [stage |-> "none", xml |-> <<>>, tmp |-> [doc |-> <<>>, synced |-> FALSE]]

----------------------------------------------------------------------------
(* Writing.                                                                 *)

Token(kind, tag, text) == [kind |-> kind, tag |-> tag, text |-> text]
Element(tag, s) == <<Token("open", tag, <<>>), Token("text", "", s), Token("close", tag, <<>>)>>
EmptyTag(tag)   == <<Token("empty", tag, <<>>)>>

_prop_object_externalize_header ==
  <<Token("preamble", "?xml", <<>>), Token("preamble", "!DOCTYPE plist", <<>>),
    Token("open", "plist", <<>>)>>
_prop_object_externalize_footer == <<Token("close", "plist", <<>>)>>

Special == {38, 60, 62}                                      \* & < >
Encoded(s) == [i \in DOMAIN s |-> IF s[i] \in Special THEN -s[i] ELSE s[i]]

(* Three bytes make four digits; a rest of one or two is padded. *)
Pad == 64
Base64(s) ==
  [j \in 1..(4 * ((Len(s) + 2) \div 3)) |->
     LET g == (j - 1) \div 4
         k == (j - 1) % 4
         byte(i) == IF 3 * g + i <= Len(s) THEN s[3 * g + i] ELSE 0
     IN CASE 3 * g + k > Len(s) -> Pad
          [] k = 0 -> byte(1) \div 4
          [] k = 1 -> (byte(1) % 4) * 16 + byte(2) \div 16
          [] k = 2 -> (byte(2) % 16) * 4 + byte(3) \div 64
          [] k = 3 -> byte(3) % 64]

RECURSIVE Externalize(_)

Wrapped(tag, parts) ==
  IF parts = <<>> THEN EmptyTag(tag)
  ELSE <<Token("open", tag, <<>>)>> \o S!FlattenSeq(parts) \o <<Token("close", tag, <<>>)>>

_prop_dictionary_externalize(d) ==
  Wrapped("dict", [i \in DOMAIN heap[d].ents |->
                     Element("key", Encoded(Spell(Name(heap, heap[d].ents[i]))))
                       \o Externalize(heap[d].ents[i].obj)])

_prop_array_externalize(a) ==
  Wrapped("array", [i \in DOMAIN heap[a].ents |-> Externalize(heap[a].ents[i].obj)])

(* A key symbol is written as a string. *)
_prop_string_externalize(s) ==
  IF s = <<>> THEN EmptyTag("string") ELSE Element("string", Encoded(s))

Externalize(a) ==
  LET o == heap[a] IN
  CASE o.type = "dict"  -> _prop_dictionary_externalize(a)
    [] o.type = "array" -> _prop_array_externalize(a)
    [] o.type = "num"   -> Element("integer", <<o.name>>)
    [] o.type = "str"   -> _prop_string_externalize(o.name)
    [] o.type = "sym"   -> _prop_string_externalize(Spell(o.name))
    [] o.type = "data"  -> Element("data", Base64(o.name))

----------------------------------------------------------------------------
(* Reading.  What is read is a value, or Failed; next is where it ends.     *)

Failed == [ok |-> FALSE, val |-> <<>>, next |-> 0]
Read(v, n) == [ok |-> TRUE, val |-> v, next |-> n]

_prop_object_internalize_find_tag(doc, i, tags, kinds) ==
  i <= Len(doc) /\ doc[i].kind \in kinds /\ (tags # {} => doc[i].tag \in tags)

Start  == {"open", "empty"}
End    == {"close"}
Either == Start \cup End

(* The text at i, up to the next tag; there must be one. *)
HasText(doc, i) == i <= Len(doc) /\ doc[i].kind = "text"
TextAt(doc, i)  == IF HasText(doc, i) THEN doc[i].text ELSE <<>>
AfterText(doc, i) == IF HasText(doc, i) THEN i + 1 ELSE i

Entities == Special \cup {39, 34}                            \* and ' "
Decodable(s) == \A i \in DOMAIN s : s[i] # 38 /\ (s[i] < 0 => -s[i] \in Entities)
Decoded(s)   == [i \in DOMAIN s |-> IF s[i] < 0 THEN -s[i] ELSE s[i]]

(* What is in an element without children: text at i + 1, then its end tag. *)
Leafy(doc, i, tag, ok(_), val(_)) ==
  LET s == TextAt(doc, i + 1)
      n == AfterText(doc, i + 1)
  IN IF ok(s) /\ _prop_object_internalize_find_tag(doc, n, {tag}, End)
     THEN Read(val(s), n + 1) ELSE Failed

_prop_string_internalize(doc, i) ==
  IF doc[i].kind = "empty" THEN Read(<<"str", <<>>>>, i + 1)
  ELSE Leafy(doc, i, "string", Decodable, LAMBDA s : <<"str", Decoded(s)>>)

(* Bug: there is no second attempt for numbers only an unsigned one holds. *)
InternalizeSigned(doc, i) ==
  LET inrange(s) == Len(s) = 1 /\ -(2^(Width - 1)) <= s[1] /\ s[1] < 2^(Width - 1)
  IN IF doc[i].kind = "empty" THEN Failed
     ELSE Leafy(doc, i, "integer", inrange, LAMBDA s : <<"num", s[1]>>)

(* A signed number or, if that is out of range, an unsigned one. *)
_prop_number_internalize(doc, i) ==
  LET inrange(s) == /\ Len(s) = 1
                    /\ \/ -(2^(Width - 1)) <= s[1] /\ s[1] < 2^(Width - 1)
                       \/ 0 <= s[1] /\ s[1] < 2^Width
  IN IF doc[i].kind = "empty" THEN Failed
     ELSE Leafy(doc, i, "integer", inrange, LAMBDA s : <<"num", s[1]>>)

(* The digits before the padding, how much of it there must be, the bytes. *)
Digits(s)   == SelectSeq(s, LAMBDA x : x # Pad)
WellPadded(s) ==
  LET n == Len(Digits(s))
      pads == CASE n % 4 = 0 -> 0 [] n % 4 = 1 -> -1 [] n % 4 = 2 -> 2 [] n % 4 = 3 -> 1
  IN Len(s) = n + pads /\ \A i \in 1..n : s[i] # Pad
Bytes(s) ==
  LET d == Digits(s)
  IN [i \in 1..((3 * Len(d)) \div 4) |->
        LET g == (i - 1) \div 3
            k == (i - 1) % 3
            digit(j) == d[4 * g + j]
        IN CASE k = 0 -> digit(1) * 4 + digit(2) \div 16
             [] k = 1 -> (digit(2) % 16) * 16 + digit(3) \div 4
             [] k = 2 -> (digit(3) % 4) * 64 + digit(4)]

_prop_data_internalize(doc, i) ==
  IF doc[i].kind = "empty" THEN Failed
  ELSE Leafy(doc, i, "data", WellPadded, LAMBDA s : <<"data", Bytes(s)>>)

RECURSIVE ArrayBody(_, _, _), DictBody(_, _, _)

(* The object whose tag is at i; the kind of that tag is not looked at. *)
_prop_object_internalize_by_tag(doc, i) ==
  LET tag == doc[i].tag IN
  CASE tag = "string"  -> _prop_string_internalize(doc, i)
    [] tag = "integer" -> _prop_number_internalize(doc, i)
    [] tag = "data"    -> _prop_data_internalize(doc, i)
    [] tag = "array"   -> IF doc[i].kind = "empty" THEN Read(<<"array", <<>>>>, i + 1)
                          ELSE ArrayBody(doc, i + 1, <<>>)
    [] tag = "dict"    -> IF doc[i].kind = "empty" THEN Read(<<"dict", <<>>>>, i + 1)
                          ELSE DictBody(doc, i + 1, <<>>)
    [] OTHER -> Failed

ArrayBody(doc, i, items) ==
  IF ~_prop_object_internalize_find_tag(doc, i, {}, Either) THEN Failed
  ELSE IF _prop_object_internalize_find_tag(doc, i, {"array"}, End)
  THEN Read(<<"array", items>>, i + 1)
  ELSE LET child == _prop_object_internalize_by_tag(doc, i)
       IN IF child.ok THEN ArrayBody(doc, child.next, Append(items, child.val)) ELSE Failed

(* A key that was there gets the new value. *)
DictBody(doc, i, fields) ==
  IF _prop_object_internalize_find_tag(doc, i, {"dict"}, End) THEN Read(<<"dict", fields>>, i + 1)
  ELSE LET s == TextAt(doc, i + 1)
           n == AfterText(doc, i + 1)
           wellformed == /\ _prop_object_internalize_find_tag(doc, i, {"key"}, {"open"})
                         /\ Decodable(s)
                         /\ _prop_object_internalize_find_tag(doc, n, {"key"}, End)
                         /\ _prop_object_internalize_find_tag(doc, n + 1, {}, Start)
           child == _prop_object_internalize_by_tag(doc, n + 1)
       IN IF wellformed /\ child.ok
          THEN DictBody(doc, child.next, (Decoded(s) :> child.val) @@ fields)
          ELSE Failed

(* The number of tokens before the first one that is no preamble. *)
Preamble(doc) ==
  LET ends == {i \in 1..Len(doc) : doc[i].kind # "preamble"}
  IN IF ends = {} THEN Len(doc) ELSE (CHOOSE i \in ends : \A j \in ends : i <= j) - 1

_prop_generic_internalize(doc, master) ==
  LET i   == Preamble(doc) + 1
      obj == _prop_object_internalize_by_tag(doc, i + 1)
  IN IF /\ _prop_object_internalize_find_tag(doc, i, {"plist"}, {"open"})
        /\ _prop_object_internalize_find_tag(doc, i + 1, {master}, Start)
        /\ obj.ok
        /\ _prop_object_internalize_find_tag(doc, obj.next, {"plist"}, End)
     THEN obj ELSE Failed

----------------------------------------------------------------------------
(* Replacing the file: a temporary file is written, synced and renamed.     *)

Document(c) ==
  _prop_object_externalize_header \o Externalize(c) \o _prop_object_externalize_footer

Saving(t, stage) == call[t].what = "save" /\ save[t].stage = stage
Unsaved == UNCHANGED <<heap, symtree, numtree, hand, iter, work, dying>>
Done(t) == /\ save' = [save EXCEPT ![t] = NoSave]
           /\ call' = [call EXCEPT ![t] = NoCall]

(* Callers save one at a time: they hold the lock of the database. *)
ExternalizeToFile(t, c) ==
  /\ Ready(t) /\ \A u \in Thread : save[u] = NoSave
  /\ c \in Held(t) /\ Is(c, Containers)
  /\ call' = [call EXCEPT ![t] = [NoCall EXCEPT !.what = "save", !.at = c]]
  /\ save' = [save EXCEPT ![t] = [NoSave EXCEPT !.stage = "write", !.xml = Document(c)]]
  /\ Counted /\ Unsaved /\ UNCHANGED file

(* Bug: the temporary file is not synced. *)
WriteUnsynced(t) ==
  /\ Saving(t, "write")
  /\ save' = [save EXCEPT ![t].tmp = [doc |-> save[t].xml, synced |-> FALSE], ![t].stage = "rename"]
  /\ Unsaved /\ UNCHANGED <<call, file, ops>>

(* All of it is written and synced; if any step fails, the temporary file   *)
(* is given up.                                                             *)
WriteTmp(t) ==
  /\ Saving(t, "write")
  /\ save' = [save EXCEPT ![t].tmp = [doc |-> save[t].xml, synced |-> TRUE], ![t].stage = "rename"]
  /\ Unsaved /\ UNCHANGED <<call, file, ops>>

RenameTmp(t) ==
  /\ Saving(t, "rename")
  /\ file' = save[t].tmp
  /\ Done(t)
  /\ Unsaved /\ UNCHANGED ops

GiveUp(t) ==
  /\ call[t].what = "save"
  /\ Done(t)
  /\ Unsaved /\ UNCHANGED <<file, ops>>

PlistInit ==
  /\ Init
  /\ file = [doc |-> Document(3), synced |-> TRUE]
  /\ save = [t \in Thread |-> NoSave]

(* The machine stops and starts again.  Of a file that was not synced any   *)
(* part may be left.                                                        *)
Crash ==
  /\ ops < MaxOps /\ Counted
  /\ \E n \in (IF file.synced THEN {Len(file.doc)} ELSE 0..Len(file.doc)) :
       file' = [doc |-> SubSeq(file.doc, 1, n), synced |-> TRUE]
  /\ heap' = FirstHeap /\ symtree' = FirstSyms /\ numtree' = FirstNums
  /\ hand' = FirstHands /\ iter' = [t \in Thread |-> NoIter]
  /\ call' = [t \in Thread |-> NoCall] /\ work' = [t \in Thread |-> <<>>]
  /\ dying' = [t \in Thread |-> FALSE] /\ save' = [t \in Thread |-> NoSave]

SaveStep(t) ==
  \/ \E c \in Held(t) : ExternalizeToFile(t, c)
  \/ WriteTmp(t) \/ RenameTmp(t) \/ GiveUp(t)

PlistNext ==
  \/ Next /\ UNCHANGED <<file, save>>
  \/ \E t \in Thread : SaveStep(t)
  \/ Crash

PlistSpec == PlistInit /\ [][PlistNext]_pvars

----------------------------------------------------------------------------
(* What object a is when it is read back: a key symbol becomes a string. *)
RECURSIVE AsRead(_)
AsRead(a) ==
  LET o == heap[a]
      ks == {Name(heap, o.ents[i]) : i \in DOMAIN o.ents}
      at(k) == CHOOSE i \in DOMAIN o.ents : Name(heap, o.ents[i]) = k
  IN CASE o.type = "dict"  ->
            <<"dict", [x \in {Spell(k) : k \in ks} |->
                         AsRead(o.ents[at(CHOOSE k \in ks : Spell(k) = x)].obj)]>>
       [] o.type = "array" -> <<"array", [i \in DOMAIN o.ents |-> AsRead(o.ents[i].obj)]>>
       [] o.type = "sym"   -> <<"str", Spell(o.name)>>
       [] OTHER            -> <<o.type, o.name>>

(* What a thread is writing reads back as exactly what its container holds,  *)
(* whatever other threads do meanwhile, and no part of it cut off at the end *)
(* is taken for a whole property list.                                       *)
RoundTrip ==
  \A t \in Thread : save[t] # NoSave =>
    LET xml == save[t].xml
        c   == call[t].at
        back(n) == _prop_generic_internalize(SubSeq(xml, 1, n), heap[c].type)
    IN /\ back(Len(xml)).ok /\ back(Len(xml)).val = AsRead(c)
       /\ \A n \in 0..(Len(xml) - 1) : ~back(n).ok

(* The file is always a whole property list, whichever save failed and       *)
(* whenever the machine stopped.                                             *)
FileWhole ==
  \E master \in Containers : _prop_generic_internalize(file.doc, master).ok
============================================================================
