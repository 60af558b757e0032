---------------------------- MODULE ValueCodecs ----------------------------
(***************************************************************************)
(* The two codecs of packages/sqon, SQON-J (plain JSON whose keys that     *)
(* start with $ mark a value's class) and SQON-B (CBOR with tags).  A      *)
(* value is a tree: its class and its entries, each under a key, which is  *)
(* "" in a list.  What a leaf says (digits, names) is left out: one leaf   *)
(* per class, and two texts.                                               *)
(***************************************************************************)
EXTENDS Naturals, Sequences

CONSTANTS
    Keys       \* the keys of objects, some of them reserved by the format

VARIABLES
    value,     \* the value the application sends
    format,    \* "json" or "cbor"
    wire,      \* its encoded form
    back       \* what the other side decodes

vars == <<value, format, wire, back>>

-----------------------------------------------------------------------------
Node(class, entries) == [class |-> class, entries |-> entries]
Leaf(class) == Node(class, <<>>)
At(key, v) == [key |-> key, v |-> v]
One(key, v) == <<At(key, v)>>
Listed(vs) == [i \in 1..Len(vs) |-> At("", vs[i])]

\* The value of the first entry under a key.
Has(n, key) == \E i \in 1..Len(n.entries) : n.entries[i].key = key
Get(n, key) == n.entries[CHOOSE i \in 1..Len(n.entries) : n.entries[i].key = key].v

Reserved == {"$none", "$object", "$range", "$recordId", "$set", "$datetime", "$table",
             "$boundIncluded", "$boundExcluded"}

Texts    == {Leaf("text"), Leaf("other text")}
Null     == Leaf("null")
None     == Leaf("none")
Absent   == Leaf("absent")   \* no bound
Nothing  == Leaf("nothing")  \* not encoded, or not decoded, yet

\* Classes that are one string, or one list of strings, on the wire.
Simple == {"datetime", "decimal", "duration", "uuid", "stringRecordId", "table",
           "future", "bytes", "file", "geometry"}

-----------------------------------------------------------------------------
(* SQON-J.                                                                 *)

Text == Leaf("text")
Object(entries) == Node("object", entries)
Array(entries) == Node("array", entries)
Mark(class) == "$" \o class

\* A faulty variant: reserved keys are sent as they are.
Unescaped(entries) == Object(entries)

\* An object with a key that starts with $ is wrapped.
Escaped(entries) ==
    IF \E i \in 1..Len(entries) : entries[i].key \in Reserved
    THEN Object(One("$object", Object(entries))) ELSE Object(entries)

RECURSIVE ToJson(_), BoundToJson(_)

BoundToJson(b) ==
    IF b = Absent THEN Null
    ELSE Object(One(IF b.class = "included" THEN "$boundIncluded" ELSE "$boundExcluded",
                    ToJson(b.entries[1].v)))

RangeToJson(r) ==
    Object(One("$range", Object(<<At("begin", BoundToJson(r.entries[1].v)),
                                  At("end", BoundToJson(r.entries[2].v))>>)))

IdToJson(id) == Object(One("$recordId", Object(<<At("tb", Text), At("id", id)>>)))

ToJson(v) ==
    LET each == [i \in 1..Len(v.entries) |-> At(v.entries[i].key, ToJson(v.entries[i].v))] IN
    CASE v.class = "none"          -> Object(One("$none", Leaf("true")))
      [] v.class = "date"          -> Object(One("$datetime", Text))
      [] v.class \in Simple        -> Object(One(Mark(v.class), Text))
      [] v.class = "recordId"      -> IdToJson(each[1].v)
      [] v.class = "recordIdRange" -> IdToJson(RangeToJson(v))
      [] v.class = "range"         -> RangeToJson(v)
      [] v.class = "set"           -> Object(One("$set", Array(each)))
      [] v.class = "array"         -> Array(each)
      [] v.class = "map"           -> Object(each)
      [] v.class = "object"        -> Escaped(each)
      [] OTHER                     -> v

IsText(j) == j \in Texts
IsObject(j) == j.class = "object"

RECURSIVE FromJson(_)

\* A faulty variant: an excluded bound comes back included.
BoundIncludedFromJson(j) ==
    IF j = Null THEN Absent ELSE Node("included", One("", FromJson(j.entries[1].v)))

BoundFromJson(j) ==
    IF Has(j, "$boundIncluded") THEN Node("included", One("", FromJson(Get(j, "$boundIncluded"))))
    ELSE IF Has(j, "$boundExcluded")
    THEN Node("excluded", One("", FromJson(Get(j, "$boundExcluded"))))
    ELSE Absent

\* Entries that decode to undefined are dropped.
Decoded(entries) ==
    SelectSeq([i \in 1..Len(entries) |-> At(entries[i].key, FromJson(entries[i].v))],
              LAMBDA e : e.v # None)

\* The object that is wrapped or plain, read entry by entry.
PlainFromJson(j) == Object(Decoded(j.entries))

\* The marks are looked for in this order; each also checks its content.
FromJson(j) ==
    IF j.class = "array"
    THEN Array([i \in 1..Len(j.entries) |-> At("", FromJson(j.entries[i].v))])
    ELSE IF ~IsObject(j) THEN j
    ELSE IF Has(j, "$object") /\ IsObject(Get(j, "$object"))
    THEN PlainFromJson(Get(j, "$object"))
    ELSE IF Has(j, "$none") /\ Get(j, "$none") = Leaf("true") THEN None
    ELSE IF \E c \in Simple : Has(j, Mark(c)) /\ IsText(Get(j, Mark(c)))
    THEN Leaf(CHOOSE c \in Simple : Has(j, Mark(c)) /\ IsText(Get(j, Mark(c))))
    ELSE IF Has(j, "$recordId") /\ IsObject(Get(j, "$recordId"))
    THEN LET id == FromJson(Get(Get(j, "$recordId"), "id")) IN
         IF id.class = "range" THEN Node("recordIdRange", id.entries)
         ELSE Node("recordId", One("", id))
    ELSE IF Has(j, "$set") /\ Get(j, "$set").class = "array"
    THEN Node("set", FromJson(Get(j, "$set")).entries)
    ELSE IF Has(j, "$range") /\ IsObject(Get(j, "$range"))
    THEN Node("range", Listed(<<BoundFromJson(Get(Get(j, "$range"), "begin")),
                                BoundFromJson(Get(Get(j, "$range"), "end"))>>))
    ELSE PlainFromJson(j)

-----------------------------------------------------------------------------
(* SQON-B: a tag around what the value is made of.  The library encodes and  *)
(* decodes the children of each node and knows lists, maps and primitives.   *)
Tagged(tag, entries) == Node(tag, entries)

TagOf ==
    [none |-> "6", table |-> "7", recordId |-> "8", stringRecordId |-> "8 text",
     recordIdRange |-> "8", decimal |-> "10", date |-> "12", datetime |-> "12",
     duration |-> "14", future |-> "15", uuid |-> "37", range |-> "49",
     included |-> "50", excluded |-> "51", file |-> "55", set |-> "56",
     geometry |-> "88"]

\* A faulty variant: the bounds of a range are written end first.
RangeToCborSwapped(v, each) == Tagged(TagOf[v.class], <<each[2], each[1]>>)

RangeToCbor(v, each) == Tagged(TagOf[v.class], <<each[1], each[2]>>)

RECURSIVE ToCbor(_), FromCbor(_)

ToCbor(v) ==
    LET each == [i \in 1..Len(v.entries) |-> At(v.entries[i].key, ToCbor(v.entries[i].v))] IN
    CASE v = Absent                -> Null
      [] v.class = "map"           -> Object(each)
      [] v.class = "range"         -> RangeToCbor(v, each)
      [] v.class = "recordIdRange" ->
            Tagged(TagOf["recordIdRange"],
                   One("", RangeToCbor([v EXCEPT !.class = "range"], each)))
      [] v.class \in DOMAIN TagOf  -> Tagged(TagOf[v.class], each)
      [] OTHER                     -> Node(v.class, each)

BoundFromCbor(c) == IF c = Null THEN Absent ELSE c

FromCbor(c) ==
    LET each == [i \in 1..Len(c.entries) |-> At(c.entries[i].key, FromCbor(c.entries[i].v))] IN
    CASE c.class = "49" ->
            Node("range", Listed(<<BoundFromCbor(each[1].v), BoundFromCbor(each[2].v)>>))
      [] c.class = "8" ->
            IF each[1].v.class = "range" THEN Node("recordIdRange", each[1].v.entries)
            ELSE Node("recordId", each)
      [] c.class \in {TagOf[k] : k \in DOMAIN TagOf} \ {"49", "8"} ->
            Node(CHOOSE k \in DOMAIN TagOf : TagOf[k] = c.class /\ k # "date", each)
      [] OTHER -> Node(c.class, each)

-----------------------------------------------------------------------------
(* The values.                                                             *)
Leaves == Texts \cup {Null, None, Leaf("date")} \cup {Leaf(c) : c \in Simple}
Few == Texts \cup {None, Leaf("datetime")}

Objects(vs) ==
    {Object(One(k, v)) : k \in Keys, v \in vs}
        \cup {Object(<<At(k, v), At(l, w)>>) : k \in Keys, l \in Keys \ {"a"},
                                               v \in Few, w \in Few}
Lists(class, vs) == {Node(class, Listed(<<v>>)) : v \in vs} \cup {Node(class, <<>>)}
Bounds(vs) == {Absent} \cup {Node(c, One("", v)) : c \in {"included", "excluded"}, v \in vs}
Ranges(class, vs) ==
    {Node(class, Listed(<<b, e>>)) : b \in Bounds(vs), e \in Bounds(vs)}

Shallow ==
    Leaves \cup Objects(Leaves) \cup Lists("array", Leaves) \cup Lists("set", Few)
        \cup Ranges("range", Few) \cup Ranges("recordIdRange", Texts)
        \cup {Node("recordId", One("", v)) : v \in Texts}

Distinct(v) ==
    \A i, j \in 1..Len(v.entries) :
        i # j /\ v.class \in {"object", "map"} => v.entries[i].key # v.entries[j].key

Values ==
    {v \in Shallow \cup Objects(Shallow) \cup Lists("array", Shallow) \cup Lists("set", Shallow)
            \cup {Node("map", o.entries) : o \in {o \in Objects(Shallow) :
                        \A i \in 1..Len(o.entries) : o.entries[i].key \notin Reserved}}
            \cup {Node("recordId", One("", v)) : v \in Objects(Few) \cup Lists("array", Few)} :
        Distinct(v)}

Init ==
    /\ value \in Values
    /\ format \in {"json", "cbor"}
    /\ wire = Nothing /\ back = Nothing

Encode ==
    /\ wire = Nothing
    /\ wire' = IF format = "json" THEN ToJson(value) ELSE ToCbor(value)
    /\ UNCHANGED <<value, format, back>>

Decode ==
    /\ wire # Nothing /\ back = Nothing
    /\ back' = IF format = "json" THEN FromJson(wire) ELSE FromCbor(wire)
    /\ UNCHANGED <<value, format, wire>>

Next == Encode \/ Decode

Spec == Init /\ [][Next]_vars

-----------------------------------------------------------------------------
\* What a value means: a Date is a datetime, a map an object, and in JSON an
\* entry that is undefined is none.
RECURSIVE Meaning(_, _)
Meaning(v, f) ==
    LET each == [i \in 1..Len(v.entries) |-> At(v.entries[i].key, Meaning(v.entries[i].v, f))]
    IN IF v.class = "date" THEN Leaf("datetime")
       ELSE IF v.class \in {"object", "map"}
       THEN Object(IF f = "json" THEN SelectSeq(each, LAMBDA e : e.v # None) ELSE each)
       ELSE Node(v.class, each)

\* Whatever a value is made of, also one with keys that the format reserves
\* for its marks, the other side reads what was meant (json/codec.ts:152,
\* cbor/codec.ts:100).
ReadsWhatWasMeant == back # Nothing => back = Meaning(value, format)
=============================================================================
