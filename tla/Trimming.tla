------------------------------ MODULE Trimming ------------------------------
(***************************************************************************)
(* What is left of a log when paths are cut out of it                      *)
(* (Utils/trimFields.cpp).  The code erases fields from the log in place:  *)
(* here the log is the set of all places in it, and what is erased is no   *)
(* longer in the set.                                                      *)
(***************************************************************************)
EXTENDS LogPaths

\* All places in a log, each with the way that leads to it: for each field its
\* name, for an item of an array the name of that field and a number. What is in an
\* array that is itself an item has no name. PlacesIn(json)[n]: those n steps away.
Named(name)     == [name |-> name, item |-> NoIndex]
ItemIn(name, i) == [name |-> name, item |-> i - 1]
Unnamed(i)      == ItemIn("", i)

At(place, way, value) == [way |-> Append(place.way, way), value |-> value]

Inside(place) ==
    LET v == place.value
        n == Len(place.way)
    IN  IF v.is = "object"
        THEN {At(place, Named(k), v.fields[k]) : k \in DOMAIN v.fields}
                 \cup UNION {{At(place, ItemIn(k, i), v.fields[k].items[i]) : i \in DOMAIN v.fields[k].items} :
                                k \in {k \in DOMAIN v.fields : v.fields[k].is = "array"}}
        ELSE IF v.is = "array" /\ n > 0 /\ place.way[n].item # NoIndex
        THEN {At(place, Unnamed(i), v.items[i]) : i \in DOMAIN v.items}
        ELSE {}

PlacesIn(json) ==
    LET places[n \in 0 .. MaxDepth] ==
            IF n = 0 THEN {[way |-> <<>>, value |-> json]}
            ELSE UNION {Inside(place) : place \in places[n - 1]}
    IN  places

Places(json) == UNION Range(PlacesIn(json))

\* Nothing is nested too deep, and arrays are sequences.
IsJson(json) ==
    /\ \A place \in PlacesIn(json)[MaxDepth] : Inside(place) = {}
    /\ \A place \in Places(json) :
          place.value.is = "array" => place.value.items \in Seq(Range(place.value.items))

-----------------------------------------------------------------------------
(* Utils/trimFields.cpp                                                    *)

\* find(): only objects have fields.
IsField(q, place, name) ==
    /\ place.value.is = "object"
    /\ Len(q.way) = Len(place.way) + 1
    /\ \A i \in 1 .. Len(place.way) : q.way[i] = place.way[i]
    /\ q.way[Len(q.way)] = Named(name)

\* The loop of trimFrom(): where it is after each entry. Indexes are not looked at,
\* so no way leads through an array, and an array at the end goes as a whole.
Followed(left, place, entries) ==
    LET at[n \in 0 .. Len(entries)] ==
            IF n = 0 THEN {place}
            ELSE {q \in left : \E p \in at[n - 1] : IsField(q, p, entries[n].name)}
    IN  at

\* erase(): with all that is in it.
IsIn(q, field) ==
    LET n == Len(field.way)
    IN  /\ Len(q.way) >= n
        /\ \A i \in 1 .. n - 1 : q.way[i] = field.way[i]
        /\ q.way[n].name = field.way[n].name

Erase(left, fields) == {q \in left : \A field \in fields : ~IsIn(q, field)}

\* trimFrom() of all that is n steps away: none of these is in another.
TrimFrom(left, n, entries) ==
    Erase(left, UNION {Followed(left, place, entries)[Len(entries)] :
                           place \in {p \in left : Len(p.way) = n}})

\* trimOneRelative(): here, and then in everything below.
TrimRelative(left, entries) ==
    LET after[n \in 0 .. MaxDepth + 1] ==
            IF n = 0 THEN left ELSE TrimFrom(after[n - 1], n - 1, entries)
    IN  after

\* trimOneField()
TrimOne(left, path) ==
    IF path.entries = <<>> THEN left
    ELSE IF path.isAbsolute THEN TrimFrom(left, 0, path.entries)
    ELSE TrimRelative(left, path.entries)[MaxDepth + 1]

\* What is left after each path.
LeftAfter(json, paths) ==
    LET left[n \in 0 .. Len(paths)] ==
            IF n = 0 THEN Places(json) ELSE TrimOne(left[n - 1], paths[n])
    IN  left

TrimFields(json, paths) == LeftAfter(json, paths)[Len(paths)]

=============================================================================
