-------------------------------- MODULE Values --------------------------------
(***************************************************************************)
(* A value on its way from C++ through SQLite and back: bind_value, SQL    *)
(* functions that return their argument, get<T> and get_variant.           *)
(*                                                                         *)
(* std::int64_t is -Wide..Wide-1 and int is -Narrow..Narrow-1; texts,      *)
(* blobs and reals are what the code tells apart.  A column is read, and   *)
(* passed to a function, as a type of its own storage class: SQLite's      *)
(* conversions between the classes are left out.                           *)
(***************************************************************************)
EXTENDS Integers

CONSTANTS
    Wide,     \* 2^63, half the values of std::int64_t
    Narrow,   \* 2^31, half the values of int
    Tick,     \* units of the duration "fine" in a microsecond
    Coarse,   \* microseconds in a unit of the duration "coarse"
    Null,     \* std::nullopt, SQL NULL
    Empty,    \* the empty text or blob
    NullText, \* the text "NULL"
    Texts,
    Blobs,
    Reals

ASSUME ValuesAssumption ==
    /\ Wide \in Nat /\ Narrow \in Nat \ {0} /\ Narrow < Wide
    /\ Tick \in Nat \ {0} /\ Coarse \in Nat \ {0}
    /\ {Empty, NullText} \subseteq Texts
    /\ Empty \in Blobs
    /\ Null \notin Int \cup Texts \cup Blobs \cup Reals

VARIABLES
    origin,  \* what was bound
    cell,    \* what SQLite has: a storage class and a value
    got,     \* what was read
    apt      \* history: every function on the way could carry the value

vars == <<origin, cell, got, apt>>

Signed(h) == -h .. (h - 1)
Unsigned(h) == 0 .. (2 * h - 1)

\* Conversion to a signed, and to an unsigned, integer of 2h values.
Wrap(v, h) == ((v + h) % (2 * h)) - h
WrapUnsigned(v, h) == v % (2 * h)

\* duration_cast to a unit n times longer.
Truncate(v, n) == IF v < 0 THEN -((-v) \div n) ELSE v \div n

Integral == {"int64", "int", "uint64", "bool"}
Durations == {"fine", "micros", "coarse"}
Types == Integral \cup Durations \cup {"double", "text", "blob"}

\* The types an SQL function's parameter and result can have.
Parameters == Types \ Durations

Class(t) == IF t \in Integral \cup Durations THEN "integer" ELSE t

\* false is 0 and true is 1.
ValuesOf(t) ==
    IF t \in {"int64"} \cup Durations THEN Signed(Wide)
    ELSE IF t = "int" THEN Signed(Narrow)
    ELSE IF t = "uint64" THEN Unsigned(Wide)
    ELSE IF t = "bool" THEN 0..1
    ELSE IF t = "double" THEN Reals
    ELSE IF t = "text" THEN Texts
    ELSE Blobs

\* T and std::optional<T>
Hosts == UNION {{[type |-> t, opt |-> o, val |-> v] :
                    v \in ValuesOf(t) \cup (IF o THEN {Null} ELSE {})} :
                t \in Types, o \in BOOLEAN}

Cell(c, v) == [class |-> c, val |-> v]

NoCell == Cell("none", Null)
NullCell == Cell("null", Null)

Nothing == [type |-> "none", opt |-> FALSE, val |-> Null]

Init ==
    /\ origin = Nothing
    /\ cell = NoCell
    /\ got = Nothing
    /\ apt = TRUE

-----------------------------------------------------------------------------
(* Conversions *)

\* bind_value: the integer a value is stored as.
Stored(t, v) ==
    IF t = "fine" THEN Truncate(v, Tick)
    ELSE IF t = "coarse" THEN Wrap(v * Coarse, Wide)
    ELSE IF t \in Integral THEN Wrap(v, Wide)
    ELSE v

\* An integer as the integral type t.  A bool looks at the low bits only, those of int.
AsIntegral(t, v) ==
    IF t = "int64" THEN v
    ELSE IF t = "int" THEN Wrap(v, Narrow)
    ELSE IF t = "uint64" THEN WrapUnsigned(v, Wide)
    ELSE IF Wrap(v, Narrow) = 0 THEN 0 ELSE 1

\* Deviation: integers are read with get_int.
FetchedNarrow(t, v) ==
    IF t \in Integral THEN AsIntegral(t, Wrap(v, Narrow)) ELSE v

\* get<T> of a value that is not NULL.
Fetched(t, v) ==
    IF t \in Integral THEN AsIntegral(t, v)
    ELSE IF t = "fine" THEN Wrap(v * Tick, Wide)
    ELSE IF t = "coarse" THEN Truncate(v, Coarse)
    ELSE v

\* get<T> of NULL without an optional.
NullAs(t) ==
    IF Class(t) \in {"integer", "double"} THEN 0
    ELSE IF t = "text" THEN NullText
    ELSE Empty

\* result_writer: an empty blob has no address, which SQLite takes for NULL.
Written(t, v) == IF t = "blob" /\ v = Empty THEN NullCell ELSE Cell(Class(t), Stored(t, v))

\* The parameter type t can carry v, and its result too.
Carries(t, v) ==
    /\ t = "int" => v \in Signed(Narrow)
    /\ t = "bool" => v \in 0..1
    /\ t = "blob" => v # Empty

\* bind: what SQLite has of h.
Bound(h) == IF h.val = Null THEN NullCell ELSE Cell(Class(h.type), Stored(h.type, h.val))

-----------------------------------------------------------------------------
(* Operations *)

Bind(h) ==
    /\ origin' = h
    /\ cell' = Bound(h)
    /\ got' = Nothing
    /\ apt' = TRUE

\* A function from T, or std::optional<T>, to the same that returns its argument.
Call(t, o) ==
    /\ cell.class \in {Class(t), "null"}
    /\ cell.class = "null" => o
    /\ cell' = IF cell.class = "null" THEN NullCell
               ELSE Written(t, IF t \in Integral THEN AsIntegral(t, cell.val) ELSE cell.val)
    /\ got' = Nothing
    /\ apt' = (apt /\ (cell.class # "null" => Carries(t, cell.val)))
    /\ UNCHANGED origin

\* NULL for a parameter that is no optional is an error, and the statement fails.
CallThrows ==
    /\ cell.class = "null"
    /\ cell' = NoCell
    /\ got' = Nothing
    /\ UNCHANGED <<origin, apt>>

Get(t, o) ==
    /\ cell.class \in {Class(t), "null"}
    /\ got' = [type |-> t, opt |-> o,
               val |-> IF cell.class # "null" THEN Fetched(t, cell.val)
                       ELSE IF o THEN Null ELSE NullAs(t)]
    /\ UNCHANGED <<origin, cell, apt>>

\* The alternative that get_variant chooses.
Alternative(c) ==
    IF c.class # "integer" THEN c.class
    ELSE IF c.val \in Signed(Narrow) THEN "int" ELSE "int64"

GetVariant ==
    /\ cell.class # "none"
    /\ got' = [type |-> "variant", opt |-> FALSE, val |-> Cell(Alternative(cell), cell.val)]
    /\ UNCHANGED <<origin, cell, apt>>

Next ==
    \/ \E h \in Hosts : Bind(h)
    \/ \E t \in Parameters, o \in BOOLEAN : Call(t, o)
    \/ CallThrows
    \/ \E t \in Types, o \in BOOLEAN : Get(t, o)
    \/ GetVariant

Spec == Init /\ [][Next]_vars

-----------------------------------------------------------------------------
(* Properties *)

\* The bound value has a representation: a whole number of microseconds within 64 bits.
Representable(h) ==
    \/ h.val = Null
    \/ /\ h.type = "fine" => h.val % Tick = 0
       /\ h.type = "coarse" => h.val * Coarse \in Signed(Wide)

\* Whatever functions a representable value has passed, SQLite still has what was bound,
\* or nothing after an error.
Kept == apt /\ Representable(origin) => cell \in {NoCell, Bound(origin)}

\* A value that has a representation and that every function on the way could carry is
\* read back unchanged with the type it was bound with; only a NULL is read back as an
\* optional's empty value, and get_variant's alternative holds the number exactly.
Intact ==
    apt /\ Representable(origin) =>
        /\ <<got.type, got.opt>> = <<origin.type, origin.opt>> => got.val = origin.val
        /\ got.type = "variant" =>
              /\ got.val.class = "null" <=> origin.val = Null
              /\ origin.val # Null => got.val.val = Stored(origin.type, origin.val)
              /\ got.val.class = "int" => AsIntegral("int", got.val.val) = got.val.val
=============================================================================
