---------------------------- MODULE ValuesProofs ----------------------------
(***************************************************************************)
(* Theorems about the conversions, for integers of every two widths, every *)
(* two units of a duration, and every set of texts, blobs and reals.       *)
(***************************************************************************)
EXTENDS Values, TLAPS

-----------------------------------------------------------------------------
(* Arithmetic *)

\* static_cast keeps a number the narrower type has.
LEMMA WrapIdentity ==
    ASSUME NEW h \in Nat \ {0}, NEW v \in Signed(h)
    PROVE  Wrap(v, h) = v
<1>1. v + h \in 0..(2 * h - 1) /\ 2 * h \in Nat \ {0}
  BY DEF Signed
<1>2. \A a \in 0..(2 * h - 1) : a % (2 * h) = a
  BY <1>1
<1>3. (v + h) % (2 * h) = v + h
  BY <1>1, <1>2
<1> QED
  BY <1>3 DEF Wrap, Signed

\* The signed type is a subset of a wider one.
LEMMA Widening ==
    ASSUME NEW h \in Nat, NEW g \in Nat, g <= h
    PROVE  Signed(g) \subseteq Signed(h)
BY DEF Signed

\* Adding the modulus does not change the remainder.
LEMMA ModShift ==
    ASSUME NEW b \in Nat \ {0}, NEW a \in 0..(b - 1)
    PROVE  /\ a % b = a
           /\ (a - b) % b = a
           /\ (a + b) % b = a
<1>1. a % b = a
  OBVIOUS
<1>2. ASSUME NEW k \in {-1, 1} PROVE (a + k * b) % b = a
  <2> DEFINE m == a + k * b
             r == m % b
             q == m \div b
  <2>1. m = b * q + r /\ r \in 0..(b - 1) /\ q \in Int
    BY <1>2
  <2>2. a - r = b * (q - k)
    BY <2>1, <1>2
  <2>3. a - r < b /\ a - r > -b
    BY <2>1
  <2> HIDE DEF m, r, q
  <2>4. q - k = 0
    BY <2>1, <2>2, <2>3, <1>2
  <2>5. r = a
    BY <2>1, <2>2, <2>4, <1>2
  <2> QED
    BY <2>5 DEF r, m
<1>3. (a + (-1) * b) % b = a
  BY <1>2
<1>4. (a + 1 * b) % b = a
  BY <1>2
<1>5. a + (-1) * b = a - b /\ a + 1 * b = a + b
  OBVIOUS
<1> QED
  BY <1>1, <1>3, <1>4, <1>5

\* std::uint64_t is stored as the signed integer of the same bits, and cast back.
LEMMA UnsignedRoundTrip ==
    ASSUME NEW h \in Nat \ {0}, NEW v \in Unsigned(h)
    PROVE  /\ Wrap(v, h) \in Signed(h)
           /\ WrapUnsigned(Wrap(v, h), h) = v
<1> DEFINE b == 2 * h
<1>1. b \in Nat \ {0} /\ v \in 0..(b - 1)
  BY DEF Unsigned
<1>2. CASE v < h
  <2>1. v \in Signed(h)
    BY <1>1, <1>2 DEF Signed
  <2>2. Wrap(v, h) = v
    BY <2>1, WrapIdentity
  <2> QED
    BY <2>1, <2>2, <1>1, ModShift DEF WrapUnsigned
<1>3. CASE ~(v < h)
  <2>1. v - h \in 0..(b - 1) /\ (v - h) + b = v + h
    BY <1>1, <1>3
  <2>2. (v + h) % b = v - h
    BY <1>1, <2>1, ModShift
  <2>3. Wrap(v, h) = v - b
    BY <1>1, <2>2 DEF Wrap
  <2> QED
    BY <1>1, <1>3, <2>3, ModShift DEF WrapUnsigned, Signed
<1> QED
  BY <1>2, <1>3

\* An SQL function's std::uint64_t parameter takes the same bits, and its result gives
\* them back.
LEMMA SignedRoundTrip ==
    ASSUME NEW h \in Nat \ {0}, NEW v \in Signed(h)
    PROVE  /\ WrapUnsigned(v, h) \in Unsigned(h)
           /\ Wrap(WrapUnsigned(v, h), h) = v
<1> DEFINE b == 2 * h
<1>1. b \in Nat \ {0} /\ v \in (-h)..(h - 1)
  BY DEF Signed
<1>2. CASE v >= 0
  <2>1. v \in 0..(b - 1)
    BY <1>1, <1>2
  <2>2. WrapUnsigned(v, h) = v
    BY <1>1, <2>1, ModShift DEF WrapUnsigned
  <2> QED
    BY <2>1, <2>2, WrapIdentity DEF Unsigned
<1>3. CASE ~(v >= 0)
  <2>1. v + b \in 0..(b - 1) /\ (v + b) - b = v
    BY <1>1, <1>3
  <2>2. WrapUnsigned(v, h) = v + b
    BY <1>1, <2>1, ModShift DEF WrapUnsigned
  <2>3. v + h \in 0..(b - 1) /\ (v + b) + h = (v + h) + b
    BY <1>1, <1>3
  <2>4. ((v + b) + h) % b = v + h
    BY <1>1, <2>3, ModShift
  <2> QED
    BY <1>1, <2>1, <2>2, <2>4 DEF Wrap, Unsigned
<1> QED
  BY <1>2, <1>3

\* A whole number of the longer unit survives the cast to it and back.
LEMMA TruncateExact ==
    ASSUME NEW n \in Nat \ {0}, NEW v \in Int, v % n = 0
    PROVE  /\ Truncate(v, n) \in Int
           /\ Truncate(v, n) * n = v
<1>1. v = n * (v \div n) /\ v \div n \in Int
  OBVIOUS
<1>2. CASE v >= 0
  BY <1>1, <1>2 DEF Truncate
<1>3. CASE v < 0
  <2> DEFINE q == v \div n
  <2>1. -v = n * (-q) /\ -q \in Int
    BY <1>1
  <2>2. \A k \in Int : (n * k) \div n = k
    OBVIOUS
  <2>3. (-v) \div n = -q
    BY <2>1, <2>2
  <2>4. Truncate(v, n) = q
    BY <1>3, <1>1, <2>3 DEF Truncate
  <2> QED
    BY <2>4, <1>1
<1> QED
  BY <1>2, <1>3

\* The cast to the shorter unit and back gives the same number.
LEMMA TruncateProduct ==
    ASSUME NEW n \in Nat \ {0}, NEW v \in Int
    PROVE  Truncate(v * n, n) = v
<1>1. \A k \in Int : (k * n) \div n = k
  OBVIOUS
<1>2. CASE v >= 0
  <2>1. v * n >= 0
    BY <1>2
  <2> QED
    BY <1>1, <2>1 DEF Truncate
<1>3. CASE v < 0
  <2>1. v * n < 0 /\ -(v * n) = (-v) * n
    BY <1>3
  <2>2. ((-v) * n) \div n = -v
    BY <1>1
  <2> QED
    BY <2>1, <2>2 DEF Truncate
<1> QED
  BY <1>2, <1>3

-----------------------------------------------------------------------------
(* Conversions *)

\* The values of the integers and durations, by type.
LEMMA IntegerValues ==
    /\ \A t \in {"int64", "fine", "micros", "coarse"} : ValuesOf(t) = Signed(Wide)
    /\ ValuesOf("int") = Signed(Narrow)
    /\ ValuesOf("uint64") = Unsigned(Wide)
    /\ ValuesOf("bool") = 0..1
    /\ Signed(Wide) \subseteq Int /\ Signed(Narrow) \subseteq Int
    /\ Signed(Narrow) \subseteq Signed(Wide) /\ 0..1 \subseteq Signed(Wide)
    /\ Wide \in Nat \ {0} /\ Narrow \in Nat \ {0}
<1>1. Wide \in Nat \ {0} /\ Narrow \in Nat \ {0} /\ Narrow <= Wide /\ Wide >= 2
  BY ValuesAssumption
<1>2. Signed(Narrow) \subseteq Signed(Wide)
  BY <1>1, Widening
<1>3. 0..1 \subseteq Signed(Wide) /\ Signed(Wide) \subseteq Int /\ Signed(Narrow) \subseteq Int
  BY <1>1 DEF Signed
<1> QED
  BY <1>1, <1>2, <1>3 DEF ValuesOf, Durations

\* true is 1 after the conversion to an int, or -1 if an int has one bit, and false is 0.
LEMMA BoolKept == \A v \in 0..1 : AsIntegral("bool", v) = v
<1>1. Narrow \in Nat \ {0} /\ 2 * Narrow \in Nat \ {0}
  BY ValuesAssumption
<1>2. Wrap(0, Narrow) = 0
  BY <1>1, WrapIdentity DEF Signed
<1>3. Wrap(1, Narrow) # 0
  <2>1. CASE Narrow = 1
    <3>1. 2 \in 0..(4 - 1) /\ (2 - 2) % 2 = 0 /\ (1 + 1) % (2 * 1) = 0
      OBVIOUS
    <3> QED
      BY <2>1, <3>1 DEF Wrap
  <2>2. CASE Narrow # 1
    <3>1. 1 \in Signed(Narrow)
      BY <1>1, <2>2 DEF Signed
    <3> QED
      BY <1>1, <3>1, WrapIdentity
  <2> QED
    BY <2>1, <2>2
<1> QED
  BY <1>2, <1>3 DEF AsIntegral

\* What is stored for an integer or a duration is a 64 bit integer, and it is read back.
LEMMA IntegerRoundTrip ==
    ASSUME NEW t \in Integral \cup Durations, NEW v \in ValuesOf(t),
           t = "fine" => v % Tick = 0,
           t = "coarse" => v * Coarse \in Signed(Wide)
    PROVE  /\ Stored(t, v) \in Signed(Wide)
           /\ Fetched(t, Stored(t, v)) = v
<1>0. /\ Wide \in Nat \ {0} /\ Narrow \in Nat \ {0}
      /\ Tick \in Nat \ {0} /\ Coarse \in Nat \ {0}
  BY ValuesAssumption
<1>1. CASE t = "int64"
  <2>1. v \in Signed(Wide) /\ Stored(t, v) = Wrap(v, Wide)
    BY <1>1, IntegerValues DEF Stored, Integral
  <2>2. Wrap(v, Wide) = v
    BY <2>1, <1>0, WrapIdentity
  <2> QED
    BY <1>1, <2>1, <2>2 DEF Fetched, AsIntegral, Integral
<1>2. CASE t = "int"
  <2>1. v \in Signed(Narrow) /\ v \in Signed(Wide) /\ Stored(t, v) = Wrap(v, Wide)
    BY <1>2, IntegerValues DEF Stored, Integral
  <2>2. Wrap(v, Wide) = v /\ Wrap(v, Narrow) = v
    BY <2>1, <1>0, WrapIdentity
  <2> QED
    BY <1>2, <2>1, <2>2 DEF Fetched, AsIntegral, Integral
<1>3. CASE t = "uint64"
  <2>1. v \in Unsigned(Wide) /\ Stored(t, v) = Wrap(v, Wide)
    BY <1>3, IntegerValues DEF Stored, Integral
  <2>2. Wrap(v, Wide) \in Signed(Wide) /\ WrapUnsigned(Wrap(v, Wide), Wide) = v
    BY <2>1, <1>0, UnsignedRoundTrip
  <2> QED
    BY <1>3, <2>1, <2>2 DEF Fetched, AsIntegral, Integral
<1>4. CASE t = "bool"
  <2>1. v \in 0..1 /\ v \in Signed(Wide) /\ Stored(t, v) = Wrap(v, Wide)
    BY <1>4, IntegerValues DEF Stored, Integral
  <2>2. Wrap(v, Wide) = v
    BY <2>1, <1>0, WrapIdentity
  <2>3. Fetched(t, v) = AsIntegral("bool", v)
    BY <1>4 DEF Fetched, Integral
  <2> QED
    BY <2>1, <2>2, <2>3, BoolKept
<1>5. CASE t = "fine"
  <2>1. v \in Signed(Wide) /\ v \in Int /\ v % Tick = 0
    BY <1>5, IntegerValues
  <2>2. Stored(t, v) = Truncate(v, Tick)
    BY <1>5 DEF Stored
  <2>3. Truncate(v, Tick) \in Int /\ Truncate(v, Tick) * Tick = v
    BY <2>1, <1>0, TruncateExact
  <2>4. \A q \in Int : q * Tick \in Signed(Wide) => q \in Signed(Wide)
    <3> TAKE q \in Int
    <3>1. CASE q >= 0
      <4>1. q * Tick >= q
        BY <1>0, <3>1
      <4> QED
        BY <4>1, <3>1, <1>0 DEF Signed
    <3>2. CASE q < 0
      <4>1. q * Tick <= q
        BY <1>0, <3>2
      <4> QED
        BY <4>1, <3>2, <1>0 DEF Signed
    <3> QED
      BY <3>1, <3>2
  <2>5. Truncate(v, Tick) \in Signed(Wide)
    BY <2>1, <2>3, <2>4
  <2>6. Fetched(t, Truncate(v, Tick)) = Wrap(v, Wide)
    BY <1>5, <2>3 DEF Fetched, Integral
  <2> QED
    BY <2>1, <2>2, <2>5, <2>6, <1>0, WrapIdentity
<1>6. CASE t = "micros"
  <2>1. v \in Signed(Wide)
    BY <1>6, IntegerValues
  <2> QED
    BY <1>6, <2>1 DEF Stored, Fetched, Integral
<1>7. CASE t = "coarse"
  <2>1. v \in Int /\ v * Coarse \in Signed(Wide)
    BY <1>7, IntegerValues
  <2>2. Stored(t, v) = v * Coarse
    BY <1>7, <2>1, <1>0, WrapIdentity DEF Stored
  <2>3. Truncate(v * Coarse, Coarse) = v
    BY <2>1, <1>0, TruncateProduct
  <2> QED
    BY <1>7, <2>1, <2>2, <2>3 DEF Fetched, Integral
<1> QED
  BY <1>1, <1>2, <1>3, <1>4, <1>5, <1>6, <1>7 DEF Integral, Durations

\* A value that has a representation is read back as the type it was bound with.
LEMMA RoundTrip ==
    ASSUME NEW h \in Hosts, Representable(h), h.val # Null
    PROVE  /\ Fetched(h.type, Stored(h.type, h.val)) = h.val
           /\ h.type \in Integral \cup Durations => Stored(h.type, h.val) \in Signed(Wide)
<1>1. h.type \in Types /\ h.val \in ValuesOf(h.type)
  BY DEF Hosts
<1>2. CASE h.type \in Integral \cup Durations
  <2>1. /\ h.type = "fine" => h.val % Tick = 0
        /\ h.type = "coarse" => h.val * Coarse \in Signed(Wide)
    BY DEF Representable
  <2> QED
    BY <1>1, <1>2, <2>1, IntegerRoundTrip
<1>3. CASE h.type \in {"double", "text", "blob"}
  BY <1>3 DEF Stored, Fetched, Integral, Durations
<1> QED
  BY <1>1, <1>2, <1>3 DEF Types

\* An SQL function that returns its argument leaves the integers its type can carry alone.
LEMMA CalledIntegral ==
    ASSUME NEW t \in Integral, NEW v \in Signed(Wide), Carries(t, v)
    PROVE  Stored(t, AsIntegral(t, v)) = v
<1>0. Wide \in Nat \ {0} /\ Narrow \in Nat \ {0}
  BY ValuesAssumption
<1>1. Wrap(v, Wide) = v
  BY <1>0, WrapIdentity
<1>2. \A w : Stored(t, w) = Wrap(w, Wide)
  BY DEF Stored, Integral
<1>3. CASE t = "int64"
  BY <1>1, <1>2, <1>3 DEF AsIntegral
<1>4. CASE t = "int"
  <2>1. Wrap(v, Narrow) = v
    BY <1>0, <1>4, WrapIdentity DEF Carries
  <2> QED
    BY <1>1, <1>2, <1>4, <2>1 DEF AsIntegral
<1>5. CASE t = "uint64"
  BY <1>0, <1>2, <1>5, SignedRoundTrip DEF AsIntegral
<1>6. CASE t = "bool"
  <2>1. AsIntegral(t, v) = v
    BY <1>6, BoolKept DEF Carries
  <2> QED
    BY <1>1, <1>2, <2>1
<1> QED
  BY <1>3, <1>4, <1>5, <1>6 DEF Integral

-----------------------------------------------------------------------------
(* The invariant *)

\* A bound value has its type or is the empty value of an optional.
OriginOK == origin \in Hosts \cup {Nothing}

IInv == OriginOK /\ Kept /\ Intact

\* NULL is not a value of any type, and no type has the class of NULL or of no cell.
LEMMA HostFacts ==
    ASSUME NEW h \in Hosts
    PROVE  /\ h.type \in Types /\ h.opt \in BOOLEAN
           /\ h.val = Null => h.opt
           /\ h.val # Null => h.val \in ValuesOf(h.type)
<1>1. /\ h.type \in Types /\ h.opt \in BOOLEAN
      /\ h.val \in ValuesOf(h.type) \cup (IF h.opt THEN {Null} ELSE {})
  BY DEF Hosts
<1>2. \A t \in Types : Null \notin ValuesOf(t)
  <2>1. /\ \A t \in Types : \/ ValuesOf(t) \subseteq Int
                            \/ ValuesOf(t) \in {Texts, Blobs, Reals}
    BY DEF ValuesOf, Types, Integral, Durations, Signed, Unsigned
  <2> QED
    BY <2>1, ValuesAssumption
<1> QED
  BY <1>1, <1>2

\* The storage classes, apart from those of NULL and of no cell.
LEMMA ClassFacts ==
    ASSUME NEW t \in Types
    PROVE  /\ Class(t) \in {"integer", "double", "text", "blob"}
           /\ Class(t) = "integer" <=> t \in Integral \cup Durations
           /\ Class(t) # "integer" => Class(t) = t
BY DEF Class, Types, Integral, Durations

LEMMA InitIntact == Init => IInv
BY DEF Init, IInv, OriginOK, Kept, Intact, Nothing, NoCell

\* bind_value starts anew.
LEMMA BindStep ==
    ASSUME IInv, NEW h \in Hosts, Bind(h)
    PROVE  IInv'
<1>1. origin' = h /\ cell' = Bound(h) /\ got' = Nothing
  BY DEF Bind
<1>2. got'.type = "none" /\ h.type # "none"
  BY <1>1, HostFacts DEF Nothing, Types, Integral, Durations
<1> QED
  BY <1>1, <1>2 DEF IInv, OriginOK, Kept, Intact

\* Nothing has been read since the last call.
LEMMA UnreadIntact ==
    ASSUME OriginOK', got' = Nothing
    PROVE  Intact'
<1>1. got'.type = "none" /\ got'.val = Null
  BY DEF Nothing
<1>2. CASE origin' \in Hosts
  <2>1. origin'.type # "none"
    BY <1>2, HostFacts DEF Types, Integral, Durations
  <2> QED
    BY <1>1, <2>1 DEF Intact
<1>3. CASE origin' = Nothing
  BY <1>1, <1>3 DEF Intact, Nothing
<1> QED
  BY <1>2, <1>3 DEF OriginOK

\* A function that returns its argument, of a type that can carry it.
LEMMA CallStep ==
    ASSUME IInv, NEW t \in Parameters, NEW o \in BOOLEAN, Call(t, o)
    PROVE  IInv'
<1>1. OriginOK' /\ Intact'
  BY UnreadIntact DEF IInv, OriginOK, Call
<1>2. ASSUME apt', Representable(origin) PROVE cell' \in {NoCell, Bound(origin)}
  <2>1. /\ apt /\ (cell.class # "null" => Carries(t, cell.val))
        /\ cell.class \in {Class(t), "null"}
    BY <1>2 DEF Call
  <2>2. cell \in {NoCell, Bound(origin)}
    BY <1>2, <2>1 DEF IInv, Kept
  <2>3. t \in Types /\ t \notin Durations
    BY DEF Parameters
  <2>4. cell = Bound(origin)
    BY <2>1, <2>2, <2>3, ClassFacts DEF NoCell, Cell
  <2>5. CASE cell.class = "null"
    <3>1. origin.val = Null
      <4> SUFFICES ASSUME origin.val # Null PROVE FALSE
        OBVIOUS
      <4>1. origin \in Hosts
        BY DEF IInv, OriginOK, Nothing
      <4> QED
        BY <2>4, <2>5, <4>1, HostFacts, ClassFacts DEF Bound, Cell
    <3> QED
      BY <2>5, <3>1 DEF Call, Bound
  <2>6. CASE cell.class # "null"
    <3>1. origin.val # Null
      BY <2>4, <2>6 DEF Bound, NullCell, Cell
    <3>2. origin \in Hosts
      BY <3>1 DEF IInv, OriginOK, Nothing
    <3>3. /\ cell = Cell(Class(origin.type), Stored(origin.type, origin.val))
          /\ cell.class = Class(origin.type) /\ cell.class = Class(t)
          /\ cell.val = Stored(origin.type, origin.val)
      BY <2>1, <2>4, <2>6, <3>1 DEF Bound, Cell
    <3>4. Carries(t, cell.val)
      BY <2>1, <2>6
    <3>5. CASE Class(t) = "integer"
      <4>1. t \in Integral /\ cell.val \in Signed(Wide)
        BY <1>2, <2>3, <3>1, <3>2, <3>3, <3>5, ClassFacts, HostFacts, RoundTrip
      <4>2. Stored(t, AsIntegral(t, cell.val)) = cell.val
        BY <3>4, <4>1, CalledIntegral
      <4>3. cell' = Cell(Class(t), Stored(t, AsIntegral(t, cell.val)))
        BY <2>6, <4>1 DEF Call, Written, Integral
      <4> QED
        BY <2>4, <3>3, <4>2, <4>3 DEF Cell
    <3>6. CASE Class(t) # "integer"
      <4>1. t \in {"double", "text", "blob"} /\ t \notin Integral
        BY <2>3, <3>6, ClassFacts DEF Class
      <4>2. Stored(t, cell.val) = cell.val
        BY <4>1 DEF Stored
      <4>3. ~(t = "blob" /\ cell.val = Empty)
        BY <3>4 DEF Carries
      <4>4. cell' = Cell(Class(t), cell.val)
        BY <2>6, <4>1, <4>2, <4>3 DEF Call, Written
      <4> QED
        BY <2>4, <3>3, <4>4 DEF Cell
    <3> QED
      BY <3>5, <3>6
  <2> QED
    BY <2>5, <2>6
<1>3. Kept'
  BY <1>2 DEF Kept, Call, Representable, Bound
<1> QED
  BY <1>1, <1>3 DEF IInv

\* get<T>: what was bound is read, with the type it was bound with.
LEMMA GetStep ==
    ASSUME IInv, NEW t \in Types, NEW o \in BOOLEAN, Get(t, o)
    PROVE  IInv'
<1>1. OriginOK' /\ Kept'
  BY DEF IInv, OriginOK, Kept, Get, Representable, Bound
<1>2. got'.type = t /\ got'.opt = o /\ t # "variant"
  BY DEF Get, Types, Integral, Durations
<1>3. ASSUME apt, Representable(origin), t = origin.type, o = origin.opt
      PROVE  got'.val = origin.val
  <2>1. origin \in Hosts
    BY <1>3 DEF IInv, OriginOK, Nothing, Types, Integral, Durations
  <2>2. cell \in {NoCell, Bound(origin)} /\ cell.class \in {Class(t), "null"}
    BY <1>3 DEF IInv, Kept, Get
  <2>3. cell = Bound(origin)
    BY <2>2, ClassFacts DEF NoCell, Cell
  <2>4. CASE origin.val = Null
    <3>1. cell.class = "null" /\ o
      BY <1>3, <2>1, <2>3, <2>4, HostFacts DEF Bound, NullCell, Cell
    <3> QED
      BY <2>4, <3>1 DEF Get
  <2>5. CASE origin.val # Null
    <3>1. cell.class = Class(t) /\ cell.val = Stored(t, origin.val)
      BY <1>3, <2>3, <2>5 DEF Bound, Cell
    <3>2. cell.class # "null"
      BY <3>1, ClassFacts
    <3>3. got'.val = Fetched(t, Stored(t, origin.val))
      BY <3>1, <3>2 DEF Get
    <3> QED
      BY <1>3, <2>1, <2>5, <3>3, RoundTrip
  <2> QED
    BY <2>4, <2>5
<1>4. Intact'
  BY <1>2, <1>3 DEF Intact, Get, Representable
<1> QED
  BY <1>1, <1>4 DEF IInv

\* get_variant: the alternative holds the number.
LEMMA GetVariantStep ==
    ASSUME IInv, GetVariant
    PROVE  IInv'
<1>1. OriginOK' /\ Kept'
  BY DEF IInv, OriginOK, Kept, GetVariant, Representable, Bound
<1>2. /\ got'.type = "variant" /\ got'.val.class = Alternative(cell)
      /\ got'.val.val = cell.val /\ origin' = origin /\ apt' = apt
  BY DEF GetVariant, Cell
<1>3. origin.type # "variant"
  BY HostFacts DEF IInv, OriginOK, Nothing, Types, Integral, Durations
<1>4. ASSUME apt, Representable(origin)
      PROVE  /\ Alternative(cell) = "null" <=> origin.val = Null
             /\ origin.val # Null => cell.val = Stored(origin.type, origin.val)
             /\ Alternative(cell) = "int" => AsIntegral("int", cell.val) = cell.val
  <2>1. cell = Bound(origin)
    BY <1>4 DEF IInv, Kept, GetVariant, NoCell, Cell
  <2>2. CASE origin.val = Null
    BY <2>1, <2>2 DEF Bound, NullCell, Cell, Alternative
  <2>3. CASE origin.val # Null
    <3>1. origin \in Hosts
      BY <2>3 DEF IInv, OriginOK, Nothing
    <3>2. cell.class = Class(origin.type) /\ cell.val = Stored(origin.type, origin.val)
      BY <2>1, <2>3 DEF Bound, Cell
    <3>3. cell.class \in {"integer", "double", "text", "blob"}
      BY <3>1, <3>2, HostFacts, ClassFacts
    <3>4. Alternative(cell) # "null"
      BY <3>3 DEF Alternative
    <3>5. ASSUME Alternative(cell) = "int" PROVE AsIntegral("int", cell.val) = cell.val
      <4>1. cell.val \in Signed(Narrow)
        BY <3>3, <3>5 DEF Alternative
      <4> QED
        BY <4>1, ValuesAssumption, WrapIdentity DEF AsIntegral
    <3> QED
      BY <2>3, <3>2, <3>4, <3>5
  <2> QED
    BY <2>2, <2>3
<1>5. Intact'
  BY <1>2, <1>3, <1>4 DEF Intact, Representable
<1> QED
  BY <1>1, <1>5 DEF IInv

LEMMA StepIntact == IInv /\ [Next]_vars => IInv'
<1> SUFFICES ASSUME IInv, [Next]_vars PROVE IInv'
  OBVIOUS
<1>1. CASE \E h \in Hosts : Bind(h)
  BY <1>1, BindStep
<1>2. CASE \E t \in Parameters, o \in BOOLEAN : Call(t, o)
  BY <1>2, CallStep
<1>3. CASE CallThrows
  <2>1. OriginOK' /\ Intact'
    BY <1>3, UnreadIntact DEF IInv, OriginOK, CallThrows
  <2>2. Kept'
    BY <1>3 DEF Kept, CallThrows
  <2> QED
    BY <2>1, <2>2 DEF IInv
<1>4. CASE \E t \in Types, o \in BOOLEAN : Get(t, o)
  BY <1>4, GetStep
<1>5. CASE GetVariant
  BY <1>5, GetVariantStep
<1>6. CASE UNCHANGED vars
  BY <1>6 DEF vars, IInv, OriginOK, Kept, Intact, Representable, Bound
<1> QED
  BY <1>1, <1>2, <1>3, <1>4, <1>5, <1>6 DEF Next

\* Whatever SQL functions a representable value passes, if each of them can carry it, it
\* is in the cell as it was bound: bind_value, argument_converter and result_writer are
\* inverse to each other.
THEOREM ValuesKept == Spec => []Kept
<1>1. IInv => Kept
  BY DEF IInv
<1> QED
  BY <1>1, InitIntact, StepIntact, PTL DEF Spec

\* A value that has a representation comes back from get<T> as it went into bind, and
\* get_variant's alternative holds the number.
THEOREM ValuesIntact == Spec => []Intact
<1>1. IInv => Intact
  BY DEF IInv
<1> QED
  BY <1>1, InitIntact, StepIntact, PTL DEF Spec
=============================================================================
