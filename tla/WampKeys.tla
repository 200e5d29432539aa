------------------------------- MODULE WampKeys -------------------------------
(***************************************************************************)
(* The keys of the runtime's tables: the dispatcher table of a stub        *)
(* adapter, an unordered_map over pairs of const char* with the hash and   *)
(* equal_to of WampFunctionalHash, and the translator's map, ordered by    *)
(* WampAddress::operator<.                                                 *)
(*                                                                         *)
(* Generated code fills the dispatcher table with string literals, and a   *)
(* message is looked up by pointers into its own buffers.  A text is the   *)
(* sequence of its bytes.  A 32 bit word is a pair of 16 bit halves, for   *)
(* TLC has no larger integers.                                             *)
(***************************************************************************)
EXTENDS Naturals, Sequences, SequencesExt

CONSTANTS
    Literals,       \* addresses of the string literals
    Buffers,        \* the addresses of a message's two buffers, a pair
    TextAt,         \* the text of each literal
    Texts,          \* the texts in a message, and the realms
    Dispatchers,    \* the StubDispatcherBase objects
    Buckets,        \* the number of buckets
    CharIsSigned,   \* of the compiler
    None,
    EntryBound      \* how many entries the two tables get in all

Bytes == 0..255

ASSUME TextsAreBytes ==
    /\ TextAt \in [Literals -> Seq(Bytes)]
    /\ Texts \subseteq Seq(Bytes)
ASSUME BuffersAreNoLiterals ==
    Buffers[1] # Buffers[2] /\ {Buffers[1], Buffers[2]} \cap Literals = {}
ASSUME SomeBuckets == Buckets \in Nat \ {0} /\ CharIsSigned \in BOOLEAN
ASSUME EntryBoundNat == EntryBound \in Nat

VARIABLES
    table,     \* the dispatcher table: entries of key and value
    message,   \* what is in the buffers
    found,     \* the dispatcher that the message was given to
    addresses, \* the keys of backwards_ in the order of the map
    entered,   \* the realms that were inserted there
    hashed,    \* the fields that the last step has hashed
    word       \* and their hash

vars == <<table, message, found, addresses, entered, hashed, word>>

-----------------------------------------------------------------------------
(* hash32                                                                  *)

Half == 65536
Low(n) == <<0, n>>

(* w * 33 + c on uint32_t. *)
Times33Plus(w, c) ==
    LET low == w[2] * 33 + c[2]
    IN  <<(w[1] * 33 + c[1] + low \div Half) % Half, low % Half>>

(* A char is converted to int before it is added. *)
CharWord(b) == IF CharIsSigned /\ b >= 128 THEN <<Half - 1, Half - 256 + b>> ELSE Low(b)

SeedValue == <<50959, 26887>>      \* 0xc70f6907

hash32(text, seed) ==
    FoldLeft(LAMBDA h, b : Times33Plus(h, CharWord(b)),
             Times33Plus(Low(5381), seed), text)

(* Mutant: every field starts with the same seed, the last one decides. *)
MutHashFields(fields) == hash32(Last(fields), SeedValue)

(* The hash of one field is the seed of the next. *)
HashFields(fields) == FoldLeft(LAMBDA seed, f : hash32(f, seed), SeedValue, fields)

(* strlen() ends a text at its first NUL, string::length() does not. *)
CString(text) == SubSeq(text, 1, SelectInSeq(text \o <<0>>, LAMBDA b : b = 0) - 1)

BoolBytes(d) == <<IF d THEN 1 ELSE 0>>
IntBytes(n) == <<n % 256, (n \div 256) % 256, (n \div 65536) % 256, n \div 16777216>>

(* What the specialisations of std::hash take their hash of. *)
Fields(type, key) ==
    CASE type = "pointer" -> <<CString(key[1])>>
      [] type = "pointers" -> <<CString(key[1]), CString(key[2])>>
      [] type = "bool" -> SubSeq(key, 1, 3) \o <<BoolBytes(key[4] # <<>>)>>
      [] type = "int" -> SubSeq(key, 1, 3) \o <<IntBytes(Len(key[4]) * 4660)>>
      [] OTHER -> key

Arity == [pointer |-> 1, pointers |-> 2, strings |-> 2, triple |-> 3, bool |-> 4,
          int |-> 4, quadruple |-> 4]

-----------------------------------------------------------------------------
(* The dispatcher table                                                    *)

TextOf(p) == IF p \in Literals THEN TextAt[p]
             ELSE IF p = Buffers[1] THEN message[1] ELSE message[2]

(* Mutant: std::hash of the pointers, which is their address. *)
MutHashPointers(k) == Low(k[1] + k[2])

HashPointers(k) == HashFields(Fields("pointers", <<TextOf(k[1]), TextOf(k[2])>>))

(* Mutant: only the pointers are compared. *)
MutEqualTo(j, k) == j[1] = k[1] /\ j[2] = k[2]

EqualTo(j, k) == \/ j[1] = k[1] /\ j[2] = k[2]
                 \/ /\ CString(TextOf(j[1])) = CString(TextOf(k[1]))
                    /\ CString(TextOf(j[2])) = CString(TextOf(k[2]))

Bucket(w) == ((w[1] % Buckets) * (Half % Buckets) + w[2]) % Buckets

(* The entries that a search in an unordered_map comes by and finds equal. *)
Matches(k) == {e \in ToSet(table) :
    Bucket(HashPointers(e.key)) = Bucket(HashPointers(k)) /\ EqualTo(e.key, k)}

Init ==
    /\ table = <<>> /\ message = <<<<>>, <<>>>> /\ found = None
    /\ addresses = <<>> /\ entered = {}
    /\ hashed = <<>> /\ word = SeedValue

(* Bound: EntryBound entries in the two tables together. *)
Room == Len(table) + Len(addresses) < EntryBound

HashesNothing == hashed' = <<>> /\ word' = SeedValue
HashesPointers(k) == /\ hashed' = <<CString(TextOf(k[1])), CString(TextOf(k[2]))>>
                     /\ word' = HashPointers(k)

(* An entry of the table that generated code writes down. *)
AddDispatcher(p, q, d) ==
    /\ Room
    /\ table' = IF Matches(<<p, q>>) # {} THEN table
                ELSE Append(table, [key |-> <<p, q>>, value |-> d])
    /\ HashesPointers(<<p, q>>)
    /\ UNCHANGED <<message, found, addresses, entered>>

(* The member and the signature of a message come into the buffers. *)
Receive(s, t) ==
    /\ message' = <<s, t>> /\ found' = None
    /\ HashesNothing
    /\ UNCHANGED <<table, addresses, entered>>

(* Which of several equal entries is met first is the library's. *)
FindDispatcher ==
    /\ \/ Matches(Buffers) = {} /\ found' = None
       \/ \E e \in Matches(Buffers) : found' = e.value
    /\ HashesPointers(Buffers)
    /\ UNCHANGED <<table, message, addresses, entered>>

(* Bound: keys of the other types, which the runtime keeps in no table, are
   hashed before anything else.                                            *)
HashKey(type, key) ==
    /\ table = <<>> /\ addresses = <<>> /\ message = <<<<>>, <<>>>> /\ hashed = <<>>
    /\ hashed' = Fields(type, key)
    /\ word' = HashFields(Fields(type, key))
    /\ UNCHANGED <<table, message, found, addresses, entered>>

-----------------------------------------------------------------------------
(* The ordered map                                                         *)

(* operator< of std::string compares bytes without sign. *)
StringLess(s, t) ==
    \E i \in 1..Len(t) : /\ i > Len(s) \/ s[i] < t[i]
                         /\ \A j \in 1..(i - 1) : j =< Len(s) /\ s[j] = t[j]

(* Mutant: not less, but less or equal. *)
MutLess(a, b) == a = b \/ StringLess(a, b)

Less(a, b) == StringLess(a, b)

(* The first key that is not less, or the end. *)
LowerBound(r) ==
    Min({i \in DOMAIN addresses : ~Less(addresses[i], r)} \cup {Len(addresses) + 1})
AtEnd(i) == i > Len(addresses)
Finds(r) == ~AtEnd(LowerBound(r)) /\ ~Less(r, addresses[LowerBound(r)])

InsertAddress(r) ==
    /\ Room
    /\ addresses' = IF Finds(r) THEN addresses
                    ELSE IF AtEnd(LowerBound(r)) THEN Append(addresses, r)
                    ELSE InsertAt(addresses, LowerBound(r), r)
    /\ entered' = entered \cup {r}
    /\ HashesNothing
    /\ UNCHANGED <<table, message, found>>

-----------------------------------------------------------------------------
Next ==
    \/ \E p, q \in Literals, d \in Dispatchers : AddDispatcher(p, q, d)
    \/ \E s, t \in Texts : Receive(s, t)
    \/ FindDispatcher
    \/ \E type \in DOMAIN Arity :
          \E key \in [1..Arity[type] -> Texts] : HashKey(type, key)
    \/ \E r \in Texts : InsertAddress(r)

Spec == Init /\ [][Next]_vars

-----------------------------------------------------------------------------
(* Properties                                                              *)

Contents(k) == <<CString(TextOf(k[1])), CString(TextOf(k[2]))>>

(* The dispatcher table is a map over texts, whatever the addresses of the
   literals and of the message's buffers are.                              *)
Abstract == INSTANCE MemberMap WITH
    entries <- {<<Contents(e.key), e.value>> : e \in ToSet(table)}

TableIsMap == Abstract!Spec

(* A message is given to the dispatcher that was entered for its texts, and
   goes unfound only if there is none: the bucket searched for a buffer is the
   one that the entry of a literal is in.                                  *)
FoundByContents ==
    [][FindDispatcher =>
          LET E == {e \in ToSet(table) : Contents(e.key) = Contents(Buffers)}
          IN  IF E = {} THEN found' = None ELSE \E e \in E : found' = e.value]_vars

(* The hash is the polynomial in 33 of the seed and all bytes one after the
   other, and each field adds 5381 * 33 at its beginning, so that it matters
   where one field ends and the next begins; all modulo 2^32.              *)
Plus(v, w) == <<(v[1] + w[1] + (v[2] + w[2]) \div Half) % Half, (v[2] + w[2]) % Half>>
Scaled(w, n) ==
    LET f[i \in 0..n] == IF i = 0 THEN w ELSE Times33Plus(f[i - 1], Low(0)) IN f[n]
Sum(words) == FoldLeft(Plus, Low(0), words)
LengthFrom(fields, j) == Len(FlattenSeq(SubSeq(fields, j, Len(fields))))

Polynomial(fields) ==
    LET bytes == FlattenSeq(fields)
        n == Len(bytes)
    IN  Sum(<<Scaled(SeedValue, n)>>
            \o [i \in 1..n |-> Scaled(CharWord(bytes[i]), n - i)]
            \o [j \in DOMAIN fields |-> Scaled(Low(5381), 1 + LengthFrom(fields, j))])

HashIsPolynomial == word = Polynomial(hashed)

(* The ordered map holds every realm that was inserted once, in ascending
   order, and finds exactly those.                                         *)
AddressesFound ==
    /\ \A i, j \in DOMAIN addresses : i < j => StringLess(addresses[i], addresses[j])
    /\ \A r \in Texts : Finds(r) <=> r \in entered
=============================================================================
