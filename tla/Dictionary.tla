----------------------------- MODULE Dictionary -----------------------------
(***************************************************************************)
(* The escaped key/value format of a network configuration                 *)
(* (networkconfig/dictionary.go), the signed chunks it travels in          *)
(* (chunk.go), and the reader of the format (request.go).  Agents have a   *)
(* reader of their own, of which this one is the model.                    *)
(*                                                                         *)
(* A dictionary is a sequence of symbols.  A symbol is a character, or the *)
(* serialized form of a value, which is opaque and has no special          *)
(* character.                                                              *)
(***************************************************************************)
EXTENDS Integers, Sequences, SequencesExt, FiniteSetsExt

CONSTANTS MaxDictionaryLength,
          MaxChunkData,     \* how much of a dictionary a chunk carries
          Radix,            \* of the numbers in a dictionary, 16 in the code
          MaxUint           \* the largest number, 2^64 - 1 in the code

ASSUME DictionaryAssumption ==
    /\ MaxDictionaryLength \in Nat
    /\ MaxChunkData \in Nat \ {0}
    /\ Radix \in 2..16 /\ MaxUint \in Nat
    /\ \E digits \in 1..16 : MaxUint + 1 = Radix^digits

Char(c) == <<"char", c>>
Blob(x) == <<"blob", x>>

NUL == Char("NUL")
CR == Char("CR")
LF == Char("LF")
Backslash == Char("\\")
Equals == Char("=")

-----------------------------------------------------------------------------
(* DictionaryBuilder. *)

\* The characters that must not appear in a value, and the letters for them.
Letter == [c \in {NUL, CR, LF, Backslash, Equals} |->
              CASE c = NUL -> Char("0")
                [] c = CR -> Char("r")
                [] c = LF -> Char("n")
                [] c = Equals -> Char("e")
                [] c = Backslash -> Backslash]

\* Separators that pass as they are.
EscapeKeepsSeparators(c) ==
    IF c \in DOMAIN Letter \ {LF, Equals} THEN <<Backslash, Letter[c]>> ELSE <<c>>

Escape(c) == IF c \in DOMAIN Letter THEN <<Backslash, Letter[c]>> ELSE <<c>>

\* Add: one line.  The keys are literals of the code.
Line(entry) ==
    <<Char(entry.key), Equals>>
      \o FlattenSeq([j \in 1..Len(entry.value) |-> Escape(entry.value[j])]) \o <<LF>>

\* The entries in insertion order.
Serialized(entries) == FlattenSeq([j \in 1..Len(entries) |-> Line(entries[j])])

HexDigits == <<"0", "1", "2", "3", "4", "5", "6", "7", "8", "9", "a", "b", "c", "d", "e", "f">>

\* AddHexUint: strconv.FormatUint(value, 16).
Hex[n \in 0..MaxUint] ==
    IF n < Radix THEN <<Char(HexDigits[n + 1])>>
    ELSE Append(Hex[n \div Radix], Char(HexDigits[(n % Radix) + 1]))

-----------------------------------------------------------------------------
(* Signed chunks. *)

\* Chunks that leave out the last position of each.
ChunkShort(update, dictionary, j) ==
    LET index == j * MaxChunkData
        end == Min({index + MaxChunkData - 1, Len(dictionary)}) IN
    [update |-> update, total |-> Len(dictionary), index |-> index,
     data |-> SubSeq(dictionary, index + 1, end)]

\* The chunk that starts at index j * MaxChunkData.
Chunk(update, dictionary, j) ==
    LET index == j * MaxChunkData
        end == Min({index + MaxChunkData, Len(dictionary)}) IN
    [update |-> update, total |-> Len(dictionary), index |-> index,
     data |-> SubSeq(dictionary, index + 1, end)]

BuildSignedChunks(update, dictionary) ==
    [j \in 1..(Len(dictionary) + MaxChunkData - 1) \div MaxChunkData |->
        Chunk(update, dictionary, j - 1)]

\* ParseSignedChunk: what it accepts.
ChunkInRange(chunk) ==
    chunk.update # 0 /\ chunk.total # 0 /\ chunk.index + Len(chunk.data) <= chunk.total

\* What an agent that has all the chunks of an update has (external): the data of
\* each at its index.
Assembled(chunks) == FlattenSeq([j \in 1..Len(chunks) |-> chunks[j].data])

-----------------------------------------------------------------------------
(* The reader: parseDictionary. *)

Breaks == {CR, LF}

\* splitLines: where the lines that are not empty begin, and the line there.
LineStarts(bytes) ==
    {i \in 1..Len(bytes) : bytes[i] \notin Breaks /\ (i = 1 \/ bytes[i - 1] \in Breaks)}

LineAt(bytes, i) ==
    SubSeq(bytes, i, Min({j \in i..Len(bytes) : bytes[j] \in Breaks} \cup {Len(bytes) + 1}) - 1)

Separator(line) == SelectInSeq(line, LAMBDA c : c = Equals)
KeyOf(line) == SubSeq(line, 1, Separator(line) - 1)
ValueOf(line) == SubSeq(line, Separator(line) + 1, Len(line))

\* escaped[j]: the symbol at j follows a backslash that is not escaped itself.
Escaped(value) ==
    LET escaped[j \in 0..Len(value)] ==
            j > 1 /\ value[j - 1] = Backslash /\ ~ escaped[j - 1]
    IN escaped

\* A letter that stands for no character stands for itself.
Meaning(c) ==
    LET meant == {x \in DOMAIN Letter : Letter[x] = c} IN
    IF meant = {} THEN c ELSE CHOOSE x \in meant : TRUE

UnescapeValue(value) ==
    LET escaped == Escaped(value) IN
    FlattenSeq([j \in 1..Len(value) |->
        IF escaped[j] THEN <<Meaning(value[j])>>
        ELSE IF value[j] = Backslash THEN <<>> ELSE <<value[j]>>])

\* A value that ends with an incomplete escape is an error.
IncompleteEscape(value) ==
    value # <<>> /\ value[Len(value)] = Backslash /\ ~ Escaped(value)[Len(value)]

Readable(bytes) ==
    /\ \A j \in 1..Len(bytes) : bytes[j] # NUL
    /\ \A i \in LineStarts(bytes) :
          LET line == LineAt(bytes, i) IN
          /\ Separator(line) > 1
          /\ \A j \in 1..Separator(line) - 1 : line[j] # Backslash
          /\ ~ IncompleteEscape(ValueOf(line))

\* The first duplicate of a key wins.
ParseDictionary(bytes) ==
    LET starts == LineStarts(bytes)
        At(key) == {i \in starts : KeyOf(LineAt(bytes, i)) = key} IN
    [key \in {KeyOf(LineAt(bytes, i)) : i \in starts} |->
        UnescapeValue(ValueOf(LineAt(bytes, Min(At(key)))))]

\* The value under a key; an absent key reads as an empty value.
Field(dictionary, key) ==
    IF <<Char(key)>> \in DOMAIN dictionary THEN dictionary[<<Char(key)>>] ELSE <<>>

\* HexUint: not a number, or too large a one, is no number, here -1.  (It also takes
\* the capitals A to F, which the writer above never produces.)
HexUint(dictionary, key) ==
    LET value == Field(dictionary, key)
        nibble[j \in 1..Len(value)] ==
            SelectInSeq(HexDigits, LAMBDA d : Char(d) = value[j]) - 1
        result[j \in 0..Len(value)] ==
            IF j = 0 THEN 0
            ELSE IF nibble[j] < 0 \/ result[j - 1] \notin 0..(MaxUint \div Radix) THEN -1
            ELSE result[j - 1] * Radix + nibble[j]
    IN IF value = <<>> THEN -1 ELSE result[Len(value)]
=============================================================================
