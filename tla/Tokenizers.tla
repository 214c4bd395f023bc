----------------------------- MODULE Tokenizers -----------------------------
(***************************************************************************)
(* The two FTS tokenizers of the library, as FTS drives them: a cursor is  *)
(* opened on a text, asked for token after token, and closed.              *)
(*                                                                         *)
(* A text is a sequence of characters, or of bytes for the character       *)
(* tokenizer.  A name of the lists below, and the attribute that goes with *)
(* it, is one character that is also a letter, as its letters are; a       *)
(* longer name that begins or ends with it has more (<header>, <thead>),   *)
(* so that comparing a prefix and searching for the end of a tag are what  *)
(* they are in the code.  Only the case, the kind of a character and its   *)
(* place matter.  The text is followed by a NUL; what comes after that is  *)
(* not the tokenizer's, and stands for any character.                      *)
(***************************************************************************)
EXTENDS Integers, Sequences, FiniteSets, SequencesExt

CONSTANTS
    Pieces,      \* of HTML: records with the text and how it shows
    MaxPieces,   \* bound on the pieces of an HTML text
    MaxBytes     \* bound on the bytes of a text for the character tokenizer

VARIABLES
    tokenizer,   \* "html" or "character", "none" without a cursor
    pieces,      \* what the text is made of, which the code does not know
    aInput,      \* the text
    beyond,      \* the character after the NUL
    iOff,        \* where the next call goes on
    tokens,      \* the tokens returned so far
    done         \* SQLITE_DONE was returned
vars == <<tokenizer, pieces, aInput, beyond, iOff, tokens, done>>

NUL == "NUL"
Bytes == {"a", "A", "lead", "continuation"}

\* An element to leave out: how its tag begins, and what stands before the '>' that
\* ends the element (ignore_opening_tags and ignore_closing_tags).
Element(opening, closing) == [opening |-> opening, closing |-> closing]
ignore_tags == << Element(<<"sup", "marker">>, "sup"), Element(<<"head">>, "head"),
                  Element(<<"footer", "study-notes">>, "footer"),
                  Element(<<"footer", "notes">>, "footer") >>
nonbreaking_tags == {"ruby"}
nonbreaking_ignore_tags == << Element(<<"rp">>, "rp"), Element(<<"rt">>, "rt") >>

\* tolower, and sqlite3FtsUnicodeFold, which leaves nothing of a diacritic.
Lower(char) == IF char = "A" THEN "a" ELSE IF char = "HEAD" THEN "head" ELSE char
Fold(char) == IF char = "^" THEN <<>> ELSE <<Lower(char)>>
Isdiacritic(char) == char = "^"
IsAlnum(char) == char \notin {" ", "<", ">", "/", "^", NUL}

zTerm == Len(aInput)
At(z) == IF z < zTerm THEN aInput[z + 1] ELSE IF z = zTerm THEN NUL ELSE beyond

Token(start, end, text) == [start |-> start, end |-> end, text |-> text]

-----------------------------------------------------------------------------
(***************************************************************************)
(* unicodeNext                                                             *)
(***************************************************************************)
\* while( z!=zTerm && z[0]!='>' ) z++
SkipTag(z) == CHOOSE k \in z..zTerm :
                  /\ k = zTerm \/ At(k) = ">"
                  /\ \A j \in z..(k - 1) : At(j) # ">"

\* strstr of the name and '>': where the '>' is, or -1.
FindEnd(z, name) ==
    LET ends == {k \in (z + 1)..(zTerm - 1) : At(k) = ">" /\ At(k - 1) = name}
    IN IF ends = {} THEN -1 ELSE CHOOSE k \in ends : \A j \in ends : k <= j

\* strncasecmp with the length of the name: the tag at z may have a longer one.
Begins(z, opening) == \A i \in DOMAIN opening : Lower(At(z + i - 1)) = opening[i]

\* The loop over the elements to leave out, whose tags begin d characters behind z.
\* One whose end is missing does not end the loop: the next names are compared with
\* what follows.
SkipElements(z, d, elements) ==
    FoldLeft(LAMBDA s, element :
                 IF s.found \/ ~Begins(s.z + d, element.opening) THEN s
                 ELSE LET y == s.z + d + Len(element.opening)
                          end == FindEnd(y, element.closing)
                      IN [z |-> IF end = -1 THEN y ELSE end,
                          ignored |-> TRUE, found |-> end # -1],
             [z |-> z, ignored |-> FALSE, found |-> FALSE], elements)

\* Before a token: z is at a '<', the result at the '>' that ends the tag or element.
SkipMarkup(z) ==
    LET element == SkipElements(z + 1, 0, ignore_tags)
        ruby == SkipElements(z + 1, 0, nonbreaking_ignore_tags)
    IN SkipTag(IF At(z + 1) = "/" THEN z + 1 ELSE IF element.ignored THEN element.z ELSE ruby.z)

RECURSIVE SkipDelimiters(_)
SkipDelimiters(z) ==
    LET y == IF At(z) = "<" THEN SkipMarkup(z) ELSE z
    IN IF z >= zTerm THEN [zStart |-> z, z |-> z, iCode |-> NUL]
       ELSE IF IsAlnum(At(y)) THEN [zStart |-> z, z |-> y + 1, iCode |-> At(y)]
       ELSE SkipDelimiters(y + 1)

\* Mutant: the end tag of ruby ends a word.
RECURSIVE SkipOpeningTags(_)
SkipOpeningTags(z) ==
    LET element == SkipElements(z, 1, nonbreaking_ignore_tags)
    IN IF At(z) # "<" \/ At(z + 1) = "/" THEN z
       ELSE IF element.ignored
       THEN SkipOpeningTags(IF element.found THEN element.z + 1 ELSE element.z)
       ELSE IF Lower(At(z + 1)) \in nonbreaking_tags THEN SkipOpeningTags(SkipTag(z + 2) + 1)
       ELSE z

\* Inside a token: the tags, and the elements, that do not end a word.
RECURSIVE SkipNonbreaking(_)
SkipNonbreaking(z) ==
    LET element == SkipElements(z, 1, nonbreaking_ignore_tags)
    IN IF At(z) # "<" THEN z
       ELSE IF At(z + 1) = "/"
       THEN IF Lower(At(z + 2)) \in nonbreaking_tags
            THEN SkipNonbreaking(SkipTag(z + 3) + 1) ELSE z
       ELSE IF element.ignored
       THEN SkipNonbreaking(IF element.found THEN element.z + 1 ELSE element.z)
       ELSE IF Lower(At(z + 1)) \in nonbreaking_tags
       THEN SkipNonbreaking(SkipTag(z + 2) + 1)
       ELSE z

\* The do loop: iCode was read before z.
RECURSIVE ReadToken(_, _, _)
ReadToken(z, iCode, text) ==
    LET out == text \o Fold(iCode)
        y == SkipNonbreaking(z)
    IN IF z >= zTerm THEN [zEnd |-> z, z |-> z, text |-> out]
       ELSE IF At(y) = "<" THEN [zEnd |-> z, z |-> y, text |-> out]
       ELSE IF IsAlnum(At(y)) \/ Isdiacritic(At(y)) THEN ReadToken(y + 1, At(y), out)
       ELSE [zEnd |-> z, z |-> y + 1, text |-> out]

\* Mutant: the end of a token is where the next call goes on.
UnicodeNextPastEnd ==
    LET first == SkipDelimiters(iOff)
        token == ReadToken(first.z, first.iCode, <<>>)
    IN /\ tokenizer = "html" /\ ~done
       /\ IF first.zStart >= zTerm
          THEN done' = TRUE /\ UNCHANGED <<iOff, tokens>>
          ELSE /\ iOff' = token.z
               /\ tokens' = Append(tokens, Token(first.zStart, token.z, token.text))
               /\ UNCHANGED done
       /\ UNCHANGED <<tokenizer, pieces, aInput, beyond>>

UnicodeNext ==
    LET first == SkipDelimiters(iOff)
        token == ReadToken(first.z, first.iCode, <<>>)
    IN /\ tokenizer = "html" /\ ~done
       /\ IF first.zStart >= zTerm
          THEN done' = TRUE /\ UNCHANGED <<iOff, tokens>>
          ELSE /\ iOff' = token.z
               /\ tokens' = Append(tokens, Token(first.zStart, token.zEnd, token.text))
               /\ UNCHANGED done
       /\ UNCHANGED <<tokenizer, pieces, aInput, beyond>>

-----------------------------------------------------------------------------
(***************************************************************************)
(* characterNext                                                           *)
(***************************************************************************)
\* Mutant: only the second byte of a character is looked for.
NextCharacterOfTwo(z) == IF z + 1 < zTerm /\ At(z + 1) = "continuation" THEN z + 2 ELSE z + 1

\* "find the beginning of next utf8 character"
NextCharacter(z) ==
    CHOOSE k \in (z + 1)..zTerm :
        /\ k = zTerm \/ At(k) # "continuation"
        /\ \A j \in (z + 1)..(k - 1) : At(j) = "continuation"

CharacterNext ==
    /\ tokenizer = "character" /\ ~done
    /\ IF iOff >= zTerm THEN done' = TRUE /\ UNCHANGED <<iOff, tokens>>
       ELSE LET end == NextCharacter(iOff)
                text == [i \in 1..(end - iOff) |-> Lower(At(iOff + i - 1))]
            IN /\ iOff' = end
               /\ tokens' = Append(tokens, Token(iOff, end, text))
               /\ UNCHANGED done
    /\ UNCHANGED <<tokenizer, pieces, aInput, beyond>>

-----------------------------------------------------------------------------
(***************************************************************************)
(* Cursors                                                                 *)
(***************************************************************************)
\* unicodeOpen, characterOpen
UnicodeOpen ==
    /\ tokenizer = "none"
    /\ tokenizer' = "html"
    /\ \E n \in 0..MaxPieces : \E s \in [1..n -> Pieces] :
          pieces' = s /\ aInput' = FlattenSeq([i \in 1..n |-> s[i].text])
    /\ beyond' \in {"a", " ", "<"}
    /\ UNCHANGED <<iOff, tokens, done>>

CharacterOpen ==
    /\ tokenizer = "none"
    /\ tokenizer' = "character"
    /\ \E n \in 0..MaxBytes : aInput' \in [1..n -> Bytes]
    /\ UNCHANGED <<pieces, beyond, iOff, tokens, done>>

\* unicodeClose, characterClose: FTS also closes a cursor that is not done.
Close ==
    /\ tokenizer # "none"
    /\ tokenizer' = "none" /\ pieces' = <<>> /\ aInput' = <<>> /\ beyond' = NUL
    /\ iOff' = 0 /\ tokens' = <<>> /\ done' = FALSE

Init ==
    /\ tokenizer = "none" /\ pieces = <<>> /\ aInput = <<>> /\ beyond = NUL
    /\ iOff = 0 /\ tokens = <<>> /\ done = FALSE

Next == UnicodeOpen \/ CharacterOpen \/ UnicodeNext \/ CharacterNext \/ Close

Spec == Init /\ [][Next]_vars

-----------------------------------------------------------------------------
(***************************************************************************)
(* Properties                                                              *)
(***************************************************************************)
\* What a reader sees of a text: characters with their offsets.  Tags that do not
\* break a word, and what stands above it, show nothing; the others show a blank.
Shown ==
    FoldLeft(LAMBDA s, piece :
                 [at |-> s.at + Len(piece.text),
                  chars |-> s.chars \o
                      CASE piece.shows = "text" ->
                               [i \in 1..Len(piece.text) |-> <<piece.text[i], s.at + i - 1>>]
                        [] piece.shows = "break" -> << <<" ", s.at>> >>
                        [] OTHER -> <<>>],
             [at |-> 0, chars |-> <<>>], pieces).chars

\* The words of what is shown: each starts with a letter that follows no word, and
\* goes on through letters and diacritics.
Words ==
    LET chars == Shown
        joins(i) == IsAlnum(chars[i][1]) \/ Isdiacritic(chars[i][1])
        within(i, j) == \A k \in i..j : joins(k)
        first == {i \in DOMAIN chars :
                      /\ IsAlnum(chars[i][1])
                      /\ \A k \in 1..(i - 1) : IsAlnum(chars[k][1]) => ~within(k, i)}
        last(i) == CHOOSE j \in i..Len(chars) :
                       within(i, j) /\ (j = Len(chars) \/ ~joins(j + 1))
        word(i) == Token(chars[i][2], chars[last(i)][2] + 1,
                         FlattenSeq([k \in 1..(last(i) - i + 1) |-> Fold(chars[i + k - 1][1])]))
        starts == SetToSortSeq(first, <)
    IN [n \in 1..Len(starts) |-> word(starts[n])]

\* A tag is taken for that of an ignored element because its name begins with that of
\* the element, and what ends the element stands somewhere behind: <header> ... <thead>.
\* The text between them is lost.
TakenForIgnored ==
    \E z \in 0..(zTerm - 1), i \in DOMAIN ignore_tags :
        LET y == z + 1 + Len(ignore_tags[i].opening)
        IN /\ At(z) = "<" /\ Begins(z + 1, ignore_tags[i].opening)
           /\ IsAlnum(At(y)) /\ FindEnd(y, ignore_tags[i].closing) # -1

\* unicodeNext returns the words a reader sees, at their offsets, of a text made of
\* words, tags and closed elements: nothing of an ignored element, a word across ruby
\* tags and without the annotation as one token, whatever stands before, between and
\* behind them, also if other names begin or end like those of the lists.  The code does
\* not do so where TakenForIgnored, nor with the pieces that show "unhandled": an ignored
\* element whose closing tag is not in lower case (strstr), and in a word a name that
\* begins like that of an annotation (<rtc>).
HtmlTokensAreWords ==
    tokenizer = "html" /\ done /\ ~TakenForIgnored
    /\ (\A i \in DOMAIN pieces : pieces[i].shows \notin {"malformed", "unhandled"})
        => tokens = Words

\* characterNext returns every byte once: the tokens are the pieces between the bytes
\* that begin a character, also if the text is not valid UTF-8.
CharacterTokensPartition ==
    tokenizer = "character" =>
        LET starts == {0} \cup {z \in 0..(zTerm - 1) : At(z) # "continuation"}
        IN /\ \A i \in DOMAIN tokens :
                  /\ tokens[i].start \in starts
                  /\ tokens[i].end \in starts \cup {zTerm}
                  /\ tokens[i].start = IF i = 1 THEN 0 ELSE tokens[i - 1].end
                  /\ tokens[i].text = [k \in 1..(tokens[i].end - tokens[i].start) |->
                                          Lower(At(tokens[i].start + k - 1))]
           /\ done /\ zTerm > 0 => Len(tokens) = Cardinality(starts)

\* The text ends inside a tag that does not break words: the loop that looks for its
\* '>' stops at the NUL and the next statement steps over it.
EndsInNonbreakingTag ==
    \E z \in 0..(zTerm - 1) :
        /\ At(z) = "<"
        /\ Lower(At(IF At(z + 1) = "/" THEN z + 2 ELSE z + 1)) \in nonbreaking_tags
        /\ SkipTag(z) = zTerm

\* The offsets that FTS stores and snippet() cuts at: tokens come in order, do not
\* overlap, and lie in the text, also if tags are not closed or elements do not end;
\* only a text that ends inside a ruby tag can have a token that reaches beyond it.
TokensInOrder ==
    \A i \in DOMAIN tokens :
        /\ tokens[i].start < tokens[i].end
        /\ i > 1 => tokens[i - 1].end <= tokens[i].start
        /\ tokens[i].end <= zTerm \/ EndsInNonbreakingTag
=============================================================================
