--------------------------- MODULE Sanitization ---------------------------
(***************************************************************************)
(* SanitizationPipe: what becomes of every string a request carries.  A    *)
(* text is a sequence of tokens: the characters that the pipe tells apart, *)
(* "x" and "X" for letters, " " for white space, and the rests of the      *)
(* entities (as in "&" followed by "lt;").  A rest is one token: an entity *)
(* that a tag splits further in ("&l<b>t;") is represented by one that a   *)
(* tag splits behind its "&".                                              *)
(***************************************************************************)
EXTENDS Naturals, Sequences, FiniteSetsExt

CONSTANT Token  \* the tokens of all texts

\* The tokens that the pipe looks for and writes.
Mark == {"&", "<", ">", "\"", "'", "amp;", "lt;", "gt;", "quot;", "#x27;", "#39;"}

ASSUME TokensOK == Mark \subseteq Token

\* A replacement of one entity throughout the text.
Replace(text, entity, char) ==
    LET begins(i) == i \in 1..Len(text) - 1 /\ text[i] = "&" /\ text[i + 1] = entity
        upTo[i \in 0..Len(text)] ==
            IF i = 0 THEN <<>>
            ELSE IF begins(i) THEN Append(upTo[i - 1], char)
            ELSE IF begins(i - 1) THEN upTo[i - 1]
            ELSE Append(upTo[i - 1], text[i])
    IN upTo[Len(text)]

\* Faulty variant: "&amp;" stays.
UnescapeBrackets(texts) ==
    {Replace(t, "lt;", "<") : t \in {Replace(u, "gt;", ">") : u \in texts}}

\* One entity after the other: the "&" of the first may begin the second.  (The steps
\* of the pipe are the image of a set of texts, so that TLC evaluates each once.)
UnescapeHtmlEntities(texts) ==
    LET amp == {Replace(t, "amp;", "&") : t \in texts}
        lt == {Replace(t, "lt;", "<") : t \in amp}
        gt == {Replace(t, "gt;", ">") : t \in lt}
        quot == {Replace(t, "quot;", "\"") : t \in gt}
        hex == {Replace(t, "#x27;", "'") : t \in quot}
    IN {Replace(t, "#39;", "'") : t \in hex}

\* What lies between a "<" and the next ">", both included, goes.
StripHtmlTags(text) ==
    LET inTag(i) ==
            \E a \in 1..i, b \in i..Len(text) :
                /\ a < b /\ text[a] = "<" /\ text[b] = ">"
                /\ \A k \in a..i - 1 : text[k] # ">"
        upTo[i \in 0..Len(text)] ==
            IF i = 0 THEN <<>>
            ELSE IF inTag(i) THEN upTo[i - 1]
            ELSE Append(upTo[i - 1], text[i])
    IN upTo[Len(text)]

Trim(text) ==
    LET inside == {i \in 1..Len(text) : text[i] # " "}
    IN IF inside = {} THEN <<>> ELSE SubSeq(text, Min(inside), Max(inside))

Lower(text) == [i \in 1..Len(text) |-> IF text[i] = "X" THEN "x" ELSE text[i]]

Escaped(char) ==
    CASE char = "&" -> <<"&", "amp;">> [] char = "<" -> <<"&", "lt;">>
      [] char = ">" -> <<"&", "gt;">> [] char = "\"" -> <<"&", "quot;">>
      [] char = "'" -> <<"&", "#x27;">> [] OTHER -> <<char>>

EscapeSpecialChars(text) ==
    LET upTo[i \in 0..Len(text)] ==
            IF i = 0 THEN <<>> ELSE upTo[i - 1] \o Escaped(text[i])
    IN upTo[Len(text)]

\* What is left between the tags, before it is escaped.
Stripped(text) ==
    LET plain == {StripHtmlTags(t) : t \in UnescapeHtmlEntities({text})}
    IN CHOOSE t \in {Trim(p) : p \in plain} : TRUE

\* A field is an email field by its name, which a path parameter has not.
Sanitize(text, isEmail) ==
    CHOOSE s \in {EscapeSpecialChars(IF isEmail THEN Lower(t) ELSE t) : t \in {Stripped(text)}} : TRUE
=============================================================================
